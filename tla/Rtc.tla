--------------------------------- MODULE Rtc ---------------------------------
(***************************************************************************)
(* The CMOS clock and its alarm (l_time.c, l_rtc.c, and the BCD functions  *)
(* of l_stdlib.c): time_init reads the time, rtc_init sets an alarm two    *)
(* seconds on, and rtc_handler sets the next one each time it rings.       *)
(* kernel_init has both calls commented out; this is what they do when it  *)
(* makes them, in its order, and the line of the alarm is opened.          *)
(*                                                                         *)
(* One step for each register read or written: the clock goes on between   *)
(* them.  The chip (external, MC146818) updates its registers in one       *)
(* piece.  Its date is one register here, for all its parts change at      *)
(* midnight together.                                                      *)
(***************************************************************************)
EXTENDS Integers, Sequences

CONSTANTS
  SIXTY,           \* seconds in a minute, minutes in an hour
  HOURS,           \* in a day
  Dates,           \* bound: the dates of the chip's calendar, which recur
  SLOW,            \* bound: seconds that pass in one call of the code
  LATE             \* bound: seconds an interrupt waits at the 8259

ALARM == 2         \* set_alarm_sec(2), both calls

ASSUME RtcAssumption ==
  /\ SIXTY \in 3 .. 60 /\ HOURS \in 1 .. 24
  /\ SLOW \in Nat /\ SLOW < ALARM /\ LATE \in Nat
  /\ Dates \in Seq([year : 0 .. 99, mon : 1 .. 12, mday : 1 .. 31]) /\ Dates # <<>>

VARIABLES
  now,             \* the chip's clock: sec, min, hour, and a number of Dates
  binary,          \* register B: its data mode
  aie,             \* register B: alarm interrupts are enabled
  af,              \* register C: the alarm's flag, which also is IRQF if aie
  alarm,           \* the chip's alarm registers, as bytes
  irq,             \* IRQ 8 waits at the 8259
  code,            \* the function that runs: "time_init" to "handler", or "idle"
  step,            \* how far it is
  tm,              \* its struct tm
  slow             \* history: seconds since it was called, or irq rose

chip == <<now, binary, aie, af, alarm, irq>>
rvars == <<chip, code, step, tm, slow>>

(***************************************************************************)
(* l_stdlib.c                                                              *)
(***************************************************************************)
(* Mutant: the nibbles are weighted as hexadecimal. *)
BcdToBinHex(bcd_data) == (bcd_data % 16) + 16 * (bcd_data \div 16)
BcdToBin(bcd_data) == (bcd_data % 16) + 10 * (bcd_data \div 16)
BinToBcd(bin) == (bin % 10) + 16 * (bin \div 10)

(***************************************************************************)
(* The chip                                                                *)
(***************************************************************************)
Byte(n) == IF binary THEN n ELSE BinToBcd(n)

Tick(t) ==
  LET sec == (t.sec + 1) % SIXTY
      min == IF sec = 0 THEN (t.min + 1) % SIXTY ELSE t.min
      hour == IF sec = 0 /\ min = 0 THEN (t.hour + 1) % HOURS ELSE t.hour
      day == IF sec = 0 /\ min = 0 /\ hour = 0 THEN (t.day % Len(Dates)) + 1 ELSE t.day
  IN  [sec |-> sec, min |-> min, hour |-> hour, day |-> day]

AlarmFor(t) == [sec |-> Byte(t.sec), min |-> Byte(t.min), hour |-> Byte(t.hour)]

(* The clock moves on; if it reaches the alarm the flag is set, and the    *)
(* line rises unless it is still up.                                       *)
Second ==
  /\ code # "idle" => slow < SLOW
  /\ code = "idle" /\ irq => slow < LATE
  /\ slow' = IF code = "idle" /\ ~irq THEN 0 ELSE slow + 1
  /\ now' = Tick(now)
  /\ IF alarm = AlarmFor(now')
     THEN af' = TRUE /\ irq' = (irq \/ (aie /\ ~af))
     ELSE UNCHANGED <<af, irq>>
  /\ UNCHANGED <<binary, aie, alarm, code, step, tm>>

-----------------------------------------------------------------------------
Times == [sec : 0 .. SIXTY - 1, min : 0 .. SIXTY - 1, hour : 0 .. HOURS - 1,
          day : 1 .. Len(Dates)]
Bytes8 == 0 .. 255
NoTime == [sec |-> 0, min |-> 0, hour |-> 0, day |-> 1, yday |-> 0]

(* The BIOS leaves its mode, an alarm at midnight and a flag nobody read.  *)
RtcInit ==
  /\ now \in Times /\ binary \in BOOLEAN /\ aie = FALSE /\ af \in BOOLEAN
  /\ alarm = [sec |-> 0, min |-> 0, hour |-> 0] /\ irq = FALSE
  /\ code = "time_init" /\ step = "sec" /\ tm = NoTime /\ slow = 0

Goes(to) == step' = to /\ UNCHANGED <<code, slow>>
Leaves == step' = "none" /\ code' = "idle" /\ slow' = 0 /\ tm' = NoTime

(***************************************************************************)
(* time_read                                                               *)
(***************************************************************************)
ReadSecond ==
  /\ step = "sec" /\ Goes("min")
  /\ tm' = [tm EXCEPT !.sec = Byte(now.sec)]
  /\ UNCHANGED chip

ReadMinute ==
  /\ step = "min" /\ Goes("hour")
  /\ tm' = [tm EXCEPT !.min = Byte(now.min)]
  /\ UNCHANGED chip

ReadHour ==
  /\ step = "hour" /\ Goes("day")
  /\ tm' = [tm EXCEPT !.hour = Byte(now.hour)]
  /\ UNCHANGED chip

ReadDay ==
  /\ step = "day" /\ Goes("again")
  /\ tm' = [tm EXCEPT !.day = now.day]
  /\ UNCHANGED chip

(* Mutant: the second is not read again. *)
ReadAgainTrusts ==
  /\ step = "again" /\ Goes("mode")
  /\ UNCHANGED <<chip, tm>>

(* The loop of time_read_bcd ends if the second has not changed.           *)
ReadAgain ==
  /\ step = "again"
  /\ Goes(IF tm.sec = Byte(now.sec) THEN "mode" ELSE "sec")
  /\ UNCHANGED <<chip, tm>>

(* The days before each month, in a leap year.                             *)
month == <<0, 31, 60, 91, 121, 152, 182, 213, 244, 274, 305, 335>>

(* get_yday: the years are counted from 1970.                              *)
Yday(date) ==
  LET year == IF date.year >= 70 THEN date.year - 70 ELSE date.year - 70 + 100
      days == month[date.mon] + date.mday
  IN  IF year % 4 # 0 /\ date.mon > 2 THEN days - 1 ELSE days

(* What follows the reading, in the function that asked for it.            *)
AfterRead == IF code = "time_init" THEN "regb" ELSE "alarm sec"

(* In binary mode nothing is converted and tm_yday is not set.             *)
Convert ==
  /\ step = "mode"
  /\ step' = AfterRead
  /\ code' = IF code = "time_init" THEN "rtc_init" ELSE code
  /\ slow' = IF code = "time_init" THEN 0 ELSE slow
  /\ tm' = IF binary THEN tm
           ELSE [tm EXCEPT !.sec = BcdToBin(@), !.min = BcdToBin(@), !.hour = BcdToBin(@),
                           !.yday = Yday(Dates[tm.day])]
  /\ UNCHANGED chip

(***************************************************************************)
(* set_alarm_sec                                                           *)
(***************************************************************************)
(* Mutant: a full minute is not carried. *)
CarryStrict(n, limit) == IF n > limit THEN 1 ELSE 0
Carry(n, limit) == IF n >= limit THEN 1 ELSE 0

TimeAfter(t, sec) ==
  LET s == t.sec + (sec % SIXTY)
      m == t.min + ((sec \div SIXTY) % SIXTY) + Carry(s, SIXTY)
      h == t.hour + ((sec \div SIXTY) \div SIXTY) + Carry(m, SIXTY)
  IN  [sec  |-> s - SIXTY * Carry(s, SIXTY),
       min  |-> m - SIXTY * Carry(m, SIXTY),
       hour |-> h - HOURS * Carry(h, HOURS)]

(* The alarm is written in BCD whatever the mode, one register at a time.  *)
WriteAlarm(field, from, to) ==
  /\ step = from /\ Goes(to)
  /\ alarm' = [alarm EXCEPT ![field] = BinToBcd(TimeAfter(tm, ALARM)[field])]
  /\ UNCHANGED <<now, binary, aie, af, irq, tm>>

SetAlarmSec ==
  \/ WriteAlarm("sec", "alarm sec", "alarm min")
  \/ WriteAlarm("min", "alarm min", "alarm hour")
  \/ WriteAlarm("hour", "alarm hour", IF code = "rtc_init" THEN "set handler" ELSE "flag")

(***************************************************************************)
(* rtc_init and rtc_handler                                                *)
(***************************************************************************)
(* 0b00100010 to register B: BCD, alarm interrupts.  A flag left behind    *)
(* raises the line at once.                                                *)
RtcInitRegB ==
  /\ step = "regb" /\ Goes("sec")
  /\ binary' = FALSE /\ aie' = TRUE /\ irq' = (irq \/ af)
  /\ UNCHANGED <<now, af, alarm, tm>>

SetHandler ==
  /\ step = "set handler" /\ Leaves
  /\ UNCHANGED chip

(* External: the 8259 and the stub, with the line unmasked.                *)
AlarmInterrupt ==
  /\ code = "idle" /\ irq
  /\ irq' = FALSE /\ code' = "handler" /\ step' = "sec" /\ slow' = 0
  /\ UNCHANGED <<now, binary, aie, af, alarm, tm>>

(* Mutant: register C is not read. *)
FlagKept ==
  /\ step = "flag" /\ Leaves
  /\ UNCHANGED chip

(* Reading register C clears it and takes the line down; then send_eoi.    *)
FlagClear ==
  /\ step = "flag" /\ Leaves
  /\ af' = FALSE
  /\ UNCHANGED <<now, binary, aie, alarm, irq>>

RtcCode ==
  \/ ReadSecond \/ ReadMinute \/ ReadHour \/ ReadDay \/ ReadAgain \/ Convert
  \/ SetAlarmSec \/ RtcInitRegB \/ SetHandler \/ FlagClear

RtcNext == Second \/ RtcCode \/ AlarmInterrupt

RtcSpec == RtcInit /\ [][RtcNext]_rvars

(* The clock does not stop, the code goes on, and the line is open.        *)
RtcFairness == WF_rvars(Second) /\ WF_rvars(RtcCode) /\ WF_rvars(AlarmInterrupt)

RtcFairSpec == RtcSpec /\ RtcFairness

-----------------------------------------------------------------------------
TmType == [sec : Bytes8, min : Bytes8, hour : Bytes8, day : 1 .. Len(Dates), yday : 0 .. 366]

RtcTypeOK ==
  /\ now \in Times /\ binary \in BOOLEAN /\ aie \in BOOLEAN /\ af \in BOOLEAN
  /\ alarm \in [sec : Bytes8, min : Bytes8, hour : Bytes8] /\ irq \in BOOLEAN
  /\ code \in {"time_init", "rtc_init", "handler", "idle"}
  /\ step \in {"sec", "min", "hour", "day", "again", "mode", "alarm sec", "alarm min",
               "alarm hour", "regb", "set handler", "flag", "none"}
  /\ tm \in TmType /\ slow \in Nat

(* A time that time_read returns is one the clock showed, all of it, since *)
(* the call began, although its registers are read one after another while *)
(* the clock runs.                                                         *)
ReadsOneMoment ==
  /\ RtcTypeOK
  /\ step = "mode" =>
       \E t \in Times :
         /\ tm.sec = Byte(t.sec) /\ tm.min = Byte(t.min) /\ tm.hour = Byte(t.hour)
         /\ tm.day = t.day
         /\ now = t \/ (now = Tick(t) /\ slow > 0)

TimeOfDay(t) == [sec |-> t.sec, min |-> t.min, hour |-> t.hour]

(* The alarm is never lost: while nobody handles it, it waits at the 8259  *)
(* or will ring within two seconds, across the end of the minute, the hour *)
(* and the day, and although the handler sets the next one before it       *)
(* clears the flag of this one (l_rtc.c:39 wonders about the order).       *)
AlarmNeverLost ==
  code = "idle" =>
    IF af THEN irq
    ELSE \E t \in {Tick(now), Tick(Tick(now))} : alarm = AlarmFor(t)

(* Once it is enabled the alarm rings again and again.                     *)
AlarmRings == [](aie => <>(code = "handler"))

(***************************************************************************)
(* tm_yday                                                                 *)
(***************************************************************************)
MonthLength(year, mon) ==
  CASE mon = 2 -> IF year % 4 = 0 THEN 29 ELSE 28
    [] mon \in {4, 6, 9, 11} -> 30
    [] OTHER -> 31

DaysBefore[year \in 0 .. 99, mon \in 1 .. 12] ==
  IF mon = 1 THEN 0 ELSE DaysBefore[year, mon - 1] + MonthLength(year, mon - 1)

(* "If it is not a leap year and February has passed, one day less"        *)
(* (l_time.c:57): tm_yday is the number of the day in its year.            *)
YdayCounted ==
  code = "rtc_init" /\ ~binary /\ tm.yday # 0 =>
    LET date == Dates[tm.day]
    IN  tm.yday = DaysBefore[date.year, date.mon] + date.mday
=============================================================================
