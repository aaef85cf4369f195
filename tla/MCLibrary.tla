------------------------------ MODULE MCLibrary ------------------------------
(***************************************************************************)
(* Strings, Format and Rtc side by side for TLC: one call of a function of *)
(* l_string.c, or one of vsprintf, runs to its end, or the clock and its   *)
(* alarm go on for ever, while the other modules have nothing to do.  For  *)
(* Strings, bytes that hold a positive or a negative char (the byte 0xFF)  *)
(* or the terminator, searched for 255 as well as -1; for Format, a        *)
(* conversion of every kind, with up to two flags, between ordinary        *)
(* characters and a plain %x, on words of 8 bits; for Rtc, a leap day and  *)
(* the day after it.                                                       *)
(***************************************************************************)
EXTENDS Strings, Format, Rtc

SomeChars == {0, 1, -1}
SomeArguments == {0, 1, -1, 255}

Flags ==
  {<<>>} \cup {<<f>> : f \in FlagChars}
    \cup {<<"-", "0">>, <<"0", "#">>, <<"+", "0">>, <<"#", "-">>, <<" ", "+">>}
Widths == {<<>>, <<"1">>, <<"6">>, <<"1", "0">>, <<"*">>}
Precisions == {<<>>, <<".">>, <<".", "5">>, <<".", "*">>}
Qualifiers == {<<>>, <<"l">>}
Words == {<<>>, <<"k">>, <<"k", "o", "k">>}
Numbers == {0, 9, 171, 255, -1, -16}

FormatOf(f, w, p, q, t) ==
  <<"a", "%">> \o f \o w \o p \o q \o <<t, "b", "%", "x">>

CallsOf(types, values) ==
  {[fmt |-> FormatOf(f, w, p, q, t), args |-> <<a, 44>>] :
     f \in Flags, w \in Widths, p \in Precisions, q \in Qualifiers, t \in types, a \in values}

SomeCalls ==
  CallsOf({"x", "d", "u"}, Numbers) \cup CallsOf({"s"}, Words) \cup CallsOf({"c"}, {"k"})
    \cup {[fmt |-> FormatOf(f, <<>>, <<>>, <<>>, t), args |-> <<44>>] :
            f \in Flags, t \in {"%", "z"}}

SomeDates == <<[year |-> 24, mon |-> 2, mday |-> 29], [year |-> 24, mon |-> 3, mday |-> 1]>>

-----------------------------------------------------------------------------
StringsIdle ==
  /\ pc = "done" /\ call = [op |-> "mset", dest |-> 0, src |-> 0, ch |-> 0, count |-> 0]
  /\ mem = [a \in Cells |-> EOS] /\ before = mem
  /\ i = 0 /\ ptr = 0 /\ ans = NULL /\ ret = 0

FormatIdle ==
  /\ vpc = "done" /\ fmt = <<>> /\ k = 1 /\ args = <<>> /\ str = <<>> /\ vret = 0
  /\ given = <<>> /\ last = NoField

(* The clock stands still and no function reads it.                        *)
RtcIdle ==
  /\ now = [sec |-> 0, min |-> 0, hour |-> 0, day |-> 1]
  /\ binary = FALSE /\ aie = FALSE /\ af = FALSE /\ irq = FALSE
  /\ alarm = [sec |-> 0, min |-> 0, hour |-> 0]
  /\ code = "time_init" /\ step = "none" /\ tm = NoTime /\ slow = SLOW

LibraryInit ==
  \/ Init /\ FormatIdle /\ RtcIdle
  \/ StringsIdle /\ FormatInit /\ RtcIdle
  \/ StringsIdle /\ FormatIdle /\ RtcInit

LibraryNext ==
  \/ Next /\ UNCHANGED <<fvars, rvars>>
  \/ FormatNext /\ UNCHANGED <<vars, rvars>>
  \/ RtcNext /\ UNCHANGED <<vars, fvars>>

LibrarySpec ==
  /\ LibraryInit /\ [][LibraryNext]_<<vars, fvars, rvars>>
  /\ WF_vars(Next) /\ RtcFairness
=============================================================================
