-------------------------- MODULE InterruptsProofs --------------------------
(***************************************************************************)
(* Interrupts keeps its promises whatever lines and faults there are.  The *)
(* invariant, IInv, adds to the properties what is in service while a      *)
(* handler is on its way (Serving), that a mask read and not yet written   *)
(* back is the one asked for (MasksInv), and what the tables hold          *)
(* (TablesInv).  One lemma for each action, then the theorems.             *)
(***************************************************************************)
EXTENDS Interrupts, TLAPS

USE InterruptsAssumption
    DEF EXCEPTION_SIZE, HANDLER_ENTRY_SIZE, CASCADE_IRQ, Chips, Bits, Vectors

Hardware == vector >= EXCEPTION_SIZE

(* What is in service: the line of the handler under way, and the slave's  *)
(* own line with it, until each chip has its end of interrupt.             *)
Serving ==
  /\ handler = "none" \/ handler = "exit" => isr["master"] = {} /\ isr["slave"] = {}
  /\ handler = "eoi" => Hardware
  /\ handler = "eoi slave" =>
       vector >= 40 /\ isr["master"] = {} /\ isr["slave"] = {vector - 40}
  /\ handler \in {"entry", "eoi"} /\ Hardware =>
       IF vector < 40 THEN isr["master"] = {vector - 32} /\ isr["slave"] = {}
       ELSE isr["master"] = {CASCADE_IRQ} /\ isr["slave"] = {vector - 40}

MasksInv ==
  /\ MasksAsAsked
  /\ pc = "mask" =>
       \A irq \in 0 .. 15 :
         BitOf(irq) \in (IF ChipOf(irq) = update.chip THEN update.bits ELSE imr[ChipOf(irq)])
           <=> irq \notin wanted

TablesInv ==
  /\ pc \in {"idt", "pic"} =>
       /\ handler = "none" /\ ~iflag /\ wanted = {} /\ own = {}
       /\ isr["master"] = {} /\ isr["slave"] = {}
  /\ pc # "idt" =>
       \A v \in Vectors :
         /\ idt[v] = "interrupt"
         /\ handler_table[v] = IF v < EXCEPTION_SIZE THEN "exception"
                               ELSE IF v - EXCEPTION_SIZE \in own THEN "own" ELSE "hardware"
  /\ pc \in {"run", "mask"} => icw2["master"] = 32 /\ icw2["slave"] = 40

IInv ==
  /\ TypeOK
  /\ handler # "none" => ~iflag
  /\ Serving /\ MasksInv /\ TablesInv
  /\ handler = "entry" /\ Hardware => vector - EXCEPTION_SIZE \in wanted \/ pc = "mask"

LEMMA LineRange == \A irq \in Irqs : irq \in 0 .. 15
BY DEF Irqs

(* The chips' arbitration picks one of the lines that ask.                 *)
LEMMA LowestIn ==
  ASSUME NEW S, S \subseteq Bits, S # {}
  PROVE  Lowest(S) \in S /\ \A c \in S : Lowest(S) <= c
<1>1. SUFFICES ASSUME \A b \in S : \E c \in S : ~(b <= c) PROVE FALSE
  BY DEF Lowest
<1>2. 0 \notin S  BY <1>1
<1>3. 1 \notin S  BY <1>1, <1>2
<1>4. 2 \notin S  BY <1>1, <1>2, <1>3
<1>5. 3 \notin S  BY <1>1, <1>2, <1>3, <1>4
<1>6. 4 \notin S  BY <1>1, <1>2, <1>3, <1>4, <1>5
<1>7. 5 \notin S  BY <1>1, <1>2, <1>3, <1>4, <1>5, <1>6
<1>8. 6 \notin S  BY <1>1, <1>2, <1>3, <1>4, <1>5, <1>6, <1>7
<1>9. 7 \notin S  BY <1>1, <1>2, <1>3, <1>4, <1>5, <1>6, <1>7, <1>8
<1>10. \A b \in Bits : b \notin S
  <2>1. \A b \in Bits : b \in {0, 1, 2, 3, 4, 5, 6, 7}
    OBVIOUS
  <2>. QED  BY <2>1, <1>2, <1>3, <1>4, <1>5, <1>6, <1>7, <1>8, <1>9
<1>. QED  BY <1>10

LEMMA LowestOfOne == \A b \in Bits : Lowest({b}) = b
BY LowestIn

LEMMA InitInv == Init => IInv
<1>1. SUFFICES ASSUME Init PROVE IInv
  OBVIOUS
<1>2. TypeOK
  <2>1. imr \in [Chips -> SUBSET Bits]
    <3>1. {{}, {1, 3}} \subseteq SUBSET Bits
      OBVIOUS
    <3>. QED  BY <1>1, <3>1 DEF Init
  <2>2. icw2 \in [Chips -> Nat] /\ isr \in [Chips -> SUBSET Bits] /\ irr \subseteq Lines
    BY <1>1 DEF Init
  <2>3. idt \in [Vectors -> {"absent", "interrupt", "trap"}]
    BY <1>1 DEF Init
  <2>4. handler_table \in [Vectors -> {"none", "exception", "hardware", "own"}]
    BY <1>1 DEF Init
  <2>5. update.chip \in Chips /\ update.bits \subseteq Bits
    BY <1>1 DEF Init, NoUpdate
  <2>6. pc = "idt" /\ handler = "none" /\ vector \in Vectors
    BY <1>1 DEF Init
  <2>7. iflag \in BOOLEAN
    BY <1>1, Zenon DEF Init
  <2>. QED  BY <2>1, <2>2, <2>3, <2>4, <2>5, <2>6, <2>7 DEF TypeOK
<1>3. Serving /\ MasksInv /\ TablesInv
  BY <1>1 DEF Init, Serving, MasksInv, MasksAsAsked, TablesInv, Hardware
<1>. QED  BY <1>1, <1>2, <1>3 DEF Init, IInv

(* idt_init: the tables are as TablesInv wants them.                       *)
LEMMA IdtInitInv == IInv /\ IdtInit => IInv'
<1>1. SUFFICES ASSUME IInv, IdtInit PROVE IInv'
  OBVIOUS
<1>. USE <1>1 DEF IdtInit, IInv, pics, asked
<1>2. TypeOK'
  BY DEF TypeOK
<1>3. TablesInv'
  BY DEF TablesInv
<1>4. Serving' /\ MasksInv'
  BY DEF Serving, MasksInv, MasksAsAsked, Hardware
<1>. QED  BY <1>2, <1>3, <1>4 DEF Hardware

(* pic_init: everything is masked, and nothing is wanted yet.              *)
LEMMA PicInitInv == IInv /\ PicInit => IInv'
<1>1. SUFFICES ASSUME IInv, PicInit PROVE IInv'
  OBVIOUS
<1>. USE <1>1 DEF PicInit, IInv, tables, asked
<1>2. TypeOK'
  BY DEF TypeOK
<1>3. TablesInv'
  BY DEF TablesInv
<1>4. Serving'
  BY DEF Serving, TablesInv, Hardware
<1>5. MasksInv'
  BY DEF MasksInv, MasksAsAsked, TablesInv, BitOf, ChipOf
<1>. QED  BY <1>2, <1>3, <1>4, <1>5 DEF TablesInv, Hardware

LEMMA SetHandlerInv ==
  ASSUME IInv, NEW irq \in Irqs, SetHardwareInterruptHandler(irq)
  PROVE  IInv'
<1>. USE DEF SetHardwareInterruptHandler, OwnCode, IInv, pics
<1>1. irq \in 0 .. 15
  BY LineRange
<1>2. TypeOK'
  BY <1>1 DEF TypeOK
<1>3. TablesInv'
  BY <1>1 DEF TablesInv, TypeOK
<1>4. Serving' /\ MasksInv'
  BY DEF Serving, MasksInv, MasksAsAsked, Hardware
<1>. QED  BY <1>2, <1>3, <1>4 DEF Hardware

(* The mask read differs from the one wanted in the bit about to change.   *)
LEMMA MaskReadInv ==
  ASSUME IInv, NEW irq \in Irqs, NEW e \in BOOLEAN, MaskRead(irq, e)
  PROVE  IInv'
<1>. USE DEF MaskRead, OwnCode, IInv, pics, tables
<1>1. irq \in 0 .. 15 /\ BitOf(irq) \in Bits /\ ChipOf(irq) \in Chips
  <2>1. irq \in 0 .. 15
    BY LineRange
  <2>. QED  BY <2>1 DEF BitOf, ChipOf
<1>2. TypeOK'
  BY <1>1 DEF TypeOK
<1>3. TablesInv' /\ Serving'
  BY DEF Serving, TablesInv, Hardware
<1>4. MasksInv'
  <2>1. SUFFICES ASSUME NEW k \in 0 .. 15
                 PROVE  BitOf(k) \in (IF ChipOf(k) = update'.chip THEN update'.bits
                                      ELSE imr[ChipOf(k)]) <=> k \notin wanted'
    BY DEF MasksInv, MasksAsAsked
  <2>2. BitOf(k) \in imr[ChipOf(k)] <=> k \notin wanted
    BY DEF MasksInv, MasksAsAsked
  <2>3. ChipOf(k) = ChipOf(irq) /\ BitOf(k) = BitOf(irq) <=> k = irq
    BY <1>1 DEF ChipOf, BitOf
  <2>4. update' = [chip |-> ChipOf(irq),
                   bits |-> IF e THEN imr[ChipOf(irq)] \ {BitOf(irq)}
                            ELSE imr[ChipOf(irq)] \cup {BitOf(irq)}]
    OBVIOUS
  <2>5. CASE ChipOf(k) = ChipOf(irq)
    BY <2>2, <2>3, <2>4, <2>5
  <2>6. CASE ChipOf(k) # ChipOf(irq)
    BY <2>2, <2>3, <2>4, <2>6
  <2>. QED  BY <2>5, <2>6
<1>. QED  BY <1>2, <1>3, <1>4 DEF Hardware

LEMMA MaskWriteInv == IInv /\ MaskWrite => IInv'
<1>1. SUFFICES ASSUME IInv, MaskWrite PROVE IInv'
  OBVIOUS
<1>. USE <1>1 DEF MaskWrite, OwnCode, IInv, tables, asked
<1>2. TypeOK'
  BY DEF TypeOK, NoUpdate
<1>3. TablesInv' /\ Serving'
  BY DEF Serving, TablesInv, Hardware
<1>4. MasksInv'
  BY DEF MasksInv, MasksAsAsked, TypeOK, ChipOf
<1>. QED  BY <1>2, <1>3, <1>4 DEF Hardware

LEMMA SetIfFlagInv ==
  ASSUME IInv, NEW flag \in BOOLEAN, SetIfFlag(flag)
  PROVE  IInv'
<1>. USE DEF SetIfFlag, OwnCode, IInv, pics, tables, asked
<1>1. TypeOK'
  BY DEF TypeOK
<1>2. TablesInv' /\ Serving' /\ MasksInv'
  BY DEF Serving, TablesInv, MasksInv, MasksAsAsked, Hardware
<1>. QED  BY <1>1, <1>2 DEF Hardware

LEMMA RaiseInv ==
  ASSUME IInv, NEW irq \in Lines, Raise(irq)
  PROVE  IInv'
<1>. USE DEF Raise, IInv, pics, tables, asked
<1>1. TypeOK'
  BY DEF TypeOK
<1>2. TablesInv' /\ Serving' /\ MasksInv'
  BY DEF Serving, TablesInv, MasksInv, MasksAsAsked, Hardware
<1>. QED  BY <1>1, <1>2 DEF Hardware

LEMMA FaultInv ==
  ASSUME IInv, NEW v \in Faults, Fault(v)
  PROVE  IInv'
<1>. USE DEF Fault, IInv, pics, tables, asked
<1>1. TypeOK'
  <2>1. v \in Vectors
    OBVIOUS
  <2>. QED  BY <2>1 DEF TypeOK
<1>2. TablesInv' /\ Serving' /\ MasksInv'
  BY DEF Serving, TablesInv, MasksInv, MasksAsAsked, Hardware
<1>. QED  BY <1>1, <1>2 DEF Hardware

(* The line taken is unmasked, so it is wanted or its mask is changing;    *)
(* its vector follows from the bases of the chips.                         *)
LEMMA DeliverInv == IInv /\ Deliver => IInv'
<1>1. SUFFICES ASSUME IInv, Deliver PROVE IInv'
  OBVIOUS
<1>. USE <1>1
<1> DEFINE m == Lowest(MasterAsks)
           s == Lowest(SlaveAsks)
<1>2. /\ handler = "none" /\ pc \in {"run", "mask"}
      /\ isr["master"] = {} /\ isr["slave"] = {}
      /\ icw2["master"] = 32 /\ icw2["slave"] = 40
  BY DEF Deliver, IInv, Serving, TablesInv
<1>3. irr \subseteq 0 .. 15 /\ CASCADE_IRQ \notin irr
  BY DEF IInv, TypeOK
<1>4. SlaveAsks \subseteq Bits /\ \A b \in SlaveAsks : b \notin imr["slave"]
  BY <1>3 DEF SlaveAsks, Asks
<1>5. MasterAsks \subseteq Bits /\ \A b \in MasterAsks : b \notin imr["master"]
  <2> DEFINE lines == {l \in irr : l < 8} \cup (IF SlaveAsks = {} THEN {} ELSE {CASCADE_IRQ})
  <2>1. lines \subseteq Bits
    <3>1. \A l \in 0 .. 15 : l < 8 => l \in Bits
      OBVIOUS
    <3>2. {l \in irr : l < 8} \subseteq Bits
      BY <1>3, <3>1
    <3>. QED  BY <3>2
  <2>2. MasterAsks = Asks("master", lines)
    BY DEF MasterAsks
  <2>. QED  BY <2>1, <2>2 DEF Asks
<1>6. m \in MasterAsks /\ m \in Bits /\ m \notin imr["master"]
  BY <1>5, LowestIn DEF Deliver
<1>7. m = CASCADE_IRQ => s \in Bits /\ s \notin imr["slave"]
  <2>1. m = CASCADE_IRQ => SlaveAsks # {}
    BY <1>3, <1>6 DEF MasterAsks, Asks
  <2>. QED  BY <2>1, <1>4, LowestIn
<1> HIDE DEF m, s
<1>8. /\ isr' = IF m = CASCADE_IRQ
                THEN [master |-> isr["master"] \cup {m}, slave |-> isr["slave"] \cup {s}]
                ELSE [isr EXCEPT !["master"] = @ \cup {m}]
      /\ vector' = IF m = CASCADE_IRQ THEN icw2["slave"] + s ELSE icw2["master"] + m
      /\ irr' \subseteq irr /\ handler' = "entry"
      /\ iflag' = (idt[vector'] # "interrupt" /\ iflag)
      /\ UNCHANGED <<pc, tables, icw2, imr, update, asked>>
  BY DEF Deliver, m, s
<1>9. /\ vector' \in Vectors /\ vector' >= 32
      /\ vector' = IF m = CASCADE_IRQ THEN 40 + s ELSE 32 + m
  BY <1>2, <1>6, <1>7, <1>8
<1>10. /\ isr' \in [Chips -> SUBSET Bits]
       /\ IF vector' < 40 THEN isr'["master"] = {vector' - 32} /\ isr'["slave"] = {}
          ELSE isr'["master"] = {CASCADE_IRQ} /\ isr'["slave"] = {vector' - 40}
  <2>1. CASE m = CASCADE_IRQ
    <3>1. isr' = [master |-> {m}, slave |-> {s}]
      BY <1>2, <1>8, <2>1
    <3>2. isr' \in [Chips -> SUBSET Bits] /\ isr'["master"] = {m} /\ isr'["slave"] = {s}
      BY <3>1, <1>6, <1>7, <2>1
    <3>. QED  BY <3>2, <1>7, <1>9, <2>1
  <2>2. CASE m # CASCADE_IRQ
    <3>1. /\ isr' = [isr EXCEPT !["master"] = {m}] /\ isr \in [Chips -> SUBSET Bits]
      BY <1>2, <1>8, <2>2 DEF IInv, TypeOK
    <3>. QED  BY <3>1, <1>2, <1>6, <1>9, <2>2
  <2>. QED  BY <2>1, <2>2
<1>11. ~iflag'
  BY <1>2, <1>8, <1>9 DEF IInv, TablesInv
<1>12. TypeOK'
  BY <1>8, <1>9, <1>10, <1>11 DEF IInv, TypeOK, tables
<1>13. Serving'
  BY <1>8, <1>9, <1>10 DEF Serving, Hardware
<1>14. TablesInv' /\ MasksInv'
  BY <1>2, <1>8 DEF IInv, TablesInv, MasksInv, MasksAsAsked, tables, asked
<1>15. vector' - 32 \in wanted' \/ pc' = "mask"
  <2>1. CASE pc = "run" /\ m = CASCADE_IRQ
    <3>1. 8 + s \in 0 .. 15 /\ BitOf(8 + s) = s /\ ChipOf(8 + s) = "slave"
      BY <1>7, <2>1 DEF BitOf, ChipOf
    <3>. QED  BY <3>1, <1>7, <1>8, <1>9, <2>1 DEF IInv, MasksInv, MasksAsAsked, asked
  <2>2. CASE pc = "run" /\ m # CASCADE_IRQ
    <3>1. m \in 0 .. 15 /\ BitOf(m) = m /\ ChipOf(m) = "master"
      BY <1>6 DEF BitOf, ChipOf
    <3>. QED  BY <3>1, <1>6, <1>8, <1>9, <2>2 DEF IInv, MasksInv, MasksAsAsked, asked
  <2>. QED  BY <2>1, <2>2, <1>2, <1>8
<1>. QED  BY <1>8, <1>11, <1>12, <1>13, <1>14, <1>15 DEF IInv

LEMMA InterruptEntryInv == IInv /\ InterruptEntry => IInv'
<1>1. SUFFICES ASSUME IInv, InterruptEntry PROVE IInv'
  OBVIOUS
<1>. USE <1>1 DEF InterruptEntry, IInv, pics, tables, asked
<1>2. TypeOK'
  BY DEF TypeOK
<1>3. TablesInv' /\ MasksInv'
  BY DEF TablesInv, MasksInv, MasksAsAsked
<1>4. Serving'
  BY DEF Serving, TablesInv, TypeOK, Hardware
<1>. QED  BY <1>2, <1>3, <1>4 DEF Hardware

(* The master's only bit in service is the one the first EOI ends.         *)
LEMMA SendEoiInv == IInv /\ SendEoi => IInv'
<1>1. SUFFICES ASSUME IInv, SendEoi PROVE IInv'
  OBVIOUS
<1>. USE <1>1
<1>2. /\ vector \in Vectors /\ vector >= 32
      /\ IF vector < 40 THEN isr["master"] = {vector - 32} /\ isr["slave"] = {}
         ELSE isr["master"] = {CASCADE_IRQ} /\ isr["slave"] = {vector - 40}
  BY DEF IInv, TypeOK, Serving, SendEoi, Hardware
<1>3. \E b \in Bits : isr["master"] = {b}
  BY <1>2
<1>4. isr' = [isr EXCEPT !["master"] = {}]
  BY <1>3, LowestOfOne DEF SendEoi, EndsOne
<1>5. TypeOK'
  BY <1>4 DEF SendEoi, IInv, TypeOK, tables
<1>6. Serving'
  <2>1. isr'["master"] = {} /\ isr'["slave"] = isr["slave"]
    BY <1>4 DEF IInv, TypeOK
  <2>2. vector' = vector /\ handler' = IF vector < 40 THEN "exit" ELSE "eoi slave"
    BY DEF SendEoi
  <2>3. CASE vector < 40
    BY <1>2, <2>1, <2>2, <2>3 DEF Serving
  <2>4. CASE ~(vector < 40)
    <3>1. handler' = "eoi slave" /\ vector' >= 40
      <4>1. vector \in 0 .. 47
        BY <1>2
      <4>2. vector >= 40
        BY <4>1, <2>4
      <4>. QED  BY <4>2, <2>2, <2>4
    <3>2. isr'["master"] = {} /\ isr'["slave"] = {vector' - 40}
      BY <1>2, <2>1, <2>2, <2>4
    <3>. QED  BY <3>1, <3>2 DEF Serving
  <2>. QED  BY <2>3, <2>4
<1>7. TablesInv' /\ MasksInv'
  BY DEF SendEoi, IInv, TablesInv, MasksInv, MasksAsAsked, tables, asked
<1>. QED  BY <1>5, <1>6, <1>7 DEF SendEoi, IInv

LEMMA SendEoiSlaveInv == IInv /\ SendEoiSlave => IInv'
<1>1. SUFFICES ASSUME IInv, SendEoiSlave PROVE IInv'
  OBVIOUS
<1>. USE <1>1
<1>2. /\ vector \in Vectors /\ vector >= 40
      /\ isr["master"] = {} /\ isr["slave"] = {vector - 40}
  BY DEF IInv, TypeOK, Serving, SendEoiSlave
<1>3. \E b \in Bits : isr["slave"] = {b}
  BY <1>2
<1>4. isr' = [isr EXCEPT !["slave"] = {}]
  BY <1>3, LowestOfOne DEF SendEoiSlave, EndsOne
<1>5. TypeOK'
  BY <1>4 DEF SendEoiSlave, IInv, TypeOK, tables
<1>6. Serving'
  BY <1>2, <1>4 DEF SendEoiSlave, IInv, TypeOK, Serving, Hardware
<1>7. TablesInv' /\ MasksInv'
  BY DEF SendEoiSlave, IInv, TablesInv, MasksInv, MasksAsAsked, tables, asked
<1>. QED  BY <1>5, <1>6, <1>7 DEF SendEoiSlave, IInv

(* iret, which sets IF again.                                              *)
LEMMA InterruptExitInv == IInv /\ InterruptExit => IInv'
<1>1. SUFFICES ASSUME IInv, InterruptExit PROVE IInv'
  OBVIOUS
<1>. USE <1>1 DEF InterruptExit, IInv, pics, tables, asked
<1>2. TypeOK'
  BY DEF TypeOK
<1>3. TablesInv' /\ MasksInv'
  BY DEF TablesInv, MasksInv, MasksAsAsked
<1>4. Serving'
  BY DEF Serving, Hardware
<1>. QED  BY <1>2, <1>3, <1>4 DEF Hardware

LEMMA NextInv == IInv /\ [Next]_vars => IInv'
<1>1. SUFFICES ASSUME IInv, [Next]_vars PROVE IInv'
  OBVIOUS
<1>2. CASE UNCHANGED vars
  <2>. USE <1>1, <1>2 DEF vars, pics, tables, asked
  <2>1. TypeOK'
    BY DEF IInv, TypeOK
  <2>2. Serving' /\ MasksInv' /\ TablesInv'
    BY DEF IInv, Serving, MasksInv, MasksAsAsked, TablesInv, Hardware
  <2>. QED  BY <2>1, <2>2 DEF IInv, Hardware
<1>3. CASE HandlerStep
  BY <1>1, <1>3, InterruptEntryInv, SendEoiInv, SendEoiSlaveInv, InterruptExitInv
     DEF HandlerStep
<1>4. CASE IdtInit \/ PicInit \/ MaskWrite \/ Deliver
  BY <1>1, <1>4, IdtInitInv, PicInitInv, MaskWriteInv, DeliverInv
<1>5. CASE \E irq \in Irqs : SetHardwareInterruptHandler(irq)
  BY <1>1, <1>5, SetHandlerInv
<1>6. CASE \E irq \in Irqs, e \in BOOLEAN : MaskRead(irq, e)
  BY <1>1, <1>6, MaskReadInv
<1>7. CASE \E flag \in BOOLEAN : SetIfFlag(flag)
  BY <1>1, <1>7, SetIfFlagInv
<1>8. CASE (\E irq \in Lines : Raise(irq)) \/ (\E v \in Faults : Fault(v))
  BY <1>1, <1>8, RaiseInv, FaultInv
<1>. QED
  BY <1>1, <1>2, <1>3, <1>4, <1>5, <1>6, <1>7, <1>8 DEF Next

LEMMA Invariance == Spec => []IInv
BY InitInv, NextInv, PTL DEF Spec

-----------------------------------------------------------------------------
(* No handler runs on top of another and nothing stays in service when one *)
(* is done, on either chip, for any lines and faults.                      *)
THEOREM HandlersDoNotNest == Spec => []HandlersFinish
<1>1. IInv => HandlersFinish
  BY DEF IInv, HandlersFinish, Serving
<1>. QED  BY <1>1, Invariance, PTL

(* Changing one mask keeps all the others, whatever interrupts come        *)
(* between the read of the port and the write.                             *)
THEOREM MasksKept == Spec => []MasksAsAsked
<1>1. IInv => MasksAsAsked
  BY DEF IInv, MasksInv
<1>. QED  BY <1>1, Invariance, PTL

(* Every interrupt taken was enabled and finds the handler of its line.    *)
THEOREM DispatchedAsAsked == Spec => []DispatchesAsAsked
<1>1. IInv => DispatchesAsAsked
  BY DEF IInv, TypeOK, TablesInv, DispatchesAsAsked, Hardware
<1>. QED  BY <1>1, Invariance, PTL
=============================================================================
