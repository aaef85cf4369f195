----------------------------- MODULE Interrupts -----------------------------
(***************************************************************************)
(* The interrupt tables and the two 8259A (l_interrupt.c and the stubs of  *)
(* l_interrupt_h.asm): interrupt_init, the registration and masking calls  *)
(* made by the kernel's own code, and the way of an interrupt from its     *)
(* line to its handler and the end of interrupt.  A mask is changed by     *)
(* reading a port and writing it back, with interrupts in between.         *)
(*                                                                         *)
(* Handlers registered later (clock_handler, rtc_handler) send the end of  *)
(* interrupt for their vector like the default one; that the clock's may   *)
(* switch stacks afterwards is the subject of Scheduler.                   *)
(***************************************************************************)
EXTENDS Integers

CONSTANTS
  Lines,           \* bound: the IRQs with a device that raises them
  Faults           \* bound: the exceptions the kernel's code may cause

EXCEPTION_SIZE == 32
HANDLER_ENTRY_SIZE == 48
CASCADE_IRQ == 2
Chips == {"master", "slave"}
Bits == 0 .. 7

ASSUME InterruptsAssumption ==
  /\ Lines \subseteq (0 .. 15) \ {CASCADE_IRQ}
  /\ Faults \subseteq 0 .. EXCEPTION_SIZE - 1

VARIABLES
  pc,              \* the kernel's own code: "idt", "pic", "run" or "mask"
  iflag,           \* IF
  handler,         \* the handler under way: "none" to "exit", or "hang"
  vector,          \* its vector, 0 without one
  idt,             \* the gates: what happens to IF, or "absent"
  handler_table,
  icw2, imr, isr,  \* of each chip: its base, its masked and in-service bits
  irr,             \* lines that ask for service
  update,          \* a mask read and not yet written back
  wanted, own      \* history: IRQs last enabled, IRQs with a handler set

pics == <<icw2, imr, isr>>
tables == <<idt, handler_table>>
asked == <<wanted, own>>
vars == <<pc, iflag, handler, vector, tables, pics, irr, update, asked>>

Vectors == 0 .. HANDLER_ENTRY_SIZE - 1
NoUpdate == [chip |-> "master", bits |-> {}]

TypeOK ==
  /\ pc \in {"idt", "pic", "run", "mask"} /\ iflag \in BOOLEAN
  /\ handler \in {"none", "entry", "eoi", "eoi slave", "exit", "hang"}
  /\ vector \in Vectors
  /\ idt \in [Vectors -> {"absent", "interrupt", "trap"}]
  /\ handler_table \in [Vectors -> {"none", "exception", "hardware", "own"}]
  /\ icw2 \in [Chips -> Nat] /\ imr \in [Chips -> SUBSET Bits]
  /\ isr \in [Chips -> SUBSET Bits] /\ irr \subseteq Lines
  /\ update.chip \in Chips /\ update.bits \subseteq Bits

(* The BIOS leaves its own vectors and some of its masks.                  *)
Init ==
  /\ pc = "idt" /\ iflag = FALSE /\ handler = "none" /\ vector = 0
  /\ idt = [v \in Vectors |-> "absent"]
  /\ handler_table = [v \in Vectors |-> "none"]
  /\ icw2 = [c \in Chips |-> IF c = "master" THEN 8 ELSE 112]
  /\ imr \in [Chips -> {{}, {1, 3}}]
  /\ isr = [c \in Chips |-> {}] /\ irr = {}
  /\ update = NoUpdate /\ wanted = {} /\ own = {}

(* Mutant: the hardware handlers end one entry too early. *)
IdtInitShort ==
  /\ pc = "idt" /\ pc' = "pic"
  /\ idt' = [v \in Vectors |-> "interrupt"]
  /\ handler_table' = [v \in Vectors |->
       IF v < EXCEPTION_SIZE THEN "exception"
       ELSE IF v < HANDLER_ENTRY_SIZE - 8 THEN "hardware" ELSE "none"]
  /\ UNCHANGED <<iflag, handler, vector, pics, irr, update, asked>>

(* Every gate is an interrupt gate: it clears IF.                          *)
IdtInit ==
  /\ pc = "idt" /\ pc' = "pic"
  /\ idt' = [v \in Vectors |-> "interrupt"]
  /\ handler_table' = [v \in Vectors |->
       IF v < EXCEPTION_SIZE THEN "exception" ELSE "hardware"]
  /\ UNCHANGED <<iflag, handler, vector, pics, irr, update, asked>>

PicInit ==
  /\ pc = "pic" /\ pc' = "run"
  /\ icw2' = [c \in Chips |-> IF c = "master" THEN 32 ELSE 40]
  /\ imr' = [c \in Chips |-> Bits] /\ isr' = [c \in Chips |-> {}]
  /\ UNCHANGED <<iflag, handler, vector, tables, irr, update, asked>>

OwnCode(at) == handler = "none" /\ pc = at

SetHardwareInterruptHandler(irq) ==
  /\ OwnCode("run")
  /\ handler_table' = [handler_table EXCEPT ![EXCEPTION_SIZE + irq] = "own"]
  /\ own' = own \cup {irq}
  /\ UNCHANGED <<pc, iflag, handler, vector, idt, pics, irr, update, wanted>>

ChipOf(irq) == IF irq < 8 THEN "master" ELSE "slave"

BitOf(irq) == IF irq < 8 THEN irq ELSE irq - 8

(* Mutant: the other masks of the chip are not kept. *)
MaskReadAlone(irq, if_enable) ==
  /\ OwnCode("run") /\ pc' = "mask"
  /\ update' = [chip |-> ChipOf(irq),
                bits |-> IF if_enable THEN Bits \ {BitOf(irq)} ELSE {BitOf(irq)}]
  /\ wanted' = IF if_enable THEN wanted \cup {irq} ELSE wanted \ {irq}
  /\ UNCHANGED <<iflag, handler, vector, tables, pics, irr, own>>

(* set_hardware_interrupt_mask, in two accesses to the port.               *)
MaskRead(irq, if_enable) ==
  /\ OwnCode("run") /\ pc' = "mask"
  /\ update' = [chip |-> ChipOf(irq),
                bits |-> IF if_enable THEN imr[ChipOf(irq)] \ {BitOf(irq)}
                                      ELSE imr[ChipOf(irq)] \cup {BitOf(irq)}]
  /\ wanted' = IF if_enable THEN wanted \cup {irq} ELSE wanted \ {irq}
  /\ UNCHANGED <<iflag, handler, vector, tables, pics, irr, own>>

MaskWrite ==
  /\ OwnCode("mask") /\ pc' = "run"
  /\ imr' = [imr EXCEPT ![update.chip] = update.bits]
  /\ update' = NoUpdate
  /\ UNCHANGED <<iflag, handler, vector, tables, icw2, isr, irr, asked>>

SetIfFlag(flag) ==
  /\ OwnCode("run") /\ iflag' = flag
  /\ UNCHANGED <<pc, handler, vector, tables, pics, irr, update, asked>>

(* External: a device asks for service; edges before the 8259s are set up  *)
(* are forgotten.                                                          *)
Raise(irq) ==
  /\ pc \in {"run", "mask"} /\ irr' = irr \cup {irq}
  /\ UNCHANGED <<pc, iflag, handler, vector, tables, pics, update, asked>>

(* External: a chip passes its lowest pending, unmasked bit on if nothing  *)
(* as urgent is in service; the slave sits on a line of the master.        *)
Asks(chip, bits) ==
  {b \in bits \ imr[chip] : \A s \in isr[chip] : b < s}
SlaveAsks == Asks("slave", {irq - 8 : irq \in {l \in irr : l >= 8}})
MasterAsks ==
  Asks("master", {l \in irr : l < 8}
                   \cup (IF SlaveAsks = {} THEN {} ELSE {CASCADE_IRQ}))
Lowest(S) == CHOOSE b \in S : \A c \in S : b <= c

(* External: the CPU takes the interrupt between two instructions.         *)
Deliver ==
  /\ iflag /\ handler \in {"none", "entry", "eoi", "eoi slave", "exit"}
  /\ pc \in {"run", "mask"} /\ MasterAsks # {}
  /\ LET m == Lowest(MasterAsks)
         s == Lowest(SlaveAsks)
         irq == IF m = CASCADE_IRQ THEN 8 + s ELSE m
     IN  /\ isr' = IF m = CASCADE_IRQ
                   THEN [master |-> isr["master"] \cup {m}, slave |-> isr["slave"] \cup {s}]
                   ELSE [isr EXCEPT !["master"] = @ \cup {m}]
         /\ irr' = irr \ {irq}
         /\ vector' = IF m = CASCADE_IRQ THEN icw2["slave"] + s ELSE icw2["master"] + m
  /\ handler' = "entry"
  /\ iflag' = (idt[vector'] # "interrupt" /\ iflag)
  /\ UNCHANGED <<pc, tables, icw2, imr, update, asked>>

(* External: an instruction of the kernel's own code faults.               *)
Fault(v) ==
  /\ handler = "none" /\ pc \in {"run", "mask"}
  /\ vector' = v /\ handler' = "entry" /\ iflag' = FALSE
  /\ UNCHANGED <<pc, tables, pics, irr, update, asked>>

(* The stub calls through the table; exception_handler prints, or panics   *)
(* for a vector without a name, and never returns.                         *)
InterruptEntry ==
  /\ handler = "entry"
  /\ handler' = IF handler_table[vector] \in {"exception", "none"} THEN "hang" ELSE "eoi"
  /\ UNCHANGED <<pc, iflag, vector, tables, pics, irr, update, asked>>

(* An EOI that names no bit ends the most urgent one in service.           *)
EndsOne(chip) ==
  isr' = [isr EXCEPT ![chip] = IF @ = {} THEN {} ELSE @ \ {Lowest(@)}]

(* Mutants: the slave is not told; the first vector is left out. *)
SendEoiMasterOnly ==
  /\ handler = "eoi" /\ handler' = "exit"
  /\ EndsOne("master")
  /\ UNCHANGED <<pc, iflag, vector, tables, icw2, imr, irr, update, asked>>
SendEoiFrom33 ==
  /\ handler = "eoi"
  /\ handler' = IF vector < 40 THEN "exit" ELSE "eoi slave"
  /\ IF vector > 32 THEN EndsOne("master") ELSE UNCHANGED isr
  /\ UNCHANGED <<pc, iflag, vector, tables, icw2, imr, irr, update, asked>>

SendEoi ==
  /\ handler = "eoi"
  /\ handler' = IF vector < 40 THEN "exit" ELSE "eoi slave"
  /\ EndsOne("master")
  /\ UNCHANGED <<pc, iflag, vector, tables, icw2, imr, irr, update, asked>>

SendEoiSlave ==
  /\ handler = "eoi slave" /\ handler' = "exit"
  /\ EndsOne("slave")
  /\ UNCHANGED <<pc, iflag, vector, tables, icw2, imr, irr, update, asked>>

(* iret: only code with IF set was interrupted.                            *)
InterruptExit ==
  /\ handler = "exit" /\ handler' = "none" /\ vector' = 0 /\ iflag' = TRUE
  /\ UNCHANGED <<pc, tables, pics, irr, update, asked>>

Irqs == Lines \cup {CASCADE_IRQ}
HandlerStep == InterruptEntry \/ SendEoi \/ SendEoiSlave \/ InterruptExit

Next ==
  \/ IdtInit \/ PicInit \/ MaskWrite
  \/ \E irq \in Irqs : SetHardwareInterruptHandler(irq)
  \/ \E irq \in Irqs, e \in BOOLEAN : MaskRead(irq, e)
  \/ \E flag \in BOOLEAN : SetIfFlag(flag)
  \/ \E irq \in Lines : Raise(irq)
  \/ \E v \in Faults : Fault(v)
  \/ Deliver \/ HandlerStep

Spec == Init /\ [][Next]_vars

(* The processor takes interrupts and goes on; what the kernel's own code  *)
(* and the devices do is up to them.                                       *)
FairSpec == Spec /\ WF_vars(HandlerStep) /\ WF_vars(Deliver)

(* An interrupt that arrives is one that was enabled, and the handler it   *)
(* finds is the one set for its line, or the default: the bits and bases   *)
(* given to the chips, the vectors and the table entries agree.            *)
DispatchesAsAsked ==
  handler = "entry" /\ vector >= EXCEPTION_SIZE =>
    LET irq == vector - EXCEPTION_SIZE
    IN  /\ irq \in wanted \/ pc = "mask"
        /\ handler_table[vector] = IF irq \in own THEN "own" ELSE "hardware"

(* Changing one mask keeps all others, across interrupts between the read  *)
(* and the write, and everything starts masked.                            *)
MasksAsAsked ==
  pc = "run" => \A irq \in 0 .. 15 : BitOf(irq) \in imr[ChipOf(irq)] <=> irq \notin wanted

(* No handler runs on top of another, for they share data without a lock;  *)
(* and once one is done no bit stays in service, on either chip: the line  *)
(* it blocks would be dead, and every less urgent one.                     *)
HandlersFinish ==
  /\ TypeOK
  /\ IF handler = "none" THEN \A c \in Chips : isr[c] = {} ELSE ~iflag

(* Where the kernel's own code has interrupts on and line 0 unmasked.      *)
OpenToClock ==
  /\ iflag \/ handler \notin {"none", "hang"}
  /\ 0 \notin imr["master"]

(* A request of the clock is served as long as nobody masks it or stops    *)
(* the machine, however many other lines ask.                              *)
ClockServed == 0 \in irr /\ OpenToClock ~> 0 \notin irr \/ ~OpenToClock
=============================================================================
