------------------------------ MODULE Scheduler ------------------------------
(***************************************************************************)
(* The kernel's multitasking on its one CPU: the boot context that creates *)
(* the tasks (main.c, l_task.c), the three thread loops, the 8259 and the  *)
(* clock interrupt (l_interrupt.c, l_clock.c), the yield system call       *)
(* (l_syscall.c, l_interrupt_h.asm), the search of task_table and the      *)
(* stack switch (l_task.c, l_schedule.asm), and printk's shared buffer     *)
(* (l_printk.c).                                                           *)
(*                                                                         *)
(* A context is the page its stack lies in: Boot, or the page of a task.   *)
(* pc[c] is where context c is in its own code; kpc is where the CPU is in *)
(* the interrupt and scheduling code that runs on the current context's    *)
(* stack ("none" when it is in the context's own code).  A context that is *)
(* not current left the CPU inside task_switch, or has never run.          *)
(***************************************************************************)
EXTENDS Integers

CONSTANTS
  NUM_TASKS,   \* slots of task_table (64 in l_task.c)
  NumTasks,    \* tasks that task_init creates (3)
  Priority,    \* the priority each is created with (5 for each)
  Yielders,    \* tasks whose loop calls syscall_yield (all, in thread_a/b/c)
  WORD,        \* modulus of uint32_t (2^32)
  MaxJiffies   \* bound: the timer fires only below it (none when >= WORD)

NULL  == -1
Boot  == 0
Tasks == 1 .. NumTasks
Slots == 0 .. NUM_TASKS - 1
Contexts == Tasks \cup {Boot}

ASSUME SizesAssumption ==
  /\ NumTasks \in Nat \ {0} /\ NUM_TASKS \in Nat
  /\ WORD \in Nat /\ WORD > 1 /\ MaxJiffies \in Nat

ASSUME PriorityAssumption == Priority \in [Tasks -> 1 .. WORD - 1]

ASSUME YieldersAssumption == Yielders \subseteq Tasks

VARIABLES
  \* the CPU
  cur,         \* the context esp lies in: running_task()
  iflag,       \* the IF bit of EFLAGS
  kpc,         \* position in interrupt, system call or scheduling code
  slot,        \* i of the loop in task_search_in_table
  found,       \* task of the same loop, then next of schedule
  \* per context: what its stack holds
  pc,          \* position in the context's own code
  eflags,      \* IF in the frame the CPU pushed at the last interrupt
  saved_if,    \* IF as saved by console_write
  frame,       \* eip task_switch will return to
  \* the 8259 and the interrupt tables
  irr,         \* IRQ0 requested
  isr,         \* IRQ0 in service: no end of interrupt yet
  unmasked,    \* IRQ0 enabled and clock_handler installed
  syscalls,    \* syscall_table filled
  \* the PCBs
  task_table, state, ticks, jif, magic,
  jiffies,     \* the global tick count
  buf          \* whose text printk's static buffer holds

cpu   == <<cur, iflag, kpc, slot, found>>
stack == <<pc, eflags, saved_if, frame>>
pic   == <<irr, isr, unmasked>>
pcb   == <<state, ticks, jif>>
vars  == <<cpu, stack, pic, syscalls, task_table, pcb, magic, jiffies, buf>>

-----------------------------------------------------------------------------
(* uint32_t arithmetic.                                                    *)

(* Mutant: a counter that does not wrap. *)
IncUnbounded(n) == n + 1

Inc(n) == IF n = WORD - 1 THEN 0 ELSE n + 1
Dec(n) == IF n = 0 THEN WORD - 1 ELSE n - 1

BootPcs   == {"clock_init", "setup", "create", "syscall_init", "sti", "idle"}
ThreadPcs == {"none", "start", "format", "write", "draw", "yield"}
KernelPcs == {"none", "eoi", "count", "schedule", "search", "switch", "exit",
              "halt"}
States    == {"INIT", "RUNNING", "READY"}

TypeOK ==
  /\ cur \in Contexts /\ iflag \in BOOLEAN /\ kpc \in KernelPcs
  /\ slot \in 0 .. NUM_TASKS /\ found \in Tasks \cup {NULL}
  /\ pc \in [Contexts -> BootPcs \cup ThreadPcs]
  /\ eflags \in [Contexts -> BOOLEAN] /\ saved_if \in [Contexts -> BOOLEAN]
  /\ frame \in [Contexts -> {"none", "thread", "schedule"}]
  /\ irr \in BOOLEAN /\ isr \in BOOLEAN /\ unmasked \in BOOLEAN
  /\ syscalls \in BOOLEAN
  /\ task_table \in [Slots -> Tasks \cup {NULL}]
  /\ state \in [Contexts -> States]
  /\ ticks \in [Contexts -> 0 .. WORD - 1]
  /\ jif \in [Contexts -> 0 .. WORD - 1]
  /\ magic \in [Contexts -> BOOLEAN]
  /\ jiffies \in 0 .. WORD - 1
  /\ buf \in Contexts

(* The state in which kernel_init reaches clock_init: interrupts are off   *)
(* since the loader, pic_init masked every line, and the first words of    *)
(* the boot stack page hold what the machine left there.                   *)
Init ==
  /\ cur = Boot /\ iflag = FALSE /\ kpc = "none" /\ slot = 0 /\ found = NULL
  /\ pc = [c \in Contexts |-> IF c = Boot THEN "clock_init" ELSE "none"]
  /\ eflags = [c \in Contexts |-> FALSE]
  /\ saved_if = [c \in Contexts |-> FALSE]
  /\ frame = [c \in Contexts |-> "none"]
  /\ irr = FALSE /\ isr = FALSE /\ unmasked = FALSE /\ syscalls = FALSE
  /\ task_table = [s \in Slots |-> NULL]
  /\ \E garbage \in States :
       state = [c \in Contexts |-> IF c = Boot THEN garbage ELSE "INIT"]
  /\ ticks = [c \in Contexts |-> 0]
  /\ jif = [c \in Contexts |-> 0]
  /\ magic = [c \in Contexts |-> FALSE]
  /\ jiffies = 0
  /\ buf = Boot

-----------------------------------------------------------------------------
(* The 8253 and the 8259.                                                  *)

(* Channel 0 raises IRQ0; the edge is latched whatever IF and the mask say.*)
TimerFires ==
  /\ jiffies < MaxJiffies
  /\ ~irr
  /\ irr' = TRUE
  /\ UNCHANGED <<cpu, stack, isr, unmasked, syscalls, task_table, pcb, magic,
                 jiffies, buf>>

Deliverable == irr /\ ~isr /\ unmasked /\ iflag

(* The CPU takes IRQ0 at an instruction boundary: it pushes EFLAGS and,    *)
(* the gate being an interrupt gate, clears IF.  In interrupt code IF is   *)
(* clear (KernelUninterruptible), so only a context's own code is meant.   *)
Interrupt ==
  /\ Deliverable /\ kpc = "none"
  /\ irr' = FALSE /\ isr' = TRUE
  /\ eflags' = [eflags EXCEPT ![cur] = iflag]
  /\ iflag' = FALSE
  /\ kpc' = "eoi"
  /\ UNCHANGED <<cur, slot, found, pc, saved_if, frame, unmasked, syscalls,
                 task_table, pcb, magic, jiffies, buf>>

(* Mutant: no end of interrupt. *)
SendEoiForgotten ==
  /\ kpc = "eoi" /\ kpc' = "count"
  /\ UNCHANGED <<cur, iflag, slot, found, stack, pic, syscalls, task_table,
                 pcb, magic, jiffies, buf>>

(* clock_handler's first call: send_eoi for vector 0x20.                   *)
SendEoi ==
  /\ kpc = "eoi"
  /\ isr' = FALSE
  /\ kpc' = "count"
  /\ UNCHANGED <<cur, iflag, slot, found, stack, irr, unmasked, syscalls,
                 task_table, pcb, magic, jiffies, buf>>

(* Mutant: every tick calls schedule(). *)
ClockCountAlways ==
  /\ kpc = "count"
  /\ jiffies' = Inc(jiffies)
  /\ jif' = [jif EXCEPT ![cur] = jiffies']
  /\ ticks' = [ticks EXCEPT ![cur] = Dec(ticks[cur])]
  /\ kpc' = "schedule"
  /\ UNCHANGED <<cur, iflag, slot, found, stack, pic, syscalls, task_table,
                 state, magic, buf>>

(* The rest of clock_handler: one more tick for the system, one fewer for  *)
(* the running context, schedule() when it was the last.                   *)
ClockCount ==
  /\ kpc = "count"
  /\ jiffies' = Inc(jiffies)
  /\ IF ~magic[cur]
     THEN /\ kpc' = "halt"
          /\ UNCHANGED <<jif, ticks>>
     ELSE /\ jif' = [jif EXCEPT ![cur] = jiffies']
          /\ ticks' = [ticks EXCEPT ![cur] = Dec(ticks[cur])]
          /\ kpc' = IF ticks'[cur] = 0 THEN "schedule" ELSE "exit"
  /\ UNCHANGED <<cur, iflag, slot, found, stack, pic, syscalls, task_table,
                 state, magic, buf>>

(* interrupt_exit: pop the frame, iret restores IF.                        *)
InterruptExit ==
  /\ kpc = "exit"
  /\ iflag' = eflags[cur]
  /\ kpc' = "none"
  /\ UNCHANGED <<cur, slot, found, stack, pic, syscalls, task_table, pcb,
                 magic, jiffies, buf>>

-----------------------------------------------------------------------------
(* schedule().                                                             *)

(* The entry of task_search_in_table, with its assertion.                  *)
ScheduleEntry ==
  /\ kpc = "schedule"
  /\ kpc' = IF iflag THEN "halt" ELSE "search"
  /\ slot' = 0 /\ found' = NULL
  /\ UNCHANGED <<cur, iflag, stack, pic, syscalls, task_table, pcb, magic,
                 jiffies, buf>>

IsCandidate(p) == p # NULL /\ p # cur /\ state[p] = "READY"

(* Mutants: the fewest ticks win; the times are compared as signed numbers. *)
BetterFewest(p, q) == q = NULL \/ ticks[p] < ticks[q] \/ jif[p] < jif[q]

BetterSigned(p, q) ==
  LET signed(n) == IF n < WORD \div 2 THEN n ELSE n - WORD
  IN  q = NULL \/ ticks[q] < ticks[p] \/ signed(jif[p]) < signed(jif[q])

(* More ticks left, or a last tick longer ago, than the choice so far.     *)
Better(p, q) == q = NULL \/ ticks[q] < ticks[p] \/ jif[p] < jif[q]

(* One turn of the loop over task_table.                                   *)
SearchStep ==
  /\ kpc = "search" /\ slot < NUM_TASKS
  /\ slot' = slot + 1
  /\ found' = IF IsCandidate(task_table[slot])
                   /\ Better(task_table[slot], found)
              THEN task_table[slot] ELSE found
  /\ UNCHANGED <<cur, iflag, kpc, stack, pic, syscalls, task_table, pcb,
                 magic, jiffies, buf>>

IsTask(p) == p # NULL /\ magic[p]

(* Mutants: the task that leaves stays TASK_RUNNING; its quantum is not    *)
(* renewed.                                                                *)
SchedulePickStaysRunning ==
  /\ kpc = "search" /\ slot = NUM_TASKS /\ IsTask(found)
  /\ kpc' = "switch"
  /\ state' = [state EXCEPT ![found] = "RUNNING"]
  /\ ticks' = [ticks EXCEPT ![cur] = IF @ = 0 /\ cur # Boot THEN Priority[cur] ELSE @]
  /\ UNCHANGED <<cur, iflag, slot, found, stack, pic, syscalls, task_table,
                 jif, magic, jiffies, buf>>

SchedulePickNoQuantum ==
  /\ kpc = "search" /\ slot = NUM_TASKS /\ IsTask(found)
  /\ kpc' = "switch"
  /\ state' = [state EXCEPT ![cur] = IF @ = "RUNNING" THEN "READY" ELSE @,
                            ![found] = "RUNNING"]
  /\ UNCHANGED <<cur, iflag, slot, found, stack, pic, syscalls, task_table,
                 ticks, jif, magic, jiffies, buf>>

(* The rest of schedule: its assertions, then the new states and quantum.  *)
SchedulePick ==
  /\ kpc = "search" /\ slot = NUM_TASKS
  /\ \/ /\ ~IsTask(found)
        /\ kpc' = "halt"
        /\ UNCHANGED <<state, ticks>>
     \/ /\ IsTask(found)
        /\ kpc' = "switch"
        /\ state' = [state EXCEPT
                       ![cur] = IF state[cur] = "RUNNING" THEN "READY" ELSE @,
                       ![found] = "RUNNING"]
        /\ \/ /\ ticks[cur] = 0 /\ cur \in Tasks
              /\ ticks' = [ticks EXCEPT ![cur] = Priority[cur]]
           \/ /\ ticks[cur] = 0 /\ cur = Boot   \* priority was never written
              /\ \E garbage \in {0, 1} :
                   ticks' = [ticks EXCEPT ![cur] = garbage]
           \/ /\ ticks[cur] # 0
              /\ UNCHANGED ticks
  /\ UNCHANGED <<cur, iflag, slot, found, stack, pic, syscalls, task_table,
                 jif, magic, jiffies, buf>>

(* task_switch: the old stack pointer goes into the old page, the new one  *)
(* is loaded from the new page and ret goes where that stack says.  EFLAGS *)
(* is not part of the frame: IF stays as it is.                            *)
TaskSwitch ==
  /\ kpc = "switch"
  /\ frame' = [frame EXCEPT ![cur] = "schedule"]
  /\ cur' = found
  /\ kpc' = CASE frame'[found] = "schedule" -> "exit"
              [] frame'[found] = "thread"   -> "none"
              [] OTHER                      -> "halt"
  /\ UNCHANGED <<iflag, slot, found, pc, eflags, saved_if, pic, syscalls,
                 task_table, pcb, magic, jiffies, buf>>

-----------------------------------------------------------------------------
(* The contexts' own code.  A pending interrupt is taken first.            *)

Runs(c, at) == cur = c /\ kpc = "none" /\ pc[c] = at /\ ~Deliverable

(* Mutant: interrupts are enabled before task_init (main.c:71). *)
ClockInitSti ==
  /\ Runs(Boot, "clock_init")
  /\ unmasked' = TRUE /\ iflag' = TRUE
  /\ pc' = [pc EXCEPT ![Boot] = "setup"]
  /\ UNCHANGED <<cur, kpc, slot, found, eflags, saved_if, frame, irr, isr,
                 syscalls, task_table, pcb, magic, jiffies, buf>>

(* clock_init: handler installed, IRQ0 unmasked.                           *)
ClockInit ==
  /\ Runs(Boot, "clock_init")
  /\ unmasked' = TRUE
  /\ pc' = [pc EXCEPT ![Boot] = "setup"]
  /\ UNCHANGED <<cpu, eflags, saved_if, frame, irr, isr, syscalls, task_table,
                 pcb, magic, jiffies, buf>>

(* task_table_setup: the boot page becomes a PCB with one tick.            *)
TaskTableSetup ==
  /\ Runs(Boot, "setup")
  /\ magic' = [magic EXCEPT ![Boot] = TRUE]
  /\ ticks' = [ticks EXCEPT ![Boot] = 1]
  /\ task_table' = [s \in Slots |-> NULL]
  /\ pc' = [pc EXCEPT ![Boot] = "create"]
  /\ UNCHANGED <<cpu, eflags, saved_if, frame, pic, syscalls, state, jif,
                 jiffies, buf>>

Created(t) == \E s \in Slots : task_table[s] = t

(* task_create: the first free slot gets a page whose stack is a frame     *)
(* that returns into the thread.                                           *)
TaskCreate(t) ==
  /\ Runs(Boot, "create")
  /\ ~Created(t) /\ \A u \in Tasks : u < t => Created(u)
  /\ \/ \E s \in Slots :
          /\ task_table[s] = NULL /\ \A r \in Slots : r < s => task_table[r] # NULL
          /\ task_table' = [task_table EXCEPT ![s] = t]
          /\ frame' = [frame EXCEPT ![t] = "thread"]
          /\ ticks' = [ticks EXCEPT ![t] = Priority[t]]
          /\ jif' = [jif EXCEPT ![t] = 0]
          /\ state' = [state EXCEPT ![t] = "READY"]
          /\ magic' = [magic EXCEPT ![t] = TRUE]
          /\ pc' = [pc EXCEPT ![t] = "start",
                              ![Boot] = IF t = NumTasks THEN "syscall_init" ELSE @]
          /\ UNCHANGED kpc
     \/ /\ \A s \in Slots : task_table[s] # NULL      \* panic
        /\ kpc' = "halt"
        /\ UNCHANGED <<task_table, frame, pcb, magic, pc>>
  /\ UNCHANGED <<cur, iflag, slot, found, eflags, saved_if, pic, syscalls,
                 jiffies, buf>>

SyscallInit ==
  /\ Runs(Boot, "syscall_init")
  /\ syscalls' = TRUE
  /\ pc' = [pc EXCEPT ![Boot] = "sti"]
  /\ UNCHANGED <<cpu, eflags, saved_if, frame, pic, task_table, pcb, magic,
                 jiffies, buf>>

(* set_if_flag(True), then the idle loop that the first tick ends.         *)
BootSti ==
  /\ Runs(Boot, "sti")
  /\ iflag' = TRUE
  /\ pc' = [pc EXCEPT ![Boot] = "idle"]
  /\ UNCHANGED <<cur, kpc, slot, found, eflags, saved_if, frame, pic, syscalls,
                 task_table, pcb, magic, jiffies, buf>>

(* Mutant: a thread that relies on IF being set. *)
ThreadStartNoSti(t) ==
  /\ Runs(t, "start")
  /\ pc' = [pc EXCEPT ![t] = "format"]
  /\ UNCHANGED <<cpu, eflags, saved_if, frame, pic, syscalls, task_table, pcb,
                 magic, jiffies, buf>>

(* A thread is entered with IF as task_switch left it.                     *)
ThreadStart(t) ==
  /\ Runs(t, "start")
  /\ iflag' = TRUE
  /\ pc' = [pc EXCEPT ![t] = "format"]
  /\ UNCHANGED <<cur, kpc, slot, found, eflags, saved_if, frame, pic, syscalls,
                 task_table, pcb, magic, jiffies, buf>>

(* printk, first half: vsprintf into the static buffer, interrupts on.     *)
Vsprintf(t) ==
  /\ Runs(t, "format")
  /\ buf' = t
  /\ pc' = [pc EXCEPT ![t] = "write"]
  /\ UNCHANGED <<cpu, eflags, saved_if, frame, pic, syscalls, task_table, pcb,
                 magic, jiffies>>

(* Mutant: no interrupt_disable. *)
ConsoleEnterOpen(t) ==
  /\ Runs(t, "write")
  /\ saved_if' = [saved_if EXCEPT ![t] = iflag]
  /\ pc' = [pc EXCEPT ![t] = "draw"]
  /\ UNCHANGED <<cpu, eflags, frame, pic, syscalls, task_table, pcb, magic,
                 jiffies, buf>>

(* console_write saves IF and disables interrupts ...                      *)
ConsoleEnter(t) ==
  /\ Runs(t, "write")
  /\ saved_if' = [saved_if EXCEPT ![t] = iflag]
  /\ iflag' = FALSE
  /\ pc' = [pc EXCEPT ![t] = "draw"]
  /\ UNCHANGED <<cur, kpc, slot, found, eflags, frame, pic, syscalls,
                 task_table, pcb, magic, jiffies, buf>>

(* ... draws what the buffer holds, and restores IF.                       *)
ConsoleLeave(t) ==
  /\ Runs(t, "draw")
  /\ iflag' = saved_if[t]
  /\ pc' = [pc EXCEPT ![t] = IF t \in Yielders THEN "yield" ELSE "format"]
  /\ UNCHANGED <<cur, kpc, slot, found, eflags, saved_if, frame, pic, syscalls,
                 task_table, pcb, magic, jiffies, buf>>

(* Mutant: the frame points at the int instruction, not after it. *)
SyscallYieldAgain(t) ==
  /\ Runs(t, "yield")
  /\ eflags' = [eflags EXCEPT ![t] = iflag]
  /\ iflag' = FALSE
  /\ kpc' = "schedule"
  /\ UNCHANGED <<cur, slot, found, pc, saved_if, frame, pic, syscalls,
                 task_table, pcb, magic, jiffies, buf>>

(* int 0x80 with number 1: through an interrupt gate into schedule().      *)
SyscallYield(t) ==
  /\ Runs(t, "yield")
  /\ eflags' = [eflags EXCEPT ![t] = iflag]
  /\ iflag' = FALSE
  /\ kpc' = IF syscalls THEN "schedule" ELSE "halt"
  /\ pc' = [pc EXCEPT ![t] = "format"]
  /\ UNCHANGED <<cur, slot, found, saved_if, frame, pic, syscalls, task_table,
                 pcb, magic, jiffies, buf>>

-----------------------------------------------------------------------------
ThreadStep(t) ==
  ThreadStart(t) \/ Vsprintf(t) \/ ConsoleEnter(t) \/ ConsoleLeave(t)
    \/ SyscallYield(t)

BootStep ==
  ClockInit \/ TaskTableSetup \/ (\E t \in Tasks : TaskCreate(t))
    \/ SyscallInit \/ BootSti

KernelStep ==
  SendEoi \/ ClockCount \/ InterruptExit \/ ScheduleEntry \/ SearchStep
    \/ SchedulePick \/ TaskSwitch

(* What the one CPU does: it always executes its next instruction.         *)
CpuStep == Interrupt \/ KernelStep \/ BootStep \/ (\E t \in Tasks : ThreadStep(t))

Next == TimerFires \/ CpuStep

Spec == Init /\ [][Next]_vars

(* The CPU keeps executing, the 8253 keeps counting, and a context that is *)
(* back in its own code with no request pending again and again executes   *)
(* some of it: 50 ms lie between two ticks.                                *)
FairSpec ==
  /\ Spec /\ WF_vars(CpuStep) /\ WF_vars(TimerFires)
  /\ SF_vars(\E t \in Tasks : ThreadStep(t))

-----------------------------------------------------------------------------
(* Safety.                                                                 *)

(* No assertion of clock_handler, task_search_in_table or schedule fails,  *)
(* get_free_task does not panic, no system call is missing, and            *)
(* task_switch never loads a stack nobody prepared.                        *)
NeverHalts == kpc # "halt"

(* Interrupt and scheduling code runs with IF clear, also after a switch   *)
(* to a stack that was entered another way: what the assertion in          *)
(* task_search_in_table asks for, and why the frames do not nest.          *)
KernelUninterruptible == kpc # "none" => ~iflag

(* Exactly the task on whose stack the CPU runs is marked TASK_RUNNING;    *)
(* between schedule's assignments and task_switch it is the next one.      *)
OneRunning ==
  LET running == {t \in Tasks : state[t] = "RUNNING"}
  IN  kpc # "halt" =>
        running = IF kpc = "switch" THEN {found} ELSE {cur} \cap Tasks

(* ticks-- never passes zero: outside schedule a task that can still run   *)
(* has between one tick and its whole quantum.                             *)
QuantumInRange ==
  \A t \in Tasks : Created(t) =>
     /\ ticks[t] <= Priority[t]
     /\ ticks[t] = 0 => t = cur /\ kpc \in {"schedule", "search", "halt"}

(* console_write is a critical section: the context inside it is the one   *)
(* that runs, with interrupts off, whoever was switched in and out.        *)
ConsoleExclusive ==
  \A t \in Tasks : pc[t] = "draw" => t = cur /\ kpc = "none" /\ ~iflag

(* Whoever has left the CPU comes back to code that turns interrupts on    *)
(* again: a fresh task starts at its sti, any other returns through        *)
(* interrupt_exit to a frame with IF set.                                  *)
ResumesInterruptible ==
  \A t \in Tasks : Created(t) /\ t # cur =>
     \/ frame[t] = "thread" /\ pc[t] = "start"
     \/ frame[t] = "schedule" /\ pc[t] # "start" /\ eflags[t]

(* The clock interrupt is acknowledged before the CPU can leave the stack  *)
(* that took it: a switch in the handler never leaves IRQ0 in service.     *)
AcknowledgedBeforeSwitch == isr => kpc = "eoi"

(* The text printk sends to the screen is the one its caller formatted     *)
(* (l_printk.c:7).                                                         *)
PrintsOwnText == \A t \in Tasks : pc[t] = "draw" => buf = t

-----------------------------------------------------------------------------
(* What a step may never do.                                               *)

(* The boot context never gets the CPU back: it is in no table.            *)
BootAbandoned == [][cur # Boot => cur' # Boot]_vars

(* A task that does not yield loses the CPU only when its last tick is     *)
(* spent, and leaves with its whole quantum for the next time.             *)
PreemptedOnlyAtQuantumEnd ==
  [][\A t \in Tasks \ Yielders :
       cur = t /\ cur' # t => ticks[t] = Priority[t] /\ eflags[t]]_vars

-----------------------------------------------------------------------------
(* Progress.                                                               *)

(* Every clock request is served, whichever task the CPU is switched to:   *)
(* send_eoi comes first and every resumed stack enables interrupts.        *)
TicksServed == irr ~> ~irr

(* Printing never stops, unless the clock leaves the CPU no time at all.   *)
PrintingGoesOn ==
  []<>(kpc = "none" /\ ~irr) => []<>(\E t \in Tasks : pc[t] = "draw")

-----------------------------------------------------------------------------
(* The inductive invariant behind the safety properties, for at least two  *)
(* tasks and a table that has room for them.                               *)

Configured == NumTasks \in 2 .. NUM_TASKS

(* The table is filled from its first slot, in the order of creation, and  *)
(* the tasks in it are those whose page has the magic number.              *)
TableInv ==
  /\ \A s \in Slots :
       /\ task_table[s] \in {NULL, s + 1}
       /\ task_table[s] # NULL => \A r \in Slots : r < s => task_table[r] # NULL
  /\ \A t \in Tasks : magic[t] <=> Created(t)

(* What the boot context has done at each point of its code.  It has the   *)
(* CPU, with interrupts off, until it idles.                               *)
BootInv ==
  /\ pc[Boot] \in BootPcs
  /\ pc[Boot] # "idle" => cur = Boot /\ kpc = "none" /\ ~iflag
  /\ pc[Boot] \notin {"clock_init", "setup"} => magic[Boot]
  /\ pc[Boot] \in {"clock_init", "setup"} => \A t \in Tasks : ~magic[t]
  /\ pc[Boot] = "create" => ~magic[NumTasks]
  /\ pc[Boot] \in {"syscall_init", "sti", "idle"} => \A t \in Tasks : magic[t]
  /\ pc[Boot] \in {"sti", "idle"} => syscalls

(* A task that does not exist yet, one that waits, one that runs.          *)
Absent(t) == pc[t] = "none" /\ state[t] = "INIT" /\ t # cur

Waits(t) ==
  \/ frame[t] = "thread" /\ pc[t] = "start"
  \/ frame[t] = "schedule" /\ pc[t] \in {"format", "write", "yield"} /\ eflags[t]

RunsOwnCode(t) ==
  \/ pc[t] = "start" /\ ~iflag
  \/ pc[t] \in {"format", "write", "yield"} /\ iflag
  \/ pc[t] = "draw" /\ ~iflag /\ saved_if[t]

RunsKernelCode(t) == pc[t] \in {"format", "write", "yield"} /\ eflags[t]

TaskOK(t) ==
  /\ pc[t] = "yield" => t \in Yielders
  /\ IF ~magic[t] THEN Absent(t)
     ELSE IF t # cur THEN Waits(t)
     ELSE IF kpc = "none" THEN RunsOwnCode(t)
     ELSE RunsKernelCode(t)
  /\ magic[t] => /\ state[t] = "READY" \/ state[t] = "RUNNING"
                 /\ ticks[t] <= Priority[t]
                 /\ ticks[t] = 0 => t = cur /\ kpc \in {"schedule", "search"}

TaskInv == \A t \in Tasks : TaskOK(t)

(* The running task and the states; the progress of a search; the quantum  *)
(* of a task that did not ask to be switched.                              *)
CpuInv ==
  /\ kpc # "halt" /\ (kpc # "none" => ~iflag) /\ (isr => kpc = "eoi")
  /\ \A t \in Tasks :
       state[t] = "RUNNING" <=> t = IF kpc = "switch" THEN found ELSE cur
  /\ kpc = "switch" => found \in Tasks \ {cur}
  /\ kpc = "search" =>
       IF found = NULL
       THEN \A s \in Slots : s < slot => ~IsCandidate(task_table[s])
       ELSE IsCandidate(found)
  /\ cur \in Tasks \ Yielders =>
       /\ kpc \in {"schedule", "search"} => ticks[cur] = 0
       /\ kpc = "switch" => ticks[cur] = Priority[cur]

IInv == TypeOK /\ TableInv /\ BootInv /\ TaskInv /\ CpuInv
=============================================================================
