--------------------------- MODULE SchedulerProofs ---------------------------
(***************************************************************************)
(* Proofs about Scheduler, for every number of tasks from two to the size  *)
(* of the table, every priority and every choice of yielding tasks.        *)
(*                                                                         *)
(* The properties rest on IInv, which ties each task's pc, its saved frame *)
(* and IF to what the CPU is doing.  There is one lemma per action, with   *)
(* one step per part of IInv: TypeOK, TableInv (the table is filled from   *)
(* the first slot), BootInv (what the boot context has done so far),       *)
(* TaskOK of each task (absent, waiting or on the CPU) and CpuInv (the     *)
(* kernel code that runs).  CandidateFound is the one argument about the   *)
(* search: with two tasks there is always another one that is ready.       *)
(***************************************************************************)
EXTENDS Scheduler, TLAPS

USE DEF NULL, Boot, Tasks, Slots, Contexts, cpu, stack, pic, pcb, vars

(* A clock request only sets irr.                                          *)
LEMMA TimerFiresInv ==
  ASSUME Configured, IInv, TimerFires
  PROVE  IInv'
<1>. USE SizesAssumption, PriorityAssumption, YieldersAssumption DEF Configured, TimerFires, Runs
<1>1. TypeOK'
  BY DEF IInv, TypeOK
<1>2. TableInv'
  BY DEF IInv, TableInv, Created
<1>3. BootInv'
  BY DEF IInv, BootInv
<1>4. ASSUME NEW t \in Tasks PROVE TaskOK(t)'
  BY DEF IInv, TaskInv, TaskOK, Absent, Waits, RunsOwnCode, RunsKernelCode
<1>5. CpuInv'
  BY DEF IInv, CpuInv, IsCandidate
<1>. QED  BY <1>1, <1>2, <1>3, <1>4, <1>5 DEF IInv, TaskInv

(* The frame pushed at the interrupt holds the IF that was set, and the    *)
(* code that runs from here on has it clear.                               *)
LEMMA InterruptInv ==
  ASSUME Configured, IInv, Interrupt
  PROVE  IInv'
<1>. USE SizesAssumption, PriorityAssumption, YieldersAssumption DEF Configured, Interrupt, Runs, Deliverable
<1>1. TypeOK'
  BY DEF IInv, TypeOK, KernelPcs
<1>2. TableInv'
  BY DEF IInv, TableInv, Created
<1>3. BootInv'
  BY DEF IInv, BootInv
<1>4. ASSUME NEW t \in Tasks PROVE TaskOK(t)'
  BY DEF IInv, TypeOK, TaskInv, TaskOK, Absent, Waits, RunsOwnCode, RunsKernelCode
<1>5. CpuInv'
  BY DEF IInv, CpuInv
<1>. QED  BY <1>1, <1>2, <1>3, <1>4, <1>5 DEF IInv, TaskInv

(* The acknowledgement comes in the first step of the handler.             *)
LEMMA SendEoiInv ==
  ASSUME Configured, IInv, SendEoi
  PROVE  IInv'
<1>. USE SizesAssumption, PriorityAssumption, YieldersAssumption DEF Configured, SendEoi, Runs
<1>1. TypeOK'
  BY DEF IInv, TypeOK, KernelPcs
<1>2. TableInv'
  BY DEF IInv, TableInv, Created
<1>3. BootInv'
  BY DEF IInv, BootInv
<1>4. ASSUME NEW t \in Tasks PROVE TaskOK(t)'
  BY DEF IInv, TaskInv, TaskOK, Absent, Waits, RunsOwnCode, RunsKernelCode
<1>5. CpuInv'
  BY DEF IInv, CpuInv
<1>. QED  BY <1>1, <1>2, <1>3, <1>4, <1>5 DEF IInv, TaskInv

(* The current context has its magic number and, if it is a task, at least *)
(* one tick, so that the decrement does not wrap.                          *)
LEMMA ClockCountInv ==
  ASSUME Configured, IInv, ClockCount
  PROVE  IInv'
<1>. USE SizesAssumption, PriorityAssumption, YieldersAssumption DEF Configured, ClockCount, Runs
<1>1. TypeOK'
  <2>1. jiffies' \in 0 .. WORD - 1
    BY DEF IInv, TypeOK, Inc
  <2>2. Dec(ticks[cur]) \in 0 .. WORD - 1
    <3>1. ticks[cur] \in 0 .. WORD - 1
      BY DEF IInv, TypeOK
    <3>. QED  BY <3>1 DEF Dec
  <2>3. ticks' \in [Contexts -> 0 .. WORD - 1] /\ jif' \in [Contexts -> 0 .. WORD - 1]
    BY <2>1, <2>2 DEF IInv, TypeOK
  <2>4. kpc' \in KernelPcs
    BY DEF KernelPcs
  <2>. QED  BY <2>1, <2>3, <2>4 DEF IInv, TypeOK
<1>2. TableInv'
  BY DEF IInv, TableInv, Created
<1>3. BootInv'
  BY DEF IInv, BootInv
<1>4. ASSUME NEW t \in Tasks PROVE TaskOK(t)'
  <2>1. magic[cur]
    BY DEF IInv, TypeOK, BootInv, TaskInv, CpuInv, TaskOK, Absent
  <2>2. cur \in Tasks => ticks'[cur] <= Priority[cur]
    <3>1. cur \in Tasks => ticks[cur] \in 1 .. WORD - 1 /\ ticks[cur] <= Priority[cur]
      BY <2>1 DEF IInv, TypeOK, TaskInv, TaskOK
    <3>2. cur \in Tasks => Dec(ticks[cur]) = ticks[cur] - 1
      BY <3>1 DEF Dec
    <3>3. ticks'[cur] = Dec(ticks[cur])
      BY <2>1 DEF IInv, TypeOK
    <3>. QED  BY <3>1, <3>2, <3>3
  <2>3. t # cur => ticks'[t] = ticks[t]
    BY <2>1 DEF IInv, TypeOK
  <2>. QED  BY <2>1, <2>2, <2>3 DEF IInv, TypeOK, TaskInv, TaskOK, Absent, Waits, RunsKernelCode
<1>5. CpuInv'
  BY DEF IInv, TypeOK, BootInv, TaskInv, TaskOK, CpuInv, IsCandidate
<1>. QED  BY <1>1, <1>2, <1>3, <1>4, <1>5 DEF IInv, TaskInv

(* The frame on the current stack restores IF as RunsOwnCode wants it.     *)
LEMMA InterruptExitInv ==
  ASSUME Configured, IInv, InterruptExit
  PROVE  IInv'
<1>. USE SizesAssumption, PriorityAssumption, YieldersAssumption DEF Configured, InterruptExit, Runs
<1>1. TypeOK'
  BY DEF IInv, TypeOK, KernelPcs
<1>2. TableInv'
  BY DEF IInv, TableInv, Created
<1>3. BootInv'
  BY DEF IInv, BootInv
<1>4. ASSUME NEW t \in Tasks PROVE TaskOK(t)'
  BY DEF IInv, TaskInv, TaskOK, Absent, Waits, RunsOwnCode, RunsKernelCode
<1>5. CpuInv'
  BY DEF IInv, CpuInv
<1>. QED  BY <1>1, <1>2, <1>3, <1>4, <1>5 DEF IInv, TaskInv

(* IF is clear at the entry of schedule; nothing has been searched yet.    *)
LEMMA ScheduleEntryInv ==
  ASSUME Configured, IInv, ScheduleEntry
  PROVE  IInv'
<1>. USE SizesAssumption, PriorityAssumption, YieldersAssumption DEF Configured, ScheduleEntry, Runs
<1>1. TypeOK'
  <2>1. kpc' \in KernelPcs
    BY DEF KernelPcs
  <2>2. slot' \in 0 .. NUM_TASKS /\ found' \in Tasks \cup {NULL}
    OBVIOUS
  <2>. QED  BY <2>1, <2>2 DEF IInv, TypeOK
<1>2. TableInv'
  BY DEF IInv, TableInv, Created
<1>3. BootInv'
  BY DEF IInv, BootInv
<1>4. ASSUME NEW t \in Tasks PROVE TaskOK(t)'
  BY DEF IInv, TaskInv, CpuInv, TaskOK, Absent, Waits, RunsOwnCode, RunsKernelCode
<1>5. CpuInv'
  BY DEF IInv, CpuInv
<1>. QED  BY <1>1, <1>2, <1>3, <1>4, <1>5 DEF IInv, TaskInv

(* Each turn of the search either finds a candidate or rules out its slot. *)
LEMMA SearchStepInv ==
  ASSUME Configured, IInv, SearchStep
  PROVE  IInv'
<1>. USE SizesAssumption, PriorityAssumption, YieldersAssumption DEF Configured, SearchStep, Runs
<1>1. TypeOK'
  <2>1. slot \in Slots /\ slot' \in 0 .. NUM_TASKS
    BY DEF IInv, TypeOK
  <2>2. found' \in Tasks \cup {NULL}
    BY <2>1 DEF IInv, TypeOK
  <2>. QED  BY <2>1, <2>2 DEF IInv, TypeOK
<1>2. TableInv'
  BY DEF IInv, TableInv, Created
<1>3. BootInv'
  BY DEF IInv, BootInv
<1>4. ASSUME NEW t \in Tasks PROVE TaskOK(t)'
  BY DEF IInv, TaskInv, TaskOK, Absent, Waits, RunsOwnCode, RunsKernelCode
<1>5. CpuInv'
  <2>1. slot \in Slots /\ kpc' = "search" /\ kpc # "switch"
    BY DEF IInv, TypeOK
  <2>2. \A p : IsCandidate(p)' = IsCandidate(p)
    BY DEF IsCandidate
  <2>3. ASSUME found' = NULL, NEW s \in Slots, s < slot'
        PROVE  ~IsCandidate(task_table[s])
    <3>1. found = NULL /\ ~IsCandidate(task_table[slot])
      BY <2>1, <2>3 DEF IInv, TypeOK, CpuInv, IsCandidate, Better
    <3>2. s < slot \/ s = slot
      BY <2>1, <2>3
    <3>. QED  BY <3>1, <3>2 DEF IInv, CpuInv
  <2>4. found' # NULL => IsCandidate(found')
    BY DEF IInv, CpuInv
  <2>5. kpc' = "search" => IF found' = NULL
                           THEN \A s \in Slots : s < slot' => ~IsCandidate(task_table[s])'
                           ELSE IsCandidate(found)'
    BY <2>2, <2>3, <2>4 DEF IsCandidate
  <2>. QED  BY <2>1, <2>5 DEF IInv, CpuInv
<1>. QED  BY <1>1, <1>2, <1>3, <1>4, <1>5 DEF IInv, TaskInv

(* The search never comes back empty: another task exists, is ready and    *)
(* has a slot.                                                             *)
LEMMA CandidateFound ==
  ASSUME Configured, IInv, kpc = "search", slot = NUM_TASKS
  PROVE  /\ IsTask(found) /\ found \in Tasks \ {cur}
         /\ state[found] = "READY" /\ magic[found]
<1>. USE SizesAssumption
<1>1. found # NULL
  <2>1. SUFFICES ASSUME found = NULL PROVE FALSE
    OBVIOUS
  <2>2. PICK t \in Tasks : t # cur
    BY DEF Configured
  <2>3. magic[t]
    BY DEF IInv, BootInv, BootPcs
  <2>4. state[t] = "READY"
    BY <2>2, <2>3 DEF IInv, TaskInv, TaskOK, CpuInv
  <2>5. PICK s \in Slots : task_table[s] = t
    BY <2>3 DEF IInv, TableInv, Created
  <2>6. IsCandidate(task_table[s])
    BY <2>2, <2>4, <2>5 DEF IsCandidate
  <2>7. s < slot
    OBVIOUS
  <2>. QED  BY <2>1, <2>6, <2>7 DEF IInv, CpuInv
<1>2. found \in Tasks /\ IsCandidate(found)
  BY <1>1 DEF IInv, TypeOK, CpuInv
<1>3. magic[found]
  BY <1>2 DEF IInv, TaskInv, TaskOK, Absent, IsCandidate
<1>. QED  BY <1>1, <1>2, <1>3 DEF IsCandidate, IsTask

(* A priority is a positive number of its width.                           *)
LEMMA PriorityRange ==
  ASSUME NEW t \in Tasks
  PROVE  Priority[t] \in Nat /\ Priority[t] \in 0 .. WORD - 1 /\ Priority[t] > 0
BY PriorityAssumption, SizesAssumption

(* The states and the quantum change hands before the stacks do.           *)
LEMMA SchedulePickInv ==
  ASSUME Configured, IInv, SchedulePick
  PROVE  IInv'
<1>. USE SizesAssumption, PriorityAssumption
<1>a. /\ IsTask(found) /\ found \in Tasks \ {cur} /\ state[found] = "READY"
      /\ magic[found] /\ kpc = "search" /\ kpc' = "switch" /\ ~iflag
  BY CandidateFound DEF SchedulePick, IInv, CpuInv
<1>b. state' = [state EXCEPT ![cur] = IF state[cur] = "RUNNING" THEN "READY" ELSE @,
                             ![found] = "RUNNING"]
  BY <1>a DEF SchedulePick
<1>c. /\ ticks' \in [Contexts -> 0 .. WORD - 1]
      /\ \A t \in Tasks : ticks'[t] = IF t = cur /\ ticks[t] = 0 THEN Priority[t] ELSE ticks[t]
  <2>1. CASE ticks[cur] = 0 /\ cur \in Tasks
    <3>1. ticks' = [ticks EXCEPT ![cur] = Priority[cur]]
      BY <1>a, <2>1 DEF SchedulePick
    <3>. QED  BY <3>1, <2>1, PriorityRange DEF IInv, TypeOK
  <2>2. CASE ticks[cur] = 0 /\ cur = Boot
    <3>1. PICK garbage \in {0, 1} : ticks' = [ticks EXCEPT ![cur] = garbage]
      BY <1>a, <2>2 DEF SchedulePick
    <3>. QED  BY <3>1, <2>2 DEF IInv, TypeOK
  <2>3. CASE ticks[cur] # 0
    BY <1>a, <2>3 DEF SchedulePick, IInv, TypeOK
  <2>. QED  BY <2>1, <2>2, <2>3 DEF IInv, TypeOK
<1>1. TypeOK'
  <2>1. state' \in [Contexts -> States]
    BY <1>b DEF IInv, TypeOK, States
  <2>2. kpc' \in KernelPcs
    BY <1>a DEF KernelPcs
  <2>. QED  BY <2>1, <2>2, <1>c DEF SchedulePick, IInv, TypeOK
<1>2. TableInv'
  BY DEF SchedulePick, IInv, TableInv, Created
<1>3. BootInv'
  BY <1>a DEF SchedulePick, IInv, BootInv
<1>4. ASSUME NEW t \in Tasks PROVE TaskOK(t)'
  <2>1. t # cur => TaskOK(t)'
    BY <1>a, <1>b, <1>c DEF SchedulePick, IInv, TypeOK, TaskInv, TaskOK, Absent, Waits
  <2>2. t = cur => TaskOK(t)'
    <3>1. SUFFICES ASSUME t = cur PROVE TaskOK(t)'
      OBVIOUS
    <3>2. state'[t] \in {"READY", "RUNNING"}
      BY <1>a, <1>b, <3>1 DEF IInv, TypeOK, TaskInv, TaskOK, Absent
    <3>3. magic[t] => ticks'[t] <= Priority[t] /\ ticks'[t] # 0
      <4>1. CASE ticks[t] = 0
        BY <1>c, <3>1, <4>1, PriorityRange
      <4>2. CASE ticks[t] # 0
        <5>1. magic[t] => ticks[t] <= Priority[t]
          BY DEF IInv, TaskInv, TaskOK
        <5>. QED  BY <1>c, <3>1, <4>2, <5>1
      <4>. QED  BY <4>1, <4>2
    <3>. QED  BY <1>a, <3>1, <3>2, <3>3 DEF SchedulePick, IInv, TaskInv, TaskOK, Absent, RunsKernelCode
  <2>. QED  BY <2>1, <2>2
<1>5. CpuInv'
  <2>1. \A t \in Tasks : state'[t] = "RUNNING" <=> t = found
    BY <1>a, <1>b DEF IInv, TypeOK, CpuInv
  <2>2. cur \in Tasks \ Yielders => ticks'[cur] = Priority[cur]
    BY <1>a, <1>c DEF IInv, CpuInv
  <2>. QED  BY <1>a, <2>1, <2>2 DEF SchedulePick, IInv, CpuInv
<1>. QED  BY <1>1, <1>2, <1>3, <1>4, <1>5 DEF IInv, TaskInv

(* The stack left behind is one that waits, the one entered is one that    *)
(* Waits describes.                                                        *)
LEMMA TaskSwitchInv ==
  ASSUME Configured, IInv, TaskSwitch
  PROVE  IInv'
<1>. USE SizesAssumption, PriorityAssumption, YieldersAssumption DEF Configured, TaskSwitch, Runs
<1>1. TypeOK'
  <2>1. kpc' \in KernelPcs
    BY DEF KernelPcs
  <2>2. cur' \in Contexts
    BY DEF IInv, CpuInv
  <2>. QED  BY <2>1, <2>2 DEF IInv, TypeOK
<1>2. TableInv'
  BY DEF IInv, TableInv, Created
<1>3. BootInv'
  BY DEF IInv, BootInv
<1>4. ASSUME NEW t \in Tasks PROVE TaskOK(t)'
  BY DEF IInv, TypeOK, BootInv, TaskInv, CpuInv, TaskOK, Absent, Waits, RunsOwnCode, RunsKernelCode
<1>5. CpuInv'
  BY DEF IInv, TypeOK, BootInv, TaskInv, TaskOK, CpuInv, IsCandidate, Absent, Waits, RunsOwnCode, RunsKernelCode, IsTask
<1>. QED  BY <1>1, <1>2, <1>3, <1>4, <1>5 DEF IInv, TaskInv

(* Unmasking IRQ0 changes nothing while IF is clear.                       *)
LEMMA ClockInitInv ==
  ASSUME Configured, IInv, ClockInit
  PROVE  IInv'
<1>. USE SizesAssumption, PriorityAssumption, YieldersAssumption DEF Configured, ClockInit, Runs
<1>1. TypeOK'
  BY DEF IInv, TypeOK, BootPcs
<1>2. TableInv'
  BY DEF IInv, TableInv, Created
<1>3. BootInv'
  BY DEF IInv, BootInv, BootPcs
<1>4. ASSUME NEW t \in Tasks PROVE TaskOK(t)'
  BY DEF IInv, TaskInv, TaskOK, Absent, Waits
<1>5. CpuInv'
  BY DEF IInv, CpuInv
<1>. QED  BY <1>1, <1>2, <1>3, <1>4, <1>5 DEF IInv, TaskInv

(* The table is empty when the boot context gets its magic number.         *)
LEMMA TaskTableSetupInv ==
  ASSUME Configured, IInv, TaskTableSetup
  PROVE  IInv'
<1>. USE SizesAssumption, PriorityAssumption, YieldersAssumption DEF Configured, TaskTableSetup, Runs
<1>1. TypeOK'
  BY DEF IInv, TypeOK, BootPcs, ThreadPcs
<1>2. TableInv'
  <2>1. \A t \in Tasks : ~magic'[t]
    BY DEF IInv, TypeOK, BootInv
  <2>2. \A s \in Slots : task_table'[s] = NULL
    OBVIOUS
  <2>. QED  BY <2>1, <2>2 DEF TableInv, Created
<1>3. BootInv'
  BY DEF IInv, TypeOK, BootInv, BootPcs
<1>4. ASSUME NEW t \in Tasks PROVE TaskOK(t)'
  BY DEF IInv, TaskInv, TaskOK, Absent, Waits
<1>5. CpuInv'
  BY DEF IInv, CpuInv
<1>. QED  BY <1>1, <1>2, <1>3, <1>4, <1>5 DEF IInv, TaskInv

(* The slot a new task gets is the one of its number.                      *)
LEMMA SlotOfTask ==
  ASSUME Configured, IInv, NEW u \in Tasks, TaskCreate(u)
  PROVE  /\ pc[Boot] = "create" /\ ~magic[u] /\ task_table[u - 1] = NULL
         /\ \A v \in Tasks : v < u => task_table[v - 1] = v
         /\ task_table' = [task_table EXCEPT ![u - 1] = u]
         /\ frame' = [frame EXCEPT ![u] = "thread"]
         /\ ticks' = [ticks EXCEPT ![u] = Priority[u]]
         /\ jif' = [jif EXCEPT ![u] = 0]
         /\ state' = [state EXCEPT ![u] = "READY"]
         /\ magic' = [magic EXCEPT ![u] = TRUE]
         /\ pc' = [pc EXCEPT ![u] = "start",
                             ![Boot] = IF u = NumTasks THEN "syscall_init" ELSE @]
         /\ UNCHANGED <<cur, iflag, kpc, slot, found, eflags, saved_if, pic,
                        syscalls, jiffies, buf>>
<1>. USE SizesAssumption DEF Configured
<1>1. pc[Boot] = "create" /\ ~Created(u) /\ \A v \in Tasks : v < u => Created(v)
  BY DEF TaskCreate, Runs
<1>2. \A v \in Tasks : v - 1 \in Slots
  OBVIOUS
<1>3. \A v \in Tasks, s \in Slots : task_table[s] = v => s = v - 1
  BY DEF IInv, TableInv
<1>4. task_table[u - 1] = NULL
  BY <1>1, <1>2 DEF IInv, TableInv, Created
<1>5. \A v \in Tasks : v < u => task_table[v - 1] = v
  BY <1>1, <1>3 DEF Created
<1>6. ASSUME NEW s \in Slots, task_table[s] = NULL,
             \A r \in Slots : r < s => task_table[r] # NULL
      PROVE  s = u - 1
  <2>1. ~(u - 1 < s)
    BY <1>2, <1>4, <1>6
  <2>2. ~(s < u - 1)
    <3>1. SUFFICES ASSUME s < u - 1 PROVE FALSE
      OBVIOUS
    <3>2. s + 1 \in Tasks /\ s + 1 < u
      BY <3>1
    <3>. QED  BY <3>2, <1>5, <1>6
  <2>. QED  BY <2>1, <2>2
<1>7. ~\A s \in Slots : task_table[s] # NULL
  BY <1>2, <1>4
<1>8. ~magic[u]
  BY <1>1 DEF IInv, TableInv
<1>. QED  BY <1>1, <1>4, <1>5, <1>6, <1>7, <1>8 DEF TaskCreate, pic

(* A new task fills the next slot and waits at the entry of its thread.    *)
LEMMA TaskCreateInv ==
  ASSUME Configured, IInv, NEW u \in Tasks, TaskCreate(u)
  PROVE  IInv'
<1>. USE SizesAssumption DEF Configured
<1>b. /\ pc[Boot] = "create" /\ ~magic[u] /\ task_table[u - 1] = NULL
      /\ \A v \in Tasks : v < u => task_table[v - 1] = v
      /\ task_table' = [task_table EXCEPT ![u - 1] = u]
      /\ frame' = [frame EXCEPT ![u] = "thread"]
      /\ ticks' = [ticks EXCEPT ![u] = Priority[u]]
      /\ jif' = [jif EXCEPT ![u] = 0]
      /\ state' = [state EXCEPT ![u] = "READY"]
      /\ magic' = [magic EXCEPT ![u] = TRUE]
      /\ pc' = [pc EXCEPT ![u] = "start",
                          ![Boot] = IF u = NumTasks THEN "syscall_init" ELSE @]
      /\ UNCHANGED <<cur, iflag, kpc, slot, found, eflags, saved_if, pic,
                     syscalls, jiffies, buf>>
  BY SlotOfTask
<1>a. cur = Boot /\ kpc = "none" /\ ~iflag /\ u - 1 \in Slots
  BY <1>b DEF IInv, BootInv
<1>c. pc'[u] = "start" /\ \A v \in Tasks : v # u => pc'[v] = pc[v]
  <2>1. DOMAIN pc = Contexts /\ u # Boot /\ \A v \in Tasks : v # Boot
    BY DEF IInv, TypeOK
  <2>2. pc' = [c \in Contexts |->
                 IF c = Boot THEN IF u = NumTasks THEN "syscall_init" ELSE pc[Boot]
                 ELSE IF c = u THEN "start" ELSE pc[c]]
    BY <1>b, <2>1 DEF IInv, TypeOK
  <2>. QED  BY <2>1, <2>2
<1>1. TypeOK'
  <2>1. pc' \in [Contexts -> BootPcs \cup ThreadPcs]
    BY <1>b DEF IInv, TypeOK, BootPcs, ThreadPcs
  <2>2. task_table' \in [Slots -> Tasks \cup {NULL}]
    BY <1>b DEF IInv, TypeOK
  <2>3. ticks' \in [Contexts -> 0 .. WORD - 1] /\ jif' \in [Contexts -> 0 .. WORD - 1]
    <3>1. Priority[u] \in 0 .. WORD - 1 /\ 0 \in 0 .. WORD - 1
      BY PriorityRange
    <3>2. ticks' \in [Contexts -> 0 .. WORD - 1]
      BY <1>b, <3>1 DEF IInv, TypeOK
    <3>3. jif' \in [Contexts -> 0 .. WORD - 1]
      BY <1>b, <3>1 DEF IInv, TypeOK
    <3>. QED  BY <3>2, <3>3
  <2>4. state' \in [Contexts -> States] /\ magic' \in [Contexts -> BOOLEAN]
        /\ frame' \in [Contexts -> {"none", "thread", "schedule"}]
    BY <1>b DEF IInv, TypeOK, States
  <2>. QED  BY <1>b, <2>1, <2>2, <2>3, <2>4 DEF IInv, TypeOK
<1>2. TableInv'
  <2>1. ASSUME NEW s \in Slots
        PROVE  /\ task_table'[s] \in {NULL, s + 1}
               /\ task_table'[s] # NULL =>
                    \A r \in Slots : r < s => task_table'[r] # NULL
    <3>1. CASE s = u - 1
      <4>1. ASSUME NEW r \in Slots, r < s PROVE task_table'[r] # NULL
        <5>1. r + 1 \in Tasks /\ r + 1 < u
          BY <3>1, <4>1
        <5>2. task_table[(r + 1) - 1] = r + 1 /\ (r + 1) - 1 = r
          BY <1>b, <5>1
        <5>3. task_table'[r] = task_table[r]
          BY <1>b, <3>1, <4>1 DEF IInv, TypeOK
        <5>. QED  BY <5>2, <5>3
      <4>. QED  BY <1>b, <3>1, <4>1 DEF IInv, TypeOK
    <3>2. CASE s # u - 1
      BY <1>b, <3>2 DEF IInv, TypeOK, TableInv
    <3>. QED  BY <3>1, <3>2
  <2>2. ASSUME NEW t \in Tasks PROVE magic'[t] <=> Created(t)'
    <3>1. CASE t = u
      BY <1>b, <3>1, <1>a DEF IInv, TypeOK, Created
    <3>2. CASE t # u
      <4>1. magic'[t] = magic[t]
        BY <1>b, <3>2 DEF IInv, TypeOK
      <4>2. \A s \in Slots : task_table'[s] = t <=> task_table[s] = t
        <5>1. task_table'[u - 1] = u /\ u # t /\ task_table[u - 1] # t
          BY <1>a, <1>b, <3>2 DEF IInv, TypeOK
        <5>2. \A s \in Slots : s # u - 1 => task_table'[s] = task_table[s]
          BY <1>b DEF IInv, TypeOK
        <5>. QED  BY <5>1, <5>2
      <4>. QED  BY <4>1, <4>2 DEF IInv, TableInv, Created
    <3>. QED  BY <3>1, <3>2
  <2>. QED  BY <2>1, <2>2 DEF TableInv
<1>3. BootInv'
  <2>1. CASE u = NumTasks
    <3>1. ASSUME NEW t \in Tasks PROVE magic'[t]
      <4>1. CASE t = u
        BY <1>b, <4>1 DEF IInv, TypeOK
      <4>2. CASE t < u
        <5>1. t - 1 \in Slots
          OBVIOUS
        <5>. QED  BY <1>b, <4>2, <5>1 DEF IInv, TableInv, Created
      <4>. QED  BY <2>1, <4>1, <4>2
    <3>. QED  BY <1>b, <1>a, <2>1, <3>1 DEF IInv, TypeOK, BootInv, BootPcs
  <2>2. CASE u # NumTasks
    BY <1>b, <1>a, <2>2 DEF IInv, TypeOK, BootInv
  <2>. QED  BY <2>1, <2>2
<1>4. ASSUME NEW t \in Tasks PROVE TaskOK(t)'
  <2>1. CASE t = u
    <3>1. /\ pc'[u] = "start" /\ frame'[u] = "thread" /\ magic'[u]
          /\ state'[u] = "READY" /\ ticks'[u] = Priority[u] /\ cur' # u
      <4>1. pc'[u] = "start"
        BY <1>c
      <4>2. frame'[u] = "thread" /\ magic'[u] /\ state'[u] = "READY"
        BY <1>b DEF IInv, TypeOK
      <4>3. ticks'[u] = Priority[u]
        BY <1>b DEF IInv, TypeOK
      <4>. QED  BY <1>a, <1>b, <4>1, <4>2, <4>3
    <3>2. Waits(u)'
      BY <3>1 DEF Waits
    <3>. QED  BY <2>1, <3>1, <3>2, PriorityRange DEF TaskOK
  <2>2. CASE t # u
    <3>1. /\ pc'[t] = pc[t] /\ frame'[t] = frame[t] /\ magic'[t] = magic[t]
          /\ state'[t] = state[t] /\ ticks'[t] = ticks[t] /\ eflags' = eflags
          /\ cur' = cur /\ kpc' = kpc
      <4>1. pc'[t] = pc[t]
        BY <1>c, <2>2
      <4>2. frame'[t] = frame[t] /\ magic'[t] = magic[t] /\ state'[t] = state[t]
        BY <1>b, <2>2 DEF IInv, TypeOK
      <4>3. ticks'[t] = ticks[t]
        BY <1>b, <2>2 DEF IInv, TypeOK
      <4>. QED  BY <1>b, <4>1, <4>2, <4>3
    <3>2. TaskOK(t) /\ t # cur
      BY <1>a DEF IInv, TaskInv
    <3>. QED  BY <3>1, <3>2 DEF TaskOK, Absent, Waits
  <2>. QED  BY <2>1, <2>2
<1>5. CpuInv'
  BY <1>b, <1>a DEF IInv, TypeOK, TaskInv, TaskOK, CpuInv, Absent
<1>. QED  BY <1>1, <1>2, <1>3, <1>4, <1>5 DEF IInv, TaskInv

(* The system call table is filled before interrupts are enabled.          *)
LEMMA SyscallInitInv ==
  ASSUME Configured, IInv, SyscallInit
  PROVE  IInv'
<1>. USE SizesAssumption, PriorityAssumption, YieldersAssumption DEF Configured, SyscallInit, Runs
<1>1. TypeOK'
  BY DEF IInv, TypeOK, BootPcs
<1>2. TableInv'
  BY DEF IInv, TableInv, Created
<1>3. BootInv'
  BY DEF IInv, BootInv, BootPcs
<1>4. ASSUME NEW t \in Tasks PROVE TaskOK(t)'
  BY DEF IInv, TaskInv, TaskOK, Absent, Waits
<1>5. CpuInv'
  BY DEF IInv, CpuInv
<1>. QED  BY <1>1, <1>2, <1>3, <1>4, <1>5 DEF IInv, TaskInv

(* Interrupts are enabled when all tasks exist and all tables are filled.  *)
LEMMA BootStiInv ==
  ASSUME Configured, IInv, BootSti
  PROVE  IInv'
<1>. USE SizesAssumption, PriorityAssumption, YieldersAssumption DEF Configured, BootSti, Runs
<1>1. TypeOK'
  BY DEF IInv, TypeOK, BootPcs
<1>2. TableInv'
  BY DEF IInv, TableInv, Created
<1>3. BootInv'
  BY DEF IInv, TypeOK, BootInv, BootPcs
<1>4. ASSUME NEW t \in Tasks PROVE TaskOK(t)'
  BY DEF IInv, TaskInv, TaskOK, Absent, Waits
<1>5. CpuInv'
  BY DEF IInv, CpuInv
<1>. QED  BY <1>1, <1>2, <1>3, <1>4, <1>5 DEF IInv, TaskInv

(* A thread enables interrupts itself.                                     *)
LEMMA ThreadStartInv ==
  ASSUME Configured, NEW u \in Tasks, IInv, ThreadStart(u)
  PROVE  IInv'
<1>. USE SizesAssumption, PriorityAssumption, YieldersAssumption DEF Configured, ThreadStart, Runs
<1>1. TypeOK'
  BY DEF IInv, TypeOK, ThreadPcs
<1>2. TableInv'
  BY DEF IInv, TableInv, Created
<1>3. BootInv'
  BY DEF IInv, BootInv
<1>4. ASSUME NEW t \in Tasks PROVE TaskOK(t)'
  BY DEF IInv, TypeOK, TaskInv, TaskOK, Absent, Waits, RunsOwnCode, RunsKernelCode
<1>5. CpuInv'
  BY DEF IInv, CpuInv
<1>. QED  BY <1>1, <1>2, <1>3, <1>4, <1>5 DEF IInv, TaskInv

(* Formatting only takes the buffer.                                       *)
LEMMA VsprintfInv ==
  ASSUME Configured, NEW u \in Tasks, IInv, Vsprintf(u)
  PROVE  IInv'
<1>. USE SizesAssumption, PriorityAssumption, YieldersAssumption DEF Configured, Vsprintf, Runs
<1>1. TypeOK'
  BY DEF IInv, TypeOK, ThreadPcs
<1>2. TableInv'
  BY DEF IInv, TableInv, Created
<1>3. BootInv'
  BY DEF IInv, BootInv
<1>4. ASSUME NEW t \in Tasks PROVE TaskOK(t)'
  BY DEF IInv, TaskInv, TaskOK, Absent, Waits, RunsOwnCode, RunsKernelCode
<1>5. CpuInv'
  BY DEF IInv, CpuInv
<1>. QED  BY <1>1, <1>2, <1>3, <1>4, <1>5 DEF IInv, TaskInv

(* IF was set, and is saved so.                                            *)
LEMMA ConsoleEnterInv ==
  ASSUME Configured, NEW u \in Tasks, IInv, ConsoleEnter(u)
  PROVE  IInv'
<1>. USE SizesAssumption, PriorityAssumption, YieldersAssumption DEF Configured, ConsoleEnter, Runs
<1>1. TypeOK'
  BY DEF IInv, TypeOK, ThreadPcs
<1>2. TableInv'
  BY DEF IInv, TableInv, Created
<1>3. BootInv'
  BY DEF IInv, BootInv
<1>4. ASSUME NEW t \in Tasks PROVE TaskOK(t)'
  BY DEF IInv, TypeOK, TaskInv, TaskOK, Absent, Waits, RunsOwnCode, RunsKernelCode
<1>5. CpuInv'
  BY DEF IInv, CpuInv
<1>. QED  BY <1>1, <1>2, <1>3, <1>4, <1>5 DEF IInv, TaskInv

(* IF is restored from what was saved.                                     *)
LEMMA ConsoleLeaveInv ==
  ASSUME Configured, NEW u \in Tasks, IInv, ConsoleLeave(u)
  PROVE  IInv'
<1>. USE SizesAssumption, PriorityAssumption, YieldersAssumption DEF Configured, ConsoleLeave, Runs
<1>1. TypeOK'
  BY DEF IInv, TypeOK, ThreadPcs
<1>2. TableInv'
  BY DEF IInv, TableInv, Created
<1>3. BootInv'
  BY DEF IInv, BootInv
<1>4. ASSUME NEW t \in Tasks PROVE TaskOK(t)'
  BY DEF IInv, TypeOK, TaskInv, TaskOK, Absent, Waits, RunsOwnCode, RunsKernelCode
<1>5. CpuInv'
  BY DEF IInv, CpuInv
<1>. QED  BY <1>1, <1>2, <1>3, <1>4, <1>5 DEF IInv, TaskInv

(* The frame pushed at the int holds the IF of a yielding thread, which is *)
(* set.                                                                    *)
LEMMA SyscallYieldInv ==
  ASSUME Configured, NEW u \in Tasks, IInv, SyscallYield(u)
  PROVE  IInv'
<1>. USE SizesAssumption, PriorityAssumption, YieldersAssumption DEF Configured, SyscallYield, Runs
<1>1. TypeOK'
  BY DEF IInv, TypeOK, BootPcs, ThreadPcs, KernelPcs, States
<1>2. TableInv'
  BY DEF IInv, TableInv, Created
<1>3. BootInv'
  BY DEF IInv, BootInv
<1>4. ASSUME NEW t \in Tasks PROVE TaskOK(t)'
  BY DEF IInv, TypeOK, TaskInv, TaskOK, Absent, Waits, RunsOwnCode, RunsKernelCode
<1>5. CpuInv'
  BY DEF IInv, TypeOK, BootInv, TaskInv, TaskOK, CpuInv, IsCandidate
<1>. QED  BY <1>1, <1>2, <1>3, <1>4, <1>5 DEF IInv, TaskInv

(* Every step of the CPU and of the timer.                                 *)
LEMMA NextInv ==
  ASSUME Configured, IInv, [Next]_vars
  PROVE  IInv'
<1>1. CASE UNCHANGED vars
  <2>1. TypeOK'
    BY <1>1 DEF IInv, TypeOK
  <2>2. TableInv' /\ BootInv'
    BY <1>1 DEF IInv, TableInv, BootInv, Created
  <2>3. TaskInv'
    BY <1>1 DEF IInv, TaskInv, TaskOK, Absent, Waits, RunsOwnCode, RunsKernelCode
  <2>4. CpuInv'
    BY <1>1 DEF IInv, CpuInv, IsCandidate
  <2>. QED  BY <2>1, <2>2, <2>3, <2>4 DEF IInv
<1>2. CASE TimerFires
  BY <1>2, TimerFiresInv
<1>3. CASE Interrupt
  BY <1>3, InterruptInv
<1>4. CASE KernelStep
  BY <1>4, SendEoiInv, ClockCountInv, InterruptExitInv, ScheduleEntryInv,
     SearchStepInv, SchedulePickInv, TaskSwitchInv DEF KernelStep
<1>5. CASE BootStep
  BY <1>5, ClockInitInv, TaskTableSetupInv, TaskCreateInv, SyscallInitInv,
     BootStiInv DEF BootStep
<1>6. ASSUME NEW u \in Tasks, ThreadStep(u) PROVE IInv'
  BY <1>6, ThreadStartInv, VsprintfInv, ConsoleEnterInv, ConsoleLeaveInv,
     SyscallYieldInv DEF ThreadStep
<1>. QED  BY <1>1, <1>2, <1>3, <1>4, <1>5, <1>6 DEF Next, CpuStep

(* The boot context starts alone, with interrupts off.                     *)
LEMMA InitInv ==
  ASSUME Configured, Init
  PROVE  IInv
<1>. USE SizesAssumption DEF Configured, Init
<1>1. TypeOK
  <2>1. state \in [Contexts -> States]
    BY DEF States
  <2>2. pc \in [Contexts -> BootPcs \cup ThreadPcs] /\ kpc \in KernelPcs
    BY DEF BootPcs, ThreadPcs, KernelPcs
  <2>3. /\ eflags \in [Contexts -> BOOLEAN] /\ saved_if \in [Contexts -> BOOLEAN]
        /\ magic \in [Contexts -> BOOLEAN]
    OBVIOUS
  <2>4. /\ frame \in [Contexts -> {"none", "thread", "schedule"}]
        /\ task_table \in [Slots -> Tasks \cup {NULL}]
    OBVIOUS
  <2>5. /\ ticks \in [Contexts -> 0 .. WORD - 1] /\ jif \in [Contexts -> 0 .. WORD - 1]
        /\ jiffies \in 0 .. WORD - 1 /\ slot \in 0 .. NUM_TASKS
    OBVIOUS
  <2>. QED  BY <2>1, <2>2, <2>3, <2>4, <2>5 DEF TypeOK
<1>2. TableInv
  BY DEF TableInv, Created
<1>3. BootInv
  BY DEF BootInv, BootPcs
<1>4. ASSUME NEW t \in Tasks PROVE TaskOK(t)
  BY DEF TaskOK, Absent
<1>5. CpuInv
  BY DEF CpuInv
<1>. QED  BY <1>1, <1>2, <1>3, <1>4, <1>5 DEF IInv, TaskInv

(* With at least two tasks and room for them in task_table, the inductive  *)
(* invariant holds in every state the kernel reaches.                      *)
THEOREM Invariance ==
  ASSUME Configured
  PROVE  Spec => []IInv
<1>1. Init => IInv
  BY InitInv
<1>2. IInv /\ [Next]_vars => IInv'
  BY NextInv
<1>. QED  BY <1>1, <1>2, PTL DEF Spec

(* The variables keep their types: in particular ticks and jiffies stay in *)
(* the range of uint32_t and no context is ever running that does not exist.*)
THEOREM TypeCorrectness ==
  ASSUME Configured
  PROVE  Spec => []TypeOK
<1>1. IInv => TypeOK
  BY DEF IInv
<1>. QED  BY <1>1, Invariance, PTL

(* No assertion fails and nothing panics, for any number of tasks from two *)
(* up to the size of task_table, any priorities and any mix of tasks that  *)
(* yield: schedule always finds a task to run.                             *)
THEOREM Survives ==
  ASSUME Configured
  PROVE  Spec => []NeverHalts
<1>1. IInv => NeverHalts
  BY DEF IInv, CpuInv, NeverHalts
<1>. QED  BY <1>1, Invariance, PTL

(* Interrupt, system call and scheduling code never runs with interrupts   *)
(* on, although task_switch does not switch EFLAGS.                        *)
THEOREM KernelAtomicity ==
  ASSUME Configured
  PROVE  Spec => []KernelUninterruptible
<1>1. IInv => KernelUninterruptible
  BY DEF IInv, CpuInv, KernelUninterruptible
<1>. QED  BY <1>1, Invariance, PTL

(* The states in the PCBs name exactly the task that has the CPU.          *)
THEOREM RunningTaskUnique ==
  ASSUME Configured
  PROVE  Spec => []OneRunning
<1>1. IInv => OneRunning
  <2>1. SUFFICES ASSUME IInv PROVE OneRunning
    OBVIOUS
  <2>2. CASE kpc = "switch"
    BY <2>1, <2>2 DEF IInv, CpuInv, OneRunning
  <2>3. CASE kpc # "switch"
    BY <2>1, <2>3 DEF IInv, CpuInv, OneRunning
  <2>. QED  BY <2>2, <2>3
<1>. QED  BY <1>1, Invariance, PTL

(* The decrement of ticks in clock_handler never wraps, and no task has    *)
(* more than its priority.                                                 *)
THEOREM QuantumBounds ==
  ASSUME Configured
  PROVE  Spec => []QuantumInRange
<1>1. IInv => QuantumInRange
  BY DEF IInv, TableInv, TaskInv, TaskOK, QuantumInRange
<1>. QED  BY <1>1, Invariance, PTL

(* Mutual exclusion in console_write, by interrupts alone.                 *)
THEOREM ConsoleMutualExclusion ==
  ASSUME Configured
  PROVE  Spec => []ConsoleExclusive
<1>1. IInv => ConsoleExclusive
  BY DEF IInv, TaskInv, TaskOK, Absent, Waits, RunsOwnCode, RunsKernelCode,
         ConsoleExclusive
<1>. QED  BY <1>1, Invariance, PTL

(* Whoever waits for the CPU will have interrupts on once it runs again.   *)
THEOREM WaitersResumeInterruptible ==
  ASSUME Configured
  PROVE  Spec => []ResumesInterruptible
<1>1. IInv => ResumesInterruptible
  BY DEF IInv, TableInv, TaskInv, TaskOK, Waits, ResumesInterruptible
<1>. QED  BY <1>1, Invariance, PTL

(* No switch leaves the clock interrupt in service.                        *)
THEOREM AcknowledgeFirst ==
  ASSUME Configured
  PROVE  Spec => []AcknowledgedBeforeSwitch
<1>1. IInv => AcknowledgedBeforeSwitch
  BY DEF IInv, CpuInv, AcknowledgedBeforeSwitch
<1>. QED  BY <1>1, Invariance, PTL

(* The first tick ends the boot context for good.                          *)
THEOREM BootNeverReturns ==
  ASSUME Configured
  PROVE  Spec => BootAbandoned
<1>1. IInv /\ [Next]_vars => (cur # Boot => cur' # Boot)
  <2>1. SUFFICES ASSUME IInv, [Next]_vars, cur' # cur PROVE cur' # Boot
    OBVIOUS
  <2>2. TaskSwitch
    BY <2>1 DEF Next, CpuStep, KernelStep, BootStep, ThreadStep, TimerFires,
      Interrupt, SendEoi, ClockCount, InterruptExit, ScheduleEntry, SearchStep,
      SchedulePick, ClockInit, TaskTableSetup, TaskCreate, SyscallInit, BootSti,
      ThreadStart, Vsprintf, ConsoleEnter, ConsoleLeave, SyscallYield
  <2>. QED  BY <2>1, <2>2 DEF TaskSwitch, IInv, CpuInv
<1>. QED  BY <1>1, Invariance, PTL DEF Spec, BootAbandoned

(* A task that does not yield is switched out only by its last tick, with  *)
(* a full quantum for the next time.                                       *)
THEOREM PreemptionAtQuantumEnd ==
  ASSUME Configured
  PROVE  Spec => PreemptedOnlyAtQuantumEnd
<1>1. IInv /\ [Next]_vars =>
        \A t \in Tasks \ Yielders :
          cur = t /\ cur' # t => ticks[t] = Priority[t] /\ eflags[t]
  <2>1. SUFFICES ASSUME IInv, [Next]_vars, NEW t \in Tasks \ Yielders, cur = t, cur' # t
                 PROVE  ticks[t] = Priority[t] /\ eflags[t]
    OBVIOUS
  <2>2. TaskSwitch
    BY <2>1 DEF Next, CpuStep, KernelStep, BootStep, ThreadStep, TimerFires,
      Interrupt, SendEoi, ClockCount, InterruptExit, ScheduleEntry, SearchStep,
      SchedulePick, ClockInit, TaskTableSetup, TaskCreate, SyscallInit, BootSti,
      ThreadStart, Vsprintf, ConsoleEnter, ConsoleLeave, SyscallYield
  <2>. QED  BY <2>1, <2>2 DEF TaskSwitch, IInv, CpuInv, TaskInv, TaskOK, Absent,
                              RunsKernelCode
<1>. QED  BY <1>1, Invariance, PTL DEF Spec, PreemptedOnlyAtQuantumEnd
=============================================================================
