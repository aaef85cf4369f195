----------------------------- MODULE PolicyProofs -----------------------------
(***************************************************************************)
(* Scheduler implements TaskPolicy and, while jiffies does not wrap,       *)
(* RankedPolicy, for every number of tasks from two to the size of the     *)
(* table.                                                                  *)
(*                                                                         *)
(* The boot context's only tick and the loop over task_table carry the     *)
(* argument: SearchInv says that after some turns of the loop "found" is   *)
(* what TaskPolicy's Search makes of as many tasks.                        *)
(***************************************************************************)
EXTENDS MCSchedulerPolicy, SchedulerProofs

TS == INSTANCE TaskSearchProofs

USE DEF NULL, Boot, Tasks, Slots, Contexts, cpu, stack, pic, pcb, vars

(* What TaskPolicy sees of the scheduler's state.                          *)
PolicyCur == IF kpc = "switch" THEN found ELSE cur
PolicyTicks == [t \in Tasks |-> IF Created(t) THEN ticks[t] ELSE Priority[t]]
PolicyJif == [t \in Tasks |-> jif[t]]
Rescheduling == kpc \in {"schedule", "search"}

(* The boot context has one tick until the first is counted.               *)
BootTick ==
  /\ cur = Boot => kpc # "exit"
  /\ cur = Boot /\ pc[Boot] \notin {"clock_init", "setup"}
       /\ kpc \in {"none", "eoi", "count"} => ticks[Boot] = 1

(* A search has come as far as the tasks in the slots it has passed.       *)
SearchInv ==
  kpc = "search" =>
    found = TS!Scan(cur, PolicyTicks, PolicyJif)[IF slot < NumTasks THEN slot ELSE NumTasks]

(* Nobody has written the last tick of a task that does not exist.         *)
FirstJif == \A t \in Tasks : ~magic[t] => jif[t] = 0

PolicyInv == BootTick /\ SearchInv /\ FirstJif

-----------------------------------------------------------------------------
(* A task exists when its page has the magic number; from the idle loop on *)
(* all do.                                                                 *)
LEMMA AllCreated ==
  ASSUME Configured, IInv, kpc # "none" \/ cur # Boot, NEW t \in Tasks
  PROVE  magic[t] /\ Created(t) /\ pc[Boot] = "idle"
<1>1. pc[Boot] = "idle"
  BY DEF IInv, BootInv
<1>2. magic[t]
  BY <1>1 DEF IInv, BootInv
<1>. QED  BY <1>1, <1>2 DEF IInv, TableInv

LEMMA ScanStep ==
  ASSUME NEW c, NEW tk, NEW jf
  PROVE  /\ TS!Scan(c, tk, jf)[0] = NULL
         /\ \A n \in Tasks :
              /\ TS!Scan(c, tk, jf)[n] =
                   LET b == TS!Scan(c, tk, jf)[n - 1]
                   IN  IF n # c /\ (b = NULL \/ tk[b] < tk[n] \/ jf[n] < jf[b])
                       THEN n ELSE b
              /\ TS!Scan(c, tk, jf)[n - 1] \in Tasks \cup {NULL}
<1>1. TS!NumTasksAssumption
  BY SizesAssumption DEF TS!NumTasksAssumption
<1>2. TS!IsScan(TS!Scan(c, tk, jf), NumTasks, c, tk, jf)
  BY <1>1, TS!ScanDef
<1>. QED  BY <1>2, SizesAssumption DEF TS!IsScan, TS!Wins, TS!NULL, TS!Tasks

(* The slot of a task holds it, and there is nothing in the others.        *)
LEMMA TableFilled ==
  ASSUME Configured, IInv, kpc # "none", NEW s \in Slots
  PROVE  task_table[s] = IF s < NumTasks THEN s + 1 ELSE NULL
<1>. USE SizesAssumption
<1>1. task_table[s] \in {NULL, s + 1} /\ task_table[s] \in Tasks \cup {NULL}
  BY DEF IInv, TableInv, TypeOK
<1>2. CASE s < NumTasks
  <2>1. s + 1 \in Tasks
    BY <1>2
  <2>2. PICK r \in Slots : task_table[r] = s + 1
    BY <2>1, AllCreated DEF Created
  <2>3. r = s
    BY <2>2 DEF IInv, TableInv
  <2>. QED  BY <1>2, <2>2, <2>3
<1>3. CASE ~(s < NumTasks)
  BY <1>1, <1>3
<1>. QED  BY <1>2, <1>3

(* One turn of the loop is one turn of the scan.                           *)
LEMMA SearchStepPolicy ==
  ASSUME Configured, IInv, PolicyInv, SearchStep
  PROVE  SearchInv'
<1>. USE SizesAssumption DEF Configured
<1>. DEFINE scan == TS!Scan(cur, PolicyTicks, PolicyJif)
<1>1. /\ kpc = "search" /\ slot \in Slots /\ slot' = slot + 1 /\ kpc' = "search"
      /\ found \in Tasks \cup {NULL}
  BY DEF SearchStep, IInv, TypeOK
<1>2. PolicyTicks' = PolicyTicks /\ PolicyJif' = PolicyJif /\ cur' = cur
  BY DEF SearchStep, PolicyTicks, PolicyJif, Created
<1>3. TS!Scan(cur, PolicyTicks, PolicyJif)' = scan
  BY <1>2 DEF TS!Scan
<1>4. task_table[slot] = IF slot < NumTasks THEN slot + 1 ELSE NULL
  BY <1>1, TableFilled
<1>5. CASE slot < NumTasks
  <2>. DEFINE n == slot + 1
  <2>1. n \in Tasks /\ n - 1 = slot /\ task_table[slot] = n /\ found = scan[slot]
    BY <1>1, <1>4, <1>5 DEF PolicyInv, SearchInv
  <2>2. IsCandidate(n) <=> n # cur
    <3>1. magic[n]
      BY <1>1, <2>1, AllCreated
    <3>2. TaskOK(n) /\ (state[n] = "RUNNING" <=> n = cur)
      BY <1>1, <2>1 DEF IInv, TaskInv, CpuInv
    <3>. QED  BY <2>1, <3>1, <3>2 DEF IsCandidate, TaskOK
  <2>3. \A t \in Tasks : PolicyTicks[t] = ticks[t] /\ PolicyJif[t] = jif[t]
    BY <1>1, AllCreated DEF PolicyTicks, PolicyJif
  <2>4. Better(n, found) <=> found = NULL \/ PolicyTicks[found] < PolicyTicks[n]
                                          \/ PolicyJif[n] < PolicyJif[found]
    BY <1>1, <2>1, <2>3 DEF Better
  <2>5. found' = IF n # cur /\ Better(n, found) THEN n ELSE found
    BY <2>1, <2>2 DEF SearchStep
  <2>6. scan[n] = IF n # cur /\ Better(n, found) THEN n ELSE found
    <3>. HIDE DEF n
    <3>. QED  BY <2>1, <2>4, ScanStep
  <2>7. (IF slot' < NumTasks THEN slot' ELSE NumTasks) = n
    BY <1>1, <1>5
  <2>. QED  BY <1>3, <2>5, <2>6, <2>7 DEF SearchInv
<1>6. CASE ~ (slot < NumTasks)
  <2>1. found' = found
    BY <1>4, <1>6 DEF SearchStep, IsCandidate
  <2>2. (IF slot' < NumTasks THEN slot' ELSE NumTasks) = (IF slot < NumTasks THEN slot ELSE NumTasks)
    BY <1>1, <1>6
  <2>. QED  BY <1>1, <1>3, <2>1, <2>2 DEF PolicyInv, SearchInv
<1>. QED  BY <1>5, <1>6

LEMMA PolicyStutter ==
  ASSUME PolicyCur' = PolicyCur, PolicyTicks' = PolicyTicks, PolicyJif' = PolicyJif,
         jiffies' = jiffies, Rescheduling' = Rescheduling
  PROVE  UNCHANGED Policy!vars
BY DEF Policy!vars, PolicyCur, PolicyTicks, PolicyJif, Rescheduling

(* The turns of the loop decide nothing yet.                               *)
LEMMA SearchStepMaps ==
  ASSUME Configured, IInv, PolicyInv, SearchStep
  PROVE  PolicyInv' /\ UNCHANGED Policy!vars
<1>1. /\ kpc' = kpc /\ kpc = "search"
      /\ UNCHANGED <<cur, pc, task_table, ticks, jif, magic, jiffies>>
  BY DEF SearchStep
<1>2. SearchInv'
  BY SearchStepPolicy
<1>3. BootTick' /\ FirstJif'
  BY <1>1 DEF PolicyInv, BootTick, FirstJif
<1>4. UNCHANGED Policy!vars
  BY <1>1, PolicyStutter DEF PolicyCur, PolicyTicks, PolicyJif, Rescheduling, Created
<1>. QED  BY <1>2, <1>3, <1>4 DEF PolicyInv

(* What the interrupt's entry and exit, the contexts' own code and the     *)
(* hardware do is no business of the policy.                               *)
Quiet ==
  /\ UNCHANGED <<cur, found, slot, task_table, ticks, jif, magic, jiffies>>
  /\ \/ kpc' = kpc
     \/ kpc \in {"none", "eoi", "exit"} /\ kpc' \in {"none", "eoi", "count"}
  /\ pc[Boot] \in {"clock_init", "setup"} => pc'[Boot] \in {"clock_init", "setup"}

LEMMA QuietMaps ==
  ASSUME PolicyInv, Quiet
  PROVE  PolicyInv' /\ UNCHANGED Policy!vars
<1>1. PolicyTicks' = PolicyTicks /\ PolicyJif' = PolicyJif
  BY DEF Quiet, PolicyTicks, PolicyJif, Created
<1>2. SearchInv'
  BY <1>1 DEF Quiet, PolicyInv, SearchInv, TS!Scan
<1>3. BootTick'
  BY DEF Quiet, PolicyInv, BootTick
<1>4. FirstJif'
  BY DEF Quiet, PolicyInv, FirstJif
<1>5. PolicyCur' = PolicyCur /\ Rescheduling' = Rescheduling
  BY DEF Quiet, PolicyCur, Rescheduling
<1>. QED  BY <1>1, <1>2, <1>3, <1>4, <1>5, PolicyStutter DEF Quiet, PolicyInv

LEMMA QuietSteps ==
  ASSUME IInv, \/ TimerFires \/ Interrupt \/ SendEoi \/ InterruptExit
               \/ ClockInit \/ SyscallInit \/ BootSti
               \/ \E t \in Tasks : ThreadStart(t) \/ Vsprintf(t) \/ ConsoleEnter(t) \/ ConsoleLeave(t)
  PROVE  Quiet
<1>1. CASE TimerFires
  BY <1>1 DEF TimerFires, Quiet
<1>2. CASE Interrupt
  BY <1>2 DEF Interrupt, Quiet
<1>3. CASE SendEoi
  BY <1>3 DEF SendEoi, Quiet
<1>4. CASE InterruptExit
  BY <1>4 DEF InterruptExit, Quiet
<1>5. CASE ClockInit
  BY <1>5 DEF ClockInit, Runs, Quiet, IInv, TypeOK
<1>6. CASE SyscallInit
  BY <1>6 DEF SyscallInit, Runs, Quiet, IInv, TypeOK
<1>7. CASE BootSti
  BY <1>7 DEF BootSti, Runs, Quiet, IInv, TypeOK
<1>8. ASSUME NEW t \in Tasks, ThreadStart(t) \/ Vsprintf(t) \/ ConsoleEnter(t) \/ ConsoleLeave(t)
      PROVE  Quiet
  <2>1. pc'[Boot] = pc[Boot]
    BY <1>8 DEF ThreadStart, Vsprintf, ConsoleEnter, ConsoleLeave, IInv, TypeOK
  <2>. QED  BY <1>8, <2>1 DEF ThreadStart, Vsprintf, ConsoleEnter, ConsoleLeave, Quiet
<1>. QED  BY <1>1, <1>2, <1>3, <1>4, <1>5, <1>6, <1>7, <1>8

(* A task is created with the ticks the policy has seen all along.         *)
LEMMA TaskCreateMaps ==
  ASSUME Configured, IInv, PolicyInv, NEW u \in Tasks, TaskCreate(u)
  PROVE  PolicyInv' /\ UNCHANGED Policy!vars
<1>1. /\ pc[Boot] = "create" /\ ~magic[u] /\ task_table[u - 1] = NULL
      /\ task_table' = [task_table EXCEPT ![u - 1] = u]
      /\ ticks' = [ticks EXCEPT ![u] = Priority[u]]
      /\ jif' = [jif EXCEPT ![u] = 0]
      /\ magic' = [magic EXCEPT ![u] = TRUE]
      /\ UNCHANGED <<cur, kpc, slot, found, jiffies>>
  BY SlotOfTask
<1>2. cur = Boot /\ kpc = "none"
  BY <1>1 DEF IInv, BootInv
<1>3. ASSUME NEW t \in Tasks
      PROVE  (Created(t)' <=> Created(t) \/ t = u) /\ ~Created(u)
  <2>1. u - 1 \in Slots /\ \A s \in Slots : task_table'[s] = IF s = u - 1 THEN u ELSE task_table[s]
    BY <1>1, SizesAssumption DEF IInv, TypeOK, Configured
  <2>2. ~Created(u)
    BY <1>1 DEF IInv, TableInv
  <2>3. CASE t = u
    BY <2>1, <2>2, <2>3 DEF Created
  <2>4. CASE t # u
    <3>1. Created(t)' => Created(t)
      BY <2>1, <2>4 DEF Created
    <3>2. Created(t) => Created(t)'
      BY <1>1, <2>1, <2>4 DEF Created
    <3>. QED  BY <2>2, <2>4, <3>1, <3>2
  <2>. QED  BY <2>3, <2>4
<1>4. PolicyTicks' = PolicyTicks
  <2>1. ASSUME NEW t \in Tasks
        PROVE  (IF Created(t) THEN ticks[t] ELSE Priority[t])'
                 = IF Created(t) THEN ticks[t] ELSE Priority[t]
    BY <1>1, <1>3 DEF IInv, TypeOK
  <2>. QED  BY <2>1 DEF PolicyTicks
<1>5. PolicyJif' = PolicyJif
  <2>1. jif[u] = 0
    BY <1>1 DEF PolicyInv, FirstJif
  <2>. QED  BY <1>1, <2>1 DEF PolicyJif, IInv, TypeOK
<1>6. FirstJif'
  BY <1>1 DEF PolicyInv, FirstJif, IInv, TypeOK
<1>7. BootTick' /\ SearchInv'
  BY <1>1, <1>2 DEF PolicyInv, BootTick, SearchInv, IInv, TypeOK
<1>. QED  BY <1>1, <1>4, <1>5, <1>6, <1>7, PolicyStutter DEF PolicyInv, PolicyCur, Rescheduling

(* Before the first task there is nobody to lose a slot.                   *)
LEMMA TaskTableSetupMaps ==
  ASSUME Configured, IInv, PolicyInv, TaskTableSetup
  PROVE  PolicyInv' /\ UNCHANGED Policy!vars
<1>1. /\ pc[Boot] = "setup" /\ kpc = "none" /\ cur = Boot /\ UNCHANGED <<cpu, jif, jiffies>>
      /\ ticks' = [ticks EXCEPT ![Boot] = 1] /\ magic' = [magic EXCEPT ![Boot] = TRUE]
  BY DEF TaskTableSetup, Runs
<1>2. ASSUME NEW t \in Tasks PROVE ~Created(t) /\ ~Created(t)'
  BY <1>1 DEF IInv, BootInv, TableInv, TaskTableSetup, Created
<1>3. PolicyTicks' = PolicyTicks /\ PolicyJif' = PolicyJif
  BY <1>1, <1>2 DEF PolicyTicks, PolicyJif
<1>4. PolicyInv'
  BY <1>1, SizesAssumption DEF PolicyInv, BootTick, SearchInv, FirstJif, IInv, TypeOK
<1>. QED  BY <1>1, <1>3, <1>4, PolicyStutter DEF PolicyCur, Rescheduling

-----------------------------------------------------------------------------
(* The three steps of TaskPolicy.                                          *)
LEMMA ScheduleEntryMaps ==
  ASSUME Configured, IInv, PolicyInv, ScheduleEntry
  PROVE  PolicyInv' /\ UNCHANGED Policy!vars
<1>1. /\ kpc = "schedule" /\ kpc' = "search" /\ slot' = 0 /\ found' = NULL
      /\ UNCHANGED <<cur, pc, task_table, ticks, jif, magic, jiffies>>
  BY DEF ScheduleEntry, IInv, CpuInv, stack, pcb
<1>2. PolicyTicks' = PolicyTicks /\ PolicyJif' = PolicyJif
  BY <1>1 DEF PolicyTicks, PolicyJif, Created
<1>3. SearchInv'
  <2>1. TS!Scan(cur, PolicyTicks, PolicyJif)' = TS!Scan(cur, PolicyTicks, PolicyJif)
    BY <1>1, <1>2 DEF TS!Scan
  <2>2. TS!Scan(cur, PolicyTicks, PolicyJif)[0] = NULL
    BY ScanStep
  <2>3. (IF slot' < NumTasks THEN slot' ELSE NumTasks) = 0
    BY <1>1, SizesAssumption
  <2>. QED  BY <1>1, <2>1, <2>2, <2>3 DEF SearchInv
<1>4. BootTick' /\ FirstJif'
  BY <1>1 DEF PolicyInv, BootTick, FirstJif
<1>. QED  BY <1>1, <1>2, <1>3, <1>4, PolicyStutter DEF PolicyInv, PolicyCur, Rescheduling

LEMMA SyscallYieldMaps ==
  ASSUME Configured, IInv, PolicyInv, NEW u \in Tasks, SyscallYield(u)
  PROVE  PolicyInv' /\ Policy!Yield
<1>1. /\ cur = u /\ kpc = "none" /\ pc[u] = "yield"
      /\ UNCHANGED <<cur, found, slot, task_table, ticks, jif, magic, jiffies>>
  BY DEF SyscallYield, Runs
<1>2. kpc' = "schedule" /\ u \in Yielders
  BY <1>1, AllCreated DEF SyscallYield, IInv, TaskInv, TaskOK, BootInv
<1>3. PolicyTicks' = PolicyTicks /\ PolicyJif' = PolicyJif
  BY <1>1 DEF PolicyTicks, PolicyJif, Created
<1>4. PolicyInv'
  BY <1>1, <1>2 DEF PolicyInv, BootTick, SearchInv, FirstJif
<1>. QED  BY <1>1, <1>2, <1>3, <1>4 DEF Policy!Yield, PolicyTicks, PolicyJif

(* The boot context has one tick, so that its first is its last.           *)
LEMMA ClockCountMaps ==
  ASSUME Configured, IInv, PolicyInv, ClockCount
  PROVE  PolicyInv' /\ Policy!Tick
<1>. USE SizesAssumption
<1>1. /\ kpc = "count" /\ UNCHANGED <<cur, found, slot, pc, task_table, magic>>
      /\ jiffies' = Inc(jiffies)
  BY DEF ClockCount
<1>2. magic[cur] /\ \A t \in Tasks : magic[t] /\ Created(t) /\ Created(t)'
  <2>1. \A t \in Tasks : magic[t] /\ Created(t) /\ pc[Boot] = "idle"
    BY <1>1, AllCreated
  <2>. QED  BY <1>1, <2>1 DEF IInv, TypeOK, BootInv, Created
<1>3. /\ jif' = [jif EXCEPT ![cur] = jiffies'] /\ ticks' = [ticks EXCEPT ![cur] = Dec(ticks[cur])]
      /\ kpc' = IF ticks'[cur] = 0 THEN "schedule" ELSE "exit"
  BY <1>2 DEF ClockCount
<1>4. jiffies < WORD /\ jiffies' = (jiffies + 1) % WORD /\ jiffies' \in 0 .. WORD - 1
  <2>1. jiffies \in 0 .. WORD - 1
    BY DEF IInv, TypeOK
  <2>2. CASE jiffies = WORD - 1
    <3>1. (jiffies + 1) % WORD = 0
      BY <2>2
    <3>. QED  BY <1>1, <2>1, <2>2, <3>1 DEF Inc
  <2>3. CASE jiffies # WORD - 1
    <3>1. jiffies + 1 \in 0 .. WORD - 1
      BY <2>1, <2>3
    <3>2. (jiffies + 1) % WORD = jiffies + 1
      BY <3>1
    <3>. QED  BY <1>1, <2>1, <2>3, <3>1, <3>2 DEF Inc
  <2>. QED  BY <2>2, <2>3
<1>5. /\ PolicyTicks = [t \in Tasks |-> ticks[t]] /\ PolicyTicks' = [t \in Tasks |-> ticks'[t]]
      /\ PolicyJif = [t \in Tasks |-> jif[t]] /\ PolicyJif' = [t \in Tasks |-> jif'[t]]
  BY <1>2 DEF PolicyTicks, PolicyJif
<1>6. CASE cur = Boot
  <2>1. ticks[Boot] = 1 /\ pc[Boot] = "idle"
    BY <1>1, <1>6, AllCreated DEF PolicyInv, BootTick, Configured
  <2>2. ticks'[Boot] = 0 /\ kpc' = "schedule"
    BY <1>3, <1>6, <2>1 DEF Dec, IInv, TypeOK
  <2>3. PolicyTicks' = PolicyTicks /\ PolicyJif' = PolicyJif
    BY <1>3, <1>5, <1>6 DEF IInv, TypeOK
  <2>4. PolicyInv'
    BY <1>1, <1>2, <2>2 DEF PolicyInv, BootTick, SearchInv, FirstJif
  <2>. QED  BY <1>1, <1>4, <1>6, <2>2, <2>3, <2>4 DEF Policy!Tick, Policy!Boot, PolicyTicks, PolicyJif
<1>7. CASE cur # Boot
  <2>1. cur \in Tasks /\ ticks[cur] \in 0 .. WORD - 1
    BY <1>7 DEF IInv, TypeOK
  <2>2. Dec(ticks[cur]) = (ticks[cur] - 1) % WORD
    BY <2>1 DEF Dec
  <2>3. PolicyTicks' = [PolicyTicks EXCEPT ![cur] = (PolicyTicks[cur] - 1) % WORD]
    BY <1>3, <1>5, <2>1, <2>2 DEF IInv, TypeOK
  <2>4. PolicyJif' = [PolicyJif EXCEPT ![cur] = jiffies']
    BY <1>3, <1>5, <2>1 DEF IInv, TypeOK
  <2>5. Rescheduling' = (PolicyTicks'[cur] = 0)
    <3>1. PolicyTicks'[cur] = ticks'[cur]
      BY <1>5, <2>1
    <3>. QED  BY <1>3, <3>1 DEF Rescheduling
  <2>6. PolicyInv'
    BY <1>1, <1>2, <1>3, <1>7 DEF PolicyInv, BootTick, SearchInv, FirstJif
  <2>7. PolicyCur = cur /\ PolicyCur' = cur /\ ~Rescheduling
    BY <1>1, <1>3 DEF PolicyCur, Rescheduling
  <2>8. Policy!Tick <=>
          /\ ~Rescheduling /\ jiffies < WORD
          /\ jiffies' = (jiffies + 1) % WORD
          /\ IF PolicyCur = Boot
             THEN Rescheduling' = TRUE /\ UNCHANGED <<PolicyTicks, PolicyJif>>
             ELSE /\ PolicyJif' = [PolicyJif EXCEPT ![PolicyCur] = jiffies']
                  /\ PolicyTicks' = [PolicyTicks EXCEPT
                                       ![PolicyCur] = (PolicyTicks[PolicyCur] - 1) % WORD]
                  /\ Rescheduling' = (PolicyTicks'[PolicyCur] = 0)
          /\ PolicyCur' = PolicyCur
    BY Zenon DEF Policy!Tick, Policy!Boot, PolicyTicks, PolicyJif, PolicyCur, Rescheduling
  <2>. QED  BY <1>4, <1>7, <2>3, <2>4, <2>5, <2>6, <2>7, <2>8, Zenon
<1>. QED  BY <1>6, <1>7

(* The loop is over: what it found is what the policy's search returns.    *)
LEMMA SchedulePickMaps ==
  ASSUME Configured, IInv, PolicyInv, SchedulePick
  PROVE  PolicyInv' /\ Policy!Schedule
<1>. USE SizesAssumption
<1>1. /\ kpc = "search" /\ slot = NUM_TASKS /\ IsTask(found) /\ found \in Tasks \ {cur}
  BY CandidateFound DEF SchedulePick
<1>2. kpc' = "switch" /\ UNCHANGED <<cur, found, slot, pc, task_table, jif, magic, jiffies>>
  BY <1>1 DEF SchedulePick
<1>3. found = Policy!Search(cur, PolicyTicks, PolicyJif)
  <2>1. found = TS!Scan(cur, PolicyTicks, PolicyJif)[NumTasks]
    BY <1>1 DEF PolicyInv, SearchInv, Configured
  <2>2. Policy!Search(cur, PolicyTicks, PolicyJif) = TS!Scan(cur, PolicyTicks, PolicyJif)[NumTasks]
    BY DEF Policy!Search, TS!Scan, Policy!NULL, TS!NULL
  <2>. QED  BY <2>1, <2>2
<1>4. \A t \in Tasks : magic[t] /\ Created(t) /\ Created(t)'
  BY <1>1, <1>2, AllCreated DEF Created
<1>5. /\ PolicyTicks = [t \in Tasks |-> ticks[t]] /\ PolicyTicks' = [t \in Tasks |-> ticks'[t]]
      /\ PolicyJif' = PolicyJif
  BY <1>2, <1>4 DEF PolicyTicks, PolicyJif
<1>6. \A t \in Tasks : ticks'[t] = IF t = cur /\ ticks[t] = 0 THEN Priority[t] ELSE ticks[t]
  <2>1. ticks \in [Contexts -> 0 .. WORD - 1] /\ cur \in Contexts
    BY DEF IInv, TypeOK
  <2>2. CASE ticks[cur] = 0 /\ cur \in Tasks
    <3>1. ticks' = [ticks EXCEPT ![cur] = Priority[cur]]
      BY <1>1, <2>2 DEF SchedulePick
    <3>. QED  BY <2>1, <2>2, <3>1
  <2>3. CASE ticks[cur] = 0 /\ cur = Boot
    <3>1. PICK garbage : ticks' = [ticks EXCEPT ![cur] = garbage]
      BY <1>1, <2>3 DEF SchedulePick
    <3>. QED  BY <2>1, <2>3, <3>1
  <2>4. CASE ticks[cur] # 0
    BY <1>1, <2>4 DEF SchedulePick
  <2>. QED  BY <2>1, <2>2, <2>3, <2>4
<1>7. PolicyTicks' = Policy!Refilled(PolicyTicks, cur, Priority)
  BY <1>5, <1>6 DEF Policy!Refilled, Policy!Tasks
<1>8. PolicyInv'
  BY <1>2, <1>4 DEF PolicyInv, BootTick, SearchInv, FirstJif
<1>9. /\ PolicyCur = cur /\ PolicyCur' = found /\ Rescheduling /\ ~Rescheduling'
      /\ found # Policy!NULL
  BY <1>1, <1>2 DEF PolicyCur, Rescheduling, Policy!NULL
<1>. QED  BY <1>2, <1>3, <1>5, <1>7, <1>8, <1>9
          DEF Policy!Schedule, PolicyTicks, PolicyJif, PolicyCur, Rescheduling

(* The stack switch follows the choice.                                    *)
LEMMA TaskSwitchMaps ==
  ASSUME Configured, IInv, PolicyInv, TaskSwitch
  PROVE  PolicyInv' /\ UNCHANGED Policy!vars
<1>1. /\ kpc = "switch" /\ cur' = found /\ kpc' \in {"exit", "none", "halt"}
      /\ UNCHANGED <<found, slot, pc, task_table, ticks, jif, magic, jiffies>>
  BY DEF TaskSwitch
<1>2. found \in Tasks
  BY <1>1 DEF IInv, CpuInv
<1>3. PolicyTicks' = PolicyTicks /\ PolicyJif' = PolicyJif
  BY <1>1 DEF PolicyTicks, PolicyJif, Created
<1>4. PolicyInv'
  BY <1>1, <1>2, SizesAssumption DEF PolicyInv, BootTick, SearchInv, FirstJif
<1>. QED  BY <1>1, <1>3, <1>4, PolicyStutter DEF PolicyCur, Rescheduling

-----------------------------------------------------------------------------
LEMMA NextMaps ==
  ASSUME Configured, IInv, PolicyInv, [Next]_vars
  PROVE  PolicyInv' /\ [Policy!Next]_(Policy!vars)
<1>1. CASE UNCHANGED vars
  <2>1. Quiet
    BY <1>1 DEF Quiet
  <2>. QED  BY <2>1, QuietMaps
<1>2. CASE TimerFires \/ Interrupt
  BY <1>2, QuietSteps, QuietMaps
<1>3. CASE KernelStep
  <2>1. CASE SendEoi \/ InterruptExit
    BY <2>1, QuietSteps, QuietMaps
  <2>2. CASE ClockCount
    BY <2>2, ClockCountMaps DEF Policy!Next
  <2>3. CASE ScheduleEntry \/ SearchStep \/ TaskSwitch
    BY <2>3, ScheduleEntryMaps, SearchStepMaps, TaskSwitchMaps
  <2>4. CASE SchedulePick
    BY <2>4, SchedulePickMaps DEF Policy!Next
  <2>. QED  BY <1>3, <2>1, <2>2, <2>3, <2>4 DEF KernelStep
<1>4. CASE BootStep
  <2>1. CASE ClockInit \/ SyscallInit \/ BootSti
    BY <2>1, QuietSteps, QuietMaps
  <2>. QED  BY <1>4, <2>1, TaskTableSetupMaps, TaskCreateMaps DEF BootStep
<1>5. ASSUME NEW t \in Tasks, ThreadStep(t)
      PROVE  PolicyInv' /\ [Policy!Next]_(Policy!vars)
  <2>1. CASE SyscallYield(t)
    BY <2>1, SyscallYieldMaps DEF Policy!Next
  <2>2. CASE ThreadStart(t) \/ Vsprintf(t) \/ ConsoleEnter(t) \/ ConsoleLeave(t)
    BY <2>2, QuietSteps, QuietMaps
  <2>. QED  BY <1>5, <2>1, <2>2 DEF ThreadStep
<1>. QED  BY <1>1, <1>2, <1>3, <1>4, <1>5 DEF Next, CpuStep

LEMMA InitMaps ==
  ASSUME Configured, Init
  PROVE  PolicyInv /\ Policy!Init
<1>. USE SizesAssumption, PriorityAssumption
<1>1. PolicyInv
  BY DEF Init, PolicyInv, BootTick, SearchInv, FirstJif
<1>2. \A t \in Tasks : ~Created(t)
  BY DEF Init, Created
<1>3. PolicyTicks = Priority /\ PolicyJif = [t \in Tasks |-> 0]
  BY <1>2 DEF Init, PolicyTicks, PolicyJif
<1>. QED  BY <1>1, <1>3 DEF Init, Policy!Init, Policy!Boot, Policy!Tasks, PolicyTicks, PolicyJif

(* Whatever the interrupts, the loop over task_table and the stack switch  *)
(* do between, the scheduler takes the decisions of TaskPolicy: a tick     *)
(* costs the running task one, and the task that schedule chooses is the   *)
(* one with more ticks or an older last tick, in table order.              *)
THEOREM SchedulerImplementsPolicy ==
  ASSUME Configured
  PROVE  Spec => ImplementsPolicy
<1>1. Init => PolicyInv /\ Policy!Init
  BY InitMaps
<1>2. IInv /\ PolicyInv /\ [Next]_vars => PolicyInv' /\ [Policy!Next]_(Policy!vars)
  BY NextMaps
<1>. QED  BY <1>1, <1>2, Invariance, PTL DEF Spec, ImplementsPolicy, Policy!Spec

-----------------------------------------------------------------------------
(* RankedPolicy.                                                           *)
NoWrap == ~ (kpc = "count" /\ jiffies = WORD - 1)

(* Until jiffies wraps no tick is later than now.                          *)
PastJif == \A t \in Tasks : jif[t] <= jiffies

LEMMA PastJifKept ==
  ASSUME Configured, IInv, PastJif, NoWrap, [Next]_vars
  PROVE  PastJif'
<1>. USE SizesAssumption
<1>0. jiffies \in Nat /\ \A t \in Tasks : jif[t] \in Nat
  BY DEF IInv, TypeOK, Contexts
<1>1. CASE ClockCount
  <2>1. jiffies' = jiffies + 1
    BY <1>1, <1>0 DEF ClockCount, Inc, NoWrap, IInv, TypeOK
  <2>2. \A t \in Tasks : jif'[t] = jif[t] \/ jif'[t] = jiffies'
    BY <1>1 DEF ClockCount, IInv, TypeOK
  <2>3. ASSUME NEW t \in Tasks PROVE jif'[t] <= jiffies'
    <3>1. jif[t] <= jiffies
      BY DEF PastJif
    <3>. QED  BY <1>0, <2>1, <2>2, <3>1
  <2>. QED  BY <2>3 DEF PastJif
<1>2. ASSUME NEW u \in Tasks, TaskCreate(u) PROVE PastJif'
  <2>1. jif' = [jif EXCEPT ![u] = 0] /\ jiffies' = jiffies
    BY <1>2, SlotOfTask
  <2>2. \A t \in Tasks : jif'[t] = jif[t] \/ jif'[t] = 0
    BY <2>1 DEF IInv, TypeOK
  <2>3. ASSUME NEW t \in Tasks PROVE jif'[t] <= jiffies'
    <3>1. jif[t] <= jiffies
      BY DEF PastJif
    <3>. QED  BY <1>0, <2>1, <2>2, <3>1
  <2>. QED  BY <2>3 DEF PastJif
<1>3. CASE UNCHANGED <<jif, jiffies>>
  BY <1>3 DEF PastJif
<1>4. CASE [Next]_vars /\ ~ClockCount /\ ~ \E u \in Tasks : TaskCreate(u)
  <2>1. UNCHANGED <<jif, jiffies>>
    <3>1. CASE UNCHANGED vars \/ TimerFires \/ Interrupt
      BY <3>1 DEF TimerFires, Interrupt
    <3>2. CASE KernelStep
      BY <1>4, <3>2 DEF KernelStep, SendEoi, InterruptExit, ScheduleEntry, SearchStep,
                        SchedulePick, TaskSwitch
    <3>3. CASE BootStep
      BY <1>4, <3>3 DEF BootStep, ClockInit, TaskTableSetup, SyscallInit, BootSti
    <3>4. ASSUME NEW t \in Tasks, ThreadStep(t) PROVE UNCHANGED <<jif, jiffies>>
      BY <3>4 DEF ThreadStep, ThreadStart, Vsprintf, ConsoleEnter, ConsoleLeave, SyscallYield
    <3>. QED  BY <1>4, <3>1, <3>2, <3>3, <3>4 DEF Next, CpuStep
  <2>. QED  BY <1>3, <2>1
<1>. QED  BY <1>1, <1>2, <1>4

LEMMA RankDefs ==
  ASSUME NEW c, NEW tk, NEW jf
  PROVE  /\ Policy!RankOf(jf) = TS!RankOf(jf) /\ Policy!Ranked!RankOf(jf) = TS!RankOf(jf)
         /\ Policy!Search(c, tk, jf) = TS!Search(c, tk, jf)
         /\ Policy!Ranked!Search(c, tk, jf) = TS!Search(c, tk, jf)
<1>1. Policy!RankOf(jf) = TS!RankOf(jf)
  <2>1. ASSUME NEW X PROVE Policy!Cardinality(X) = TS!Cardinality(X)
    BY Zenon DEF Policy!Cardinality, TS!Cardinality
  <2>. QED  BY <2>1 DEF Policy!RankOf, TS!RankOf, Policy!Tasks, TS!Tasks
<1>4. Policy!Ranked!RankOf(jf) = TS!RankOf(jf)
  <2>1. ASSUME NEW X PROVE Policy!Ranked!Cardinality(X) = TS!Cardinality(X)
    BY Zenon DEF Policy!Ranked!Cardinality, TS!Cardinality
  <2>. QED  BY <2>1 DEF Policy!Ranked!RankOf, TS!RankOf, Policy!Ranked!Tasks, TS!Tasks
<1>2. Policy!Search(c, tk, jf) = TS!Search(c, tk, jf)
  BY DEF Policy!Search, TS!Search, Policy!NULL, TS!NULL
<1>3. Policy!Ranked!Search(c, tk, jf) = TS!Search(c, tk, jf)
  BY DEF Policy!Ranked!Search, TS!Search, Policy!Ranked!NULL, TS!NULL
<1>. QED  BY <1>1, <1>2, <1>3, <1>4

(* What RankedPolicy sees.                                                 *)
PolicyRank == TS!RankOf(PolicyJif)

LEMMA RankedView ==
  /\ Policy!Ranked!Tick <=>
       /\ ~Rescheduling
       /\ IF PolicyCur = Boot
          THEN Rescheduling' = TRUE /\ UNCHANGED <<PolicyTicks, PolicyRank>>
          ELSE /\ PolicyRank' = TS!RankOf([PolicyRank EXCEPT ![PolicyCur] = NumTasks])
               /\ PolicyTicks' = [PolicyTicks EXCEPT ![PolicyCur] = PolicyTicks[PolicyCur] - 1]
               /\ Rescheduling' = (PolicyTicks'[PolicyCur] = 0)
       /\ UNCHANGED <<PolicyCur, Yielders>>
  /\ Policy!Ranked!Yield <=>
       /\ ~Rescheduling /\ PolicyCur \in Yielders
       /\ Rescheduling' = TRUE
       /\ UNCHANGED <<PolicyCur, PolicyTicks, PolicyRank, Yielders>>
  /\ Policy!Ranked!Schedule <=>
       /\ Rescheduling
       /\ PolicyCur' = TS!Search(PolicyCur, PolicyTicks, PolicyRank) /\ PolicyCur' # NULL
       /\ PolicyTicks' = TS!Refilled(PolicyTicks, PolicyCur, Priority)
       /\ Rescheduling' = FALSE
       /\ UNCHANGED <<PolicyRank, Yielders>>
  /\ Policy!Ranked!Init <=>
       /\ PolicyCur = Boot /\ PolicyTicks = Priority /\ PolicyRank = [t \in Tasks |-> 0]
       /\ Rescheduling = FALSE /\ Yielders \in {Yielders}
  /\ UNCHANGED <<PolicyCur, PolicyTicks, PolicyRank, Rescheduling>>
       => UNCHANGED Policy!Ranked!vars
<1>1. Policy!RankOf(PolicyJif) = PolicyRank
  BY RankDefs DEF PolicyRank
<1>2. Policy!Ranked!RankOf([PolicyRank EXCEPT ![PolicyCur] = NumTasks])
        = TS!RankOf([PolicyRank EXCEPT ![PolicyCur] = NumTasks])
  BY RankDefs
<1>3. Policy!Ranked!Search(PolicyCur, PolicyTicks, PolicyRank)
        = TS!Search(PolicyCur, PolicyTicks, PolicyRank)
  BY RankDefs
<1>4. Policy!Ranked!Refilled(PolicyTicks, PolicyCur, Priority)
        = TS!Refilled(PolicyTicks, PolicyCur, Priority)
  BY Zenon DEF Policy!Ranked!Refilled, TS!Refilled, Policy!Ranked!Tasks, TS!Tasks
<1>5. Policy!RankOf(PolicyJif') = PolicyRank'
  BY RankDefs DEF PolicyRank
<1>6. Policy!Ranked!Boot = Boot /\ Policy!Ranked!NULL = NULL /\ Policy!Ranked!Tasks = Tasks
  BY DEF Policy!Ranked!Boot, Policy!Ranked!Tasks, Policy!Ranked!NULL
<1>7. Policy!Ranked!Tick <=>
       /\ ~Rescheduling
       /\ IF PolicyCur = Boot
          THEN Rescheduling' = TRUE /\ UNCHANGED <<PolicyTicks, PolicyRank>>
          ELSE /\ PolicyRank' = TS!RankOf([PolicyRank EXCEPT ![PolicyCur] = NumTasks])
               /\ PolicyTicks' = [PolicyTicks EXCEPT ![PolicyCur] = PolicyTicks[PolicyCur] - 1]
               /\ Rescheduling' = (PolicyTicks'[PolicyCur] = 0)
       /\ UNCHANGED <<PolicyCur, Yielders>>
  BY <1>1, <1>2, <1>5, <1>6, Zenon
     DEF Policy!Ranked!Tick, PolicyTicks, PolicyJif, PolicyCur, Rescheduling
<1>8. Policy!Ranked!Yield <=>
       /\ ~Rescheduling /\ PolicyCur \in Yielders
       /\ Rescheduling' = TRUE
       /\ UNCHANGED <<PolicyCur, PolicyTicks, PolicyRank, Yielders>>
  BY <1>1, <1>5, Zenon
     DEF Policy!Ranked!Yield, PolicyTicks, PolicyJif, PolicyCur, Rescheduling
<1>9. Policy!Ranked!Schedule <=>
       /\ Rescheduling
       /\ PolicyCur' = TS!Search(PolicyCur, PolicyTicks, PolicyRank) /\ PolicyCur' # NULL
       /\ PolicyTicks' = TS!Refilled(PolicyTicks, PolicyCur, Priority)
       /\ Rescheduling' = FALSE
       /\ UNCHANGED <<PolicyRank, Yielders>>
  BY <1>1, <1>3, <1>4, <1>5, <1>6, Zenon
     DEF Policy!Ranked!Schedule, PolicyTicks, PolicyJif, PolicyCur, Rescheduling
<1>10. Policy!Ranked!Init <=>
       /\ PolicyCur = Boot /\ PolicyTicks = Priority /\ PolicyRank = [t \in Tasks |-> 0]
       /\ Rescheduling = FALSE /\ Yielders \in {Yielders}
  BY <1>1, <1>6, Zenon
     DEF Policy!Ranked!Init, PolicyTicks, PolicyJif, PolicyCur, Rescheduling
<1>11. UNCHANGED <<PolicyCur, PolicyTicks, PolicyRank, Rescheduling>>
         => UNCHANGED Policy!Ranked!vars
  BY <1>1, <1>5
     DEF Policy!Ranked!vars, PolicyTicks, PolicyJif, PolicyCur, Rescheduling
<1>. QED  BY <1>7, <1>8, <1>9, <1>10, <1>11

(* The times that the policy sees are numbers, none of them in the future. *)
LEMMA PolicyJifType ==
  ASSUME IInv
  PROVE  PolicyJif \in [Tasks -> 0 .. WORD - 1]
BY DEF IInv, TypeOK, PolicyJif

LEMMA TickRanked ==
  ASSUME Configured, IInv, PolicyInv, PastJif, NoWrap, ClockCount
  PROVE  Policy!Ranked!Tick
<1>. USE SizesAssumption
<1>0. TS!NumTasksAssumption
  BY SizesAssumption DEF TS!NumTasksAssumption
<1>1. Policy!Tick
  BY ClockCountMaps
<1>2. /\ ~Rescheduling /\ jiffies' = (jiffies + 1) % WORD
      /\ IF PolicyCur = Boot
         THEN Rescheduling' = TRUE /\ UNCHANGED <<PolicyTicks, PolicyJif>>
         ELSE /\ PolicyJif' = [PolicyJif EXCEPT ![PolicyCur] = jiffies']
              /\ PolicyTicks' = [PolicyTicks EXCEPT ![PolicyCur] = (PolicyTicks[PolicyCur] - 1) % WORD]
              /\ Rescheduling' = (PolicyTicks'[PolicyCur] = 0)
      /\ PolicyCur' = PolicyCur
  BY <1>1, Zenon DEF Policy!Tick, Policy!Boot, PolicyTicks, PolicyJif, PolicyCur, Rescheduling
<1>3. kpc = "count" /\ PolicyCur = cur /\ jiffies \in 0 .. WORD - 2
  BY DEF ClockCount, PolicyCur, NoWrap, IInv, TypeOK
<1>4. jiffies' = jiffies + 1
  <2>1. jiffies + 1 \in 0 .. WORD - 1
    BY <1>3
  <2>2. (jiffies + 1) % WORD = jiffies + 1
    BY <2>1
  <2>. QED  BY <1>2, <2>2
<1>5. CASE cur = Boot
  <2>1. PolicyRank' = PolicyRank
    BY <1>2, <1>3, <1>5 DEF PolicyRank, TS!RankOf, TS!Tasks
  <2>. QED  BY <1>2, <1>3, <1>5, <2>1, RankedView
<1>6. CASE cur # Boot
  <2>1. cur \in Tasks /\ PolicyTicks[cur] = ticks[cur]
    BY <1>3, <1>6, AllCreated DEF IInv, TypeOK, PolicyTicks
  <2>2. ticks[cur] \in 1 .. WORD - 1
    <3>1. magic[cur]
      BY <1>3, <2>1, AllCreated
    <3>. QED  BY <1>3, <2>1, <3>1 DEF IInv, TypeOK, TaskInv, TaskOK
  <2>3. (PolicyTicks[cur] - 1) % WORD = PolicyTicks[cur] - 1
    BY <2>1, <2>2
  <2>4. PolicyRank' = TS!RankOf([PolicyRank EXCEPT ![cur] = NumTasks])
    <3>1. PolicyJif \in [TS!Tasks -> Int] /\ cur \in TS!Tasks /\ jiffies + 1 \in Int
      BY <1>3, <2>1, PolicyJifType DEF TS!Tasks
    <3>2. \A t \in TS!Tasks : PolicyJif[t] < jiffies + 1
      <4>. SUFFICES ASSUME NEW t \in Tasks PROVE PolicyJif[t] < jiffies + 1
        BY DEF TS!Tasks
      <4>1. PolicyJif[t] = jif[t] /\ jif[t] <= jiffies /\ jif[t] \in Nat
        BY DEF PolicyJif, PastJif, IInv, TypeOK
      <4>. QED  BY <1>3, <4>1
    <3>3. TS!RankOf([PolicyJif EXCEPT ![cur] = jiffies + 1])
            = TS!RankOf([TS!RankOf(PolicyJif) EXCEPT ![cur] = NumTasks])
      BY <1>0, <3>1, <3>2, TS!RankOfLatest
    <3>4. PolicyJif' = [PolicyJif EXCEPT ![cur] = jiffies + 1]
      BY <1>2, <1>3, <1>4, <1>6
    <3>5. PolicyRank' = TS!RankOf(PolicyJif')
      BY DEF PolicyRank, TS!RankOf, TS!Tasks
    <3>. QED  BY <3>3, <3>4, <3>5, Zenon DEF PolicyRank
  <2>. QED  BY <1>2, <1>3, <1>6, <2>3, <2>4, RankedView, Zenon
<1>. QED  BY <1>5, <1>6

LEMMA ScheduleRanked ==
  ASSUME Configured, IInv, Policy!Schedule
  PROVE  Policy!Ranked!Schedule
<1>0. TS!NumTasksAssumption
  BY SizesAssumption DEF TS!NumTasksAssumption
<1>1. /\ Rescheduling
      /\ PolicyCur' = TS!Search(PolicyCur, PolicyTicks, PolicyJif) /\ PolicyCur' # NULL
      /\ PolicyTicks' = TS!Refilled(PolicyTicks, PolicyCur, Priority)
      /\ Rescheduling' = FALSE
      /\ PolicyJif' = PolicyJif
  <2>1. Policy!NULL = NULL
    BY DEF Policy!NULL
  <2>2. Policy!Search(PolicyCur, PolicyTicks, PolicyJif) = TS!Search(PolicyCur, PolicyTicks, PolicyJif)
    BY RankDefs
  <2>3. Policy!Refilled(PolicyTicks, PolicyCur, Priority) = TS!Refilled(PolicyTicks, PolicyCur, Priority)
    BY Zenon DEF Policy!Refilled, TS!Refilled, Policy!Tasks, TS!Tasks
  <2>. QED  BY <2>1, <2>2, <2>3, Zenon
            DEF Policy!Schedule, PolicyTicks, PolicyJif, PolicyCur, Rescheduling
<1>2. TS!Search(PolicyCur, PolicyTicks, PolicyJif) = TS!Search(PolicyCur, PolicyTicks, PolicyRank)
  <2>1. \A t \in TS!Tasks : PolicyJif[t] \in Int
    BY PolicyJifType, SizesAssumption DEF TS!Tasks
  <2>2. \A t, u \in TS!Tasks : PolicyJif[t] < PolicyJif[u] <=> PolicyRank[t] < PolicyRank[u]
    BY <1>0, <2>1, TS!RankOrder DEF PolicyRank
  <2>. QED  BY <1>0, <2>2, TS!SearchByOrder
<1>3. PolicyRank' = PolicyRank
  BY <1>1 DEF PolicyRank, TS!RankOf, TS!Tasks
<1>. QED  BY <1>1, <1>2, <1>3, RankedView, Zenon

LEMMA RankedMaps ==
  ASSUME Configured, IInv, PolicyInv, PastJif, NoWrap, [Next]_vars
  PROVE  [Policy!Ranked!Next]_(Policy!Ranked!vars)
<1>1. CASE ClockCount
  BY <1>1, TickRanked DEF Policy!Ranked!Next
<1>2. CASE ~ClockCount
  <2>1. jiffies' = jiffies
    <3>1. CASE UNCHANGED vars \/ TimerFires \/ Interrupt
      BY <3>1 DEF TimerFires, Interrupt
    <3>2. CASE KernelStep
      BY <1>2, <3>2 DEF KernelStep, SendEoi, InterruptExit, ScheduleEntry, SearchStep,
                        SchedulePick, TaskSwitch
    <3>3. CASE BootStep
      BY <3>3 DEF BootStep, ClockInit, TaskTableSetup, TaskCreate, SyscallInit, BootSti
    <3>4. ASSUME NEW t \in Tasks, ThreadStep(t) PROVE jiffies' = jiffies
      BY <3>4 DEF ThreadStep, ThreadStart, Vsprintf, ConsoleEnter, ConsoleLeave, SyscallYield
    <3>. QED  BY <3>1, <3>2, <3>3, <3>4 DEF Next, CpuStep
  <2>2. [Policy!Next]_(Policy!vars)
    BY NextMaps
  <2>3. ~Policy!Tick
    <3>1. (jiffies + 1) % WORD # jiffies
      <4>1. jiffies \in 0 .. WORD - 1
        BY DEF IInv, TypeOK
      <4>2. CASE jiffies = WORD - 1
        <5>1. (jiffies + 1) % WORD = 0
          BY <4>2, SizesAssumption
        <5>. QED  BY <4>2, <5>1, SizesAssumption
      <4>3. CASE jiffies # WORD - 1
        <5>1. jiffies + 1 \in 0 .. WORD - 1
          BY <4>1, <4>3, SizesAssumption
        <5>. QED  BY <4>1, <5>1, SizesAssumption
      <4>. QED  BY <4>2, <4>3
    <3>. QED  BY <2>1, <3>1 DEF Policy!Tick
  <2>4. CASE Policy!Yield
    <3>1. /\ ~Rescheduling /\ PolicyCur \in Yielders /\ Rescheduling' = TRUE
          /\ UNCHANGED <<PolicyCur, PolicyTicks, PolicyJif>>
      BY <2>4, Zenon DEF Policy!Yield, PolicyTicks, PolicyJif, PolicyCur, Rescheduling
    <3>2. PolicyRank' = PolicyRank
      BY <3>1 DEF PolicyRank, TS!RankOf, TS!Tasks
    <3>3. Policy!Ranked!Yield
      BY <3>1, <3>2, RankedView
    <3>. QED  BY <3>3 DEF Policy!Ranked!Next
  <2>5. CASE Policy!Schedule
    BY <2>5, ScheduleRanked DEF Policy!Ranked!Next
  <2>6. CASE UNCHANGED Policy!vars
    <3>1. UNCHANGED <<PolicyCur, PolicyTicks, PolicyJif, Rescheduling>>
      BY <2>6, Zenon DEF Policy!vars, PolicyTicks, PolicyJif, PolicyCur, Rescheduling
    <3>2. PolicyRank' = PolicyRank
      BY <3>1 DEF PolicyRank, TS!RankOf, TS!Tasks
    <3>. QED  BY <3>1, <3>2, RankedView
  <2>. QED  BY <2>2, <2>3, <2>4, <2>5, <2>6 DEF Policy!Next
<1>. QED  BY <1>1, <1>2

LEMMA RankedInit ==
  ASSUME Configured, Init
  PROVE  Policy!Ranked!Init /\ PastJif
<1>0. TS!NumTasksAssumption
  BY SizesAssumption DEF TS!NumTasksAssumption
<1>1. PolicyCur = Boot /\ PolicyTicks = Priority /\ PolicyJif = [t \in Tasks |-> 0] /\ ~Rescheduling
  <2>1. Policy!Init
    BY InitMaps
  <2>. QED  BY <2>1, Zenon
            DEF Policy!Init, Policy!Boot, Policy!Tasks, PolicyTicks, PolicyJif, PolicyCur, Rescheduling
<1>2. PolicyRank = [t \in Tasks |-> 0]
  <2>1. TS!RankOf([t \in TS!Tasks |-> 0]) = [t \in TS!Tasks |-> 0]
    <3>1. 0 \in Int
      OBVIOUS
    <3>. QED  BY <1>0, <3>1, TS!RankOfEqual
  <2>. QED  BY <1>1, <2>1 DEF PolicyRank, TS!Tasks
<1>3. PastJif
  BY DEF Init, PastJif
<1>. QED  BY <1>1, <1>2, <1>3, RankedView

(* Until jiffies wraps the scheduler also does what RankedPolicy says,     *)
(* which keeps the order of the tasks' last ticks and no times: the choice *)
(* task_search_in_table makes does not depend on the times themselves.     *)
THEOREM SchedulerImplementsRanked ==
  ASSUME Configured
  PROVE  Spec /\ []NoWrap => ImplementsRanked
<1>1. Init => PolicyInv /\ PastJif /\ Policy!Ranked!Init
  BY InitMaps, RankedInit
<1>2. IInv /\ PolicyInv /\ PastJif /\ NoWrap /\ [Next]_vars
        => PolicyInv' /\ PastJif' /\ [Policy!Ranked!Next]_(Policy!Ranked!vars)
  BY NextMaps, PastJifKept, RankedMaps
<1>. QED  BY <1>1, <1>2, Invariance, PTL DEF Spec, ImplementsRanked, Policy!Ranked!Spec

(* A request is pending or being handled only for a tick below the bound.  *)
ClockBound ==
  /\ irr => jiffies <= MaxJiffies
  /\ kpc \in {"eoi", "count"} => jiffies <= MaxJiffies /\ (irr => jiffies < MaxJiffies)

LEMMA ClockBoundKept ==
  ASSUME IInv, MaxJiffies < WORD - 1, ClockBound, [Next]_vars
  PROVE  ClockBound'
<1>. USE SizesAssumption
<1>1. jiffies \in 0 .. WORD - 1
  BY DEF IInv, TypeOK
<1>2. CASE UNCHANGED vars \/ TimerFires \/ Interrupt
  BY <1>1, <1>2 DEF TimerFires, Interrupt, Deliverable, ClockBound
<1>3. CASE ClockCount
  <2>1. kpc = "count" /\ jiffies' = Inc(jiffies) /\ irr' = irr /\ kpc' \in {"halt", "schedule", "exit"}
    BY <1>3 DEF ClockCount
  <2>. QED  BY <1>1, <2>1 DEF ClockBound, Inc
<1>4. CASE KernelStep /\ ~ClockCount
  BY <1>1, <1>4 DEF KernelStep, SendEoi, InterruptExit, ScheduleEntry, SearchStep,
                    SchedulePick, TaskSwitch, ClockBound
<1>5. CASE BootStep
  BY <1>1, <1>5 DEF BootStep, ClockInit, TaskTableSetup, TaskCreate, SyscallInit, BootSti,
                    ClockBound
<1>6. ASSUME NEW t \in Tasks, ThreadStep(t) PROVE ClockBound'
  BY <1>1, <1>6 DEF ThreadStep, ThreadStart, Vsprintf, ConsoleEnter, ConsoleLeave,
                    SyscallYield, ClockBound
<1>. QED  BY <1>2, <1>3, <1>4, <1>5, <1>6 DEF Next, CpuStep

(* The hypothesis of SchedulerImplementsRanked is met by every run of the  *)
(* kernel that stops counting ticks before jiffies can wrap.               *)
THEOREM BoundedImplementsRanked ==
  ASSUME Configured, MaxJiffies < WORD - 1
  PROVE  Spec => ImplementsRanked
<1>1. Init => ClockBound
  BY SizesAssumption DEF Init, ClockBound
<1>2. IInv /\ ClockBound /\ [Next]_vars => ClockBound'
  BY ClockBoundKept
<1>3. IInv /\ ClockBound => NoWrap
  BY SizesAssumption DEF ClockBound, NoWrap, IInv, TypeOK
<1>. QED  BY <1>1, <1>2, <1>3, Invariance, SchedulerImplementsRanked, PTL DEF Spec
=============================================================================
