---------------------------- MODULE RankedPolicy ----------------------------
(***************************************************************************)
(* TaskPolicy with a clock that never runs out: task_search_in_table only  *)
(* compares the times of the tasks' last ticks, so this module keeps their *)
(* ranks.  Its states are finitely many however long the system runs, and  *)
(* the questions about starvation are asked here.  TaskPolicy implements   *)
(* it as long as jiffies does not wrap (MCSchedulerPolicy).                *)
(***************************************************************************)
EXTENDS TaskSearch

CONSTANTS Priority,        \* as in TaskPolicy
          YielderSets      \* choices of the tasks that call syscall_yield

VARIABLES cur, ticks, rank, resched,
          yielders         \* the choice, fixed

vars == <<cur, ticks, rank, resched, yielders>>

Init ==
  /\ cur = Boot /\ ticks = Priority /\ rank = [t \in Tasks |-> 0]
  /\ resched = FALSE /\ yielders \in YielderSets

(* clock_handler: the tick it counts is later than every other.            *)
Tick ==
  /\ ~resched
  /\ IF cur = Boot
     THEN resched' = TRUE /\ UNCHANGED <<ticks, rank>>
     ELSE /\ rank' = RankOf([rank EXCEPT ![cur] = NumTasks])
          /\ ticks' = [ticks EXCEPT ![cur] = @ - 1]
          /\ resched' = (ticks'[cur] = 0)
  /\ UNCHANGED <<cur, yielders>>

(* syscall_yield. *)
Yield ==
  /\ ~resched /\ cur \in yielders
  /\ resched' = TRUE
  /\ UNCHANGED <<cur, ticks, rank, yielders>>

(* schedule and task_switch. *)
Schedule ==
  /\ resched
  /\ cur' = Search(cur, ticks, rank) /\ cur' # NULL
  /\ ticks' = Refilled(ticks, cur, Priority)
  /\ resched' = FALSE
  /\ UNCHANGED <<rank, yielders>>

Next == Tick \/ Yield \/ Schedule

Spec == Init /\ [][Next]_vars

(* Handlers finish, the clock ticks for ever, and a thread that yields in  *)
(* its loop always reaches its next yield if it runs often enough.         *)
FairSpec == Spec /\ WF_vars(Schedule) /\ SF_vars(Tick) /\ SF_vars(Yield)

-----------------------------------------------------------------------------
(* Without yields no task starves, what the last test of                   *)
(* task_search_in_table is there for (l_task.c:82): a task that waits gets *)
(* older than all that run.                                                *)
NoStarvationByTicks == yielders = {} => \A t \in Tasks : []<>(cur = t)

(* The task in the last slot always comes round: whoever the scan prefers  *)
(* before it loses to it as soon as that one has had a later tick.         *)
LastSlotRuns == []<>(cur = NumTasks)

-----------------------------------------------------------------------------
(* With equal priorities and no yield the policy is round robin: the tasks *)
(* that wait, by the time of their last tick and then by slot.             *)
Before(t, u) == rank[t] < rank[u] \/ (rank[t] = rank[u] /\ t < u)

Waiting ==
  LET place(t) == 1 + Cardinality({u \in Tasks \ {cur} : Before(u, t)})
  IN  [n \in 1 .. Cardinality(Tasks \ {cur}) |->
         CHOOSE t \in Tasks \ {cur} : place(t) = n]

Alone == yielders = {}       \* with yields, RoundRobin just stutters

RR == INSTANCE RoundRobin WITH
        Quantum <- Priority[1],
        cur <- IF Alone THEN cur ELSE Boot,
        queue <- IF Alone THEN Waiting ELSE [n \in Tasks |-> n],
        left <- IF ~Alone THEN 1
                ELSE IF cur = Boot THEN (IF resched THEN 0 ELSE 1) ELSE ticks[cur]

ImplementsRoundRobin == RR!Spec
=============================================================================
