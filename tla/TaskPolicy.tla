----------------------------- MODULE TaskPolicy -----------------------------
(***************************************************************************)
(* What l_clock.c and l_task.c decide, without how: a tick takes one tick  *)
(* from the running task, a yield takes none, and either may ask for a     *)
(* switch, which picks the next task in one step.  Scheduler, with its     *)
(* interrupts, its loop over task_table and its stack switch, implements   *)
(* this module (MCSchedulerPolicy).  All tasks exist; the boot context has *)
(* one tick and is never chosen.                                           *)
(***************************************************************************)
EXTENDS TaskSearch

CONSTANTS Priority,     \* of each task, its quantum
          Yielders,     \* the tasks that call syscall_yield
          WORD,         \* modulus of uint32_t (2^32)
          MaxJiffies    \* bound: no tick is counted from here on

VARIABLES cur, ticks, jif, jiffies,
          resched      \* schedule() is about to run

vars == <<cur, ticks, jif, jiffies, resched>>

Init ==
  /\ cur = Boot /\ ticks = Priority /\ jif = [t \in Tasks |-> 0]
  /\ jiffies = 0 /\ resched = FALSE

(* clock_handler. *)
Tick ==
  /\ ~resched /\ jiffies < MaxJiffies
  /\ jiffies' = (jiffies + 1) % WORD
  /\ IF cur = Boot
     THEN resched' = TRUE /\ UNCHANGED <<ticks, jif>>
     ELSE /\ jif' = [jif EXCEPT ![cur] = jiffies']
          /\ ticks' = [ticks EXCEPT ![cur] = (@ - 1) % WORD]
          /\ resched' = (ticks'[cur] = 0)
  /\ UNCHANGED cur

(* syscall_yield. *)
Yield ==
  /\ ~resched /\ cur \in Yielders
  /\ resched' = TRUE
  /\ UNCHANGED <<cur, ticks, jif, jiffies>>

(* schedule and task_switch. *)
Schedule ==
  /\ resched
  /\ cur' = Search(cur, ticks, jif) /\ cur' # NULL
  /\ ticks' = Refilled(ticks, cur, Priority)
  /\ resched' = FALSE
  /\ UNCHANGED <<jif, jiffies>>

Next == Tick \/ Yield \/ Schedule

Spec == Init /\ [][Next]_vars

-----------------------------------------------------------------------------
(* While jiffies does not wrap, comparing times of last ticks is comparing *)
(* their ranks, and a new tick is later than all the old ones.             *)
Ranked == INSTANCE RankedPolicy WITH
            rank <- RankOf(jif), YielderSets <- {Yielders}, yielders <- Yielders
=============================================================================
