-------------------------- MODULE MCSchedulerTurns --------------------------
(***************************************************************************)
(* Scheduler with a history: since[t] is the set of the tasks that got the *)
(* CPU since t last had it (since the boot, if it never had).              *)
(***************************************************************************)
EXTENDS MCScheduler

VARIABLE since

TurnsInit == Init /\ since = [t \in Tasks |-> {}]

TurnsNext ==
  /\ Next
  /\ since' = IF cur' = cur THEN since
              ELSE [t \in Tasks |-> IF t = cur' THEN {} ELSE since[t] \cup {cur'}]

TurnsSpec == TurnsInit /\ [][TurnsNext]_<<vars, since>>

(* Of tasks with the same ticks left, schedule does not choose one that    *)
(* had the CPU while another waited for it: "the time of the last start is *)
(* earlier (prevents starvation: of A, B, C, when B is reached, B switches *)
(* to C and not to A)", says the comment of the test (l_task.c:82).        *)
EqualsTakeTurns ==
  kpc = "switch" =>
    \A t \in Tasks \ {cur, found} :
      ticks[t] = ticks[found] => found \notin since[t]
=============================================================================
