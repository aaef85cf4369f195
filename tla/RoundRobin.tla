----------------------------- MODULE RoundRobin -----------------------------
(***************************************************************************)
(* What the scheduler promises tasks of one priority that do not yield:    *)
(* the running task has Quantum ticks, then goes to the end of the queue.  *)
(* The boot context runs first, for one tick, and does not queue again.    *)
(***************************************************************************)
EXTENDS Integers, Sequences

CONSTANTS NumTasks, Quantum

VARIABLES cur, queue, left

rrvars == <<cur, queue, left>>

Init == cur = 0 /\ queue = [n \in 1 .. NumTasks |-> n] /\ left = 1

Tick ==
  /\ left > 0
  /\ left' = left - 1
  /\ UNCHANGED <<cur, queue>>

Rotate ==
  /\ left = 0
  /\ cur' = Head(queue)
  /\ queue' = IF cur = 0 THEN Tail(queue) ELSE Append(Tail(queue), cur)
  /\ left' = Quantum

Next == Tick \/ Rotate

Spec == Init /\ [][Next]_rrvars
=============================================================================
