---------------------------- MODULE MCScheduler ----------------------------
(* Instances of Scheduler for TLC. *)
EXTENDS Scheduler

Equal2 == [t \in Tasks |-> 2]
Equal5 == [t \in Tasks |-> 5]
All == 1 .. NumTasks
AllButLast == 1 .. NumTasks - 1
OnlyFirst == {1}
=============================================================================
