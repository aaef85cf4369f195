--------------------------- MODULE MCRankedPolicy ---------------------------
(* Instances of RankedPolicy for TLC: all tasks yield, as task_init's do,   *)
(* or none does.                                                           *)
EXTENDS RankedPolicy

Five == [t \in Tasks |-> 5]
AllOrNone == {{}, Tasks}
=============================================================================
