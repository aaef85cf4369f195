-------------------------- MODULE MCSchedulerPolicy --------------------------
(***************************************************************************)
(* Scheduler implements TaskPolicy: counting a tick, entering schedule by  *)
(* a yield and the assignments of schedule are its three steps, everything *)
(* else - delivering the interrupt, the loop over task_table, the stack    *)
(* switch, booting, printing - is a stutter.                               *)
(***************************************************************************)
EXTENDS MCScheduler

Policy == INSTANCE TaskPolicy WITH
  cur     <- IF kpc = "switch" THEN found ELSE cur,
  ticks   <- [t \in Tasks |-> IF Created(t) THEN ticks[t] ELSE Priority[t]],
  jif     <- [t \in Tasks |-> jif[t]],
  MaxJiffies <- WORD,
  resched <- kpc \in {"schedule", "search"}

(* Scheduler decides what TaskPolicy says, whatever happens in between.    *)
ImplementsPolicy == Policy!Spec

(* ... and, while jiffies does not wrap, what RankedPolicy says.           *)
ImplementsRanked == Policy!Ranked!Spec
=============================================================================
