----------------------------- MODULE TaskSearch -----------------------------
(* The choice that task_search_in_table (l_task.c) makes, as a function.   *)
EXTENDS Integers, FiniteSets

CONSTANT NumTasks

NULL  == -1
Boot  == 0
Tasks == 1 .. NumTasks

ASSUME NumTasksAssumption == NumTasks \in Nat \ {0}

(* Mutants: the times of the last ticks do not count; a task as good as    *)
(* the best before it takes its place.                                     *)
SearchByTicks(c, tk, jf) ==
  LET best[n \in 0 .. NumTasks] ==
        IF n = 0 THEN NULL
        ELSE LET b == best[n - 1]
             IN  IF n # c /\ (b = NULL \/ tk[b] < tk[n]) THEN n ELSE b
  IN best[NumTasks]

SearchLater(c, tk, jf) ==
  LET best[n \in 0 .. NumTasks] ==
        IF n = 0 THEN NULL
        ELSE LET b == best[n - 1]
             IN  IF n # c /\ (b = NULL \/ tk[b] < tk[n] \/ jf[n] <= jf[b])
                 THEN n ELSE b
  IN best[NumTasks]

(* The task chosen when c gives up the CPU, tk being the ticks left and jf *)
(* the times of the last ticks: in table order, each task takes the place  *)
(* of the best before it if it has more ticks left or an earlier last      *)
(* tick.  Every task but c is ready.                                       *)
Search(c, tk, jf) ==
  LET best[n \in 0 .. NumTasks] ==
        IF n = 0 THEN NULL
        ELSE LET b == best[n - 1]
             IN  IF n # c /\ (b = NULL \/ tk[b] < tk[n] \/ jf[n] < jf[b])
                 THEN n ELSE b
  IN best[NumTasks]

(* Of the times of the last ticks only the order matters to Search.        *)
RankOf(jf) ==
  [t \in Tasks |-> Cardinality({jf[u] : u \in {v \in Tasks : jf[v] < jf[t]}})]

(* schedule gives the task that leaves a new quantum if it has none left.  *)
Refilled(tk, c, priority) ==
  [t \in Tasks |-> IF t = c /\ tk[t] = 0 THEN priority[t] ELSE tk[t]]
=============================================================================
