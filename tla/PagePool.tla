------------------------------ MODULE PagePool ------------------------------
(***************************************************************************)
(* What alloc_kernel_page and free_kernel_page promise: a run of count     *)
(* pages nobody owns, the lowest there is, or a panic if there is none.    *)
(***************************************************************************)
EXTENDS Integers

CONSTANTS PoolSize,     \* pages in the pool, numbered from 0
          Reserved,     \* the first pages, owned for ever
          MaxCount      \* the largest request

VARIABLES owned,        \* pages handed out and not given back
          panicked

poolvars == <<owned, panicked>>

Run(s, n) == s .. s + n - 1

FreeRuns(n) == {s \in 0 .. PoolSize - n : Run(s, n) \cap owned = {}}

Init == owned = Run(0, Reserved) /\ panicked = FALSE

Alloc ==
  \E n \in 1 .. MaxCount :
    \E s \in FreeRuns(n) :
      /\ ~panicked
      /\ \A r \in FreeRuns(n) : s <= r
      /\ owned' = owned \cup Run(s, n)
      /\ UNCHANGED panicked

Free ==
  \E s \in Reserved .. PoolSize - 1, n \in 1 .. MaxCount :
    /\ ~panicked
    /\ Run(s, n) \subseteq owned
    /\ owned' = owned \ Run(s, n)
    /\ UNCHANGED panicked

Panic ==
  /\ ~panicked
  /\ \E n \in 1 .. MaxCount : FreeRuns(n) = {}
  /\ panicked' = TRUE
  /\ UNCHANGED owned

Next == Alloc \/ Free \/ Panic

Spec == Init /\ [][Next]_poolvars
=============================================================================
