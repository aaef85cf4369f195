------------------------------ MODULE MCMemory ------------------------------
(***************************************************************************)
(* Boot, with PhysMem and Paging in it, and KernelPages for TLC: the boot  *)
(* and what follows it, or the allocator of kernel pages alone.            *)
(*                                                                         *)
(* The BIOS reports up to three regions that do not overlap, in any order. *)
(* The memory above the base is too small, just enough, ample or not for   *)
(* use; there may be more beyond 4 GB, also as much as 32 bits make 0.     *)
(* Two tables of four entries and one directory slot for new pages, as in  *)
(* paging_test.                                                            *)
(***************************************************************************)
EXTENDS Boot, KernelPages

Region(b, s, v) == [base |-> b, size |-> s, valid |-> v]

Regions ==
  {Region(0, 1, TRUE), Region(2, 9, FALSE), Region(16, 16, TRUE), Region(16, 30, TRUE)}
    \cup {Region(2, s, TRUE) : s \in {7, 8, 12}}

Disjoint(a, b) == a.base + a.size <= b.base \/ b.base + b.size <= a.base

Reports ==
  {m \in UNION {[1 .. n -> Regions] : n \in 0 .. 3} :
     \A j \in DOMAIN m, k \in DOMAIN m : j # k => Disjoint(m[j], m[k])}

SomeEntries == {[e \in Index |-> NONE], [e \in Index |-> 0]}

WatchedPages == {<<0, 0>>, <<1, 1>>, <<2, 0>>, <<2, 3>>, <<3, 0>>, <<3, 2>>, <<3, 3>>}

-----------------------------------------------------------------------------
(* While the allocator runs alone, the boot has come to an early end.      *)
BootOff ==
  /\ Statics /\ regions = <<>> /\ PageInit
  /\ mem[NewTable] = [e \in Index |-> NONE]
  /\ at = "boot error" /\ bios = <<>> /\ carry = FALSE /\ drive = "idle" /\ left = 0
  /\ memory = {} /\ gdtr = "bios"

MemoryInit == Init /\ (BootInit \/ BootOff)

MemoryNext ==
  \/ BootNext /\ UNCHANGED vars
  \/ at = "boot error" /\ memory = {} /\ Next /\ UNCHANGED bootvars

MemorySpec == MemoryInit /\ [][MemoryNext]_<<bootvars, vars>>
=============================================================================
