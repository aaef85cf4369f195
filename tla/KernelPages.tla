----------------------------- MODULE KernelPages -----------------------------
(***************************************************************************)
(* The kernel's page allocator: bitmap_scan, bitmap_check and bitmap_set   *)
(* (l_bitmap.c) under scan_page, reset_page, alloc_kernel_page and         *)
(* free_kernel_page (l_memory.c), one step per turn of their loops.  The   *)
(* first scan is memory_map_init's own, for the pages of the memory map.   *)
(*                                                                         *)
(* Pages are numbered from the bitmap's offset, so bit b is page b.  The   *)
(* callers keep to the interface: they ask for at least one page and give  *)
(* back pages they were given.                                             *)
(***************************************************************************)
EXTENDS Integers

CONSTANTS Bytes,        \* length of the bitmap (224)
          Bits,         \* bits in one of its bytes (8)
          MapPages,     \* memory_map_pages_used (2 with 32 MB)
          MaxCount      \* bound: pages asked for in one call

PoolSize == Bytes * Bits
Pages == 0 .. PoolSize - 1

ASSUME BitmapAssumption ==
  /\ Bytes \in Nat \ {0} /\ Bits \in Nat \ {0} /\ MapPages \in Nat \ {0}
  /\ PoolSize \in Nat /\ MapPages <= PoolSize /\ MaxCount \in Nat

VARIABLES
  bits,        \* the bitmap
  pc,          \* which loop runs: "scan", "mark", "reset"; or "idle", "halt"
  booted,      \* memory_map_init's scan has returned
  count,       \* pages asked for, or still to be given back
  i,           \* the loop's index
  found,       \* bits_already_find
  start,       \* the run's first bit, or EOF
  owned        \* history: pages handed out and not given back

vars == <<bits, pc, booted, count, i, found, start, owned>>

EOF == -1

Run(s, n) == s .. s + n - 1

TypeOK ==
  /\ bits \in [Pages -> BOOLEAN]
  /\ pc \in {"idle", "scan", "mark", "reset", "halt"} /\ booted \in BOOLEAN
  /\ count \in Nat /\ i \in -1 .. PoolSize /\ found \in Nat
  /\ start \in Pages \cup {EOF} /\ owned \subseteq Pages

(* bitmap_init cleared the bits; bitmap_scan(&kernel_bitmap, map pages).   *)
Init ==
  /\ bits = [b \in Pages |-> FALSE]
  /\ pc = "scan" /\ booted = FALSE
  /\ count = MapPages /\ i = 0 /\ found = 0 /\ start = EOF
  /\ owned = {}

-----------------------------------------------------------------------------

(* alloc_kernel_page(n), into bitmap_scan.                                 *)
AllocCall(n) ==
  /\ pc = "idle"
  /\ pc' = "scan" /\ count' = n /\ i' = 0 /\ found' = 0 /\ start' = EOF
  /\ UNCHANGED <<bits, booted, owned>>

(* Mutants: a used page does not start the count anew; the run starts one  *)
(* page early.                                                             *)
ScanStepCountsOn ==
  /\ pc = "scan" /\ i < PoolSize
  /\ found' = IF bits[i] THEN found ELSE found + 1
  /\ IF found' = count
     THEN pc' = "mark" /\ start' = i - count + 1 /\ UNCHANGED i
     ELSE i' = i + 1 /\ UNCHANGED <<pc, start>>
  /\ UNCHANGED <<bits, booted, count, owned>>

ScanStepEarly ==
  /\ pc = "scan" /\ i < PoolSize
  /\ found' = IF bits[i] THEN 0 ELSE found + 1
  /\ IF found' = count
     THEN pc' = "mark" /\ start' = i - count /\ UNCHANGED i
     ELSE i' = i + 1 /\ UNCHANGED <<pc, start>>
  /\ UNCHANGED <<bits, booted, count, owned>>

(* One turn of the scan: a used page starts the count anew.                *)
ScanStep ==
  /\ pc = "scan" /\ i < PoolSize
  /\ found' = IF bits[i] THEN 0 ELSE found + 1
  /\ IF found' = count
     THEN pc' = "mark" /\ start' = i - count + 1 /\ UNCHANGED i
     ELSE i' = i + 1 /\ UNCHANGED <<pc, start>>
  /\ UNCHANGED <<bits, booted, count, owned>>

(* The scan came to the end: -1, and scan_page panics.                     *)
ScanFail ==
  /\ pc = "scan" /\ i = PoolSize
  /\ pc' = "halt"
  /\ UNCHANGED <<bits, booted, count, i, found, start, owned>>

(* while(bits_already_find--): mark the run backwards from its end.        *)
MarkStep ==
  /\ pc = "mark" /\ found > 0
  /\ bits' = [bits EXCEPT ![i] = TRUE]
  /\ i' = i - 1 /\ found' = found - 1
  /\ UNCHANGED <<pc, booted, count, start, owned>>

(* The run is returned; memory_map_init asserts where its own run starts.  *)
AllocReturn ==
  /\ pc = "mark" /\ found = 0
  /\ owned' = owned \cup Run(start, count)
  /\ pc' = IF ~booted /\ start # 0 THEN "halt" ELSE "idle"
  /\ booted' = TRUE
  /\ UNCHANGED <<bits, count, i, found, start>>

(* free_kernel_page(s, n) by a caller that owns the pages: its claim ends  *)
(* with the call.  The pages of the memory map are never given back.       *)
FreeCall(s, n) ==
  /\ pc = "idle"
  /\ s >= MapPages /\ Run(s, n) \subseteq owned
  /\ pc' = "reset" /\ i' = s /\ count' = n
  /\ owned' = owned \ Run(s, n)
  /\ UNCHANGED <<bits, booted, found, start>>

(* Mutant: the last page of the run stays in use. *)
ResetStepShort ==
  /\ pc = "reset" /\ count > 0
  /\ IF bits[i]
     THEN bits' = [bits EXCEPT ![i] = (count = 1)] /\ UNCHANGED pc
     ELSE pc' = "halt" /\ UNCHANGED bits
  /\ i' = i + 1 /\ count' = count - 1
  /\ UNCHANGED <<booted, found, start, owned>>

(* One turn of reset_page, with its assertion that the page was in use.    *)
ResetStep ==
  /\ pc = "reset" /\ count > 0
  /\ IF bits[i]
     THEN bits' = [bits EXCEPT ![i] = FALSE] /\ UNCHANGED pc
     ELSE pc' = "halt" /\ UNCHANGED bits
  /\ i' = i + 1 /\ count' = count - 1
  /\ UNCHANGED <<booted, found, start, owned>>

FreeReturn ==
  /\ pc = "reset" /\ count = 0
  /\ pc' = "idle"
  /\ UNCHANGED <<bits, booted, count, i, found, start, owned>>

Next ==
  \/ \E n \in 1 .. MaxCount : AllocCall(n)
  \/ ScanStep \/ ScanFail \/ MarkStep \/ AllocReturn
  \/ \E s \in Pages, n \in 1 .. MaxCount : FreeCall(s, n)
  \/ ResetStep \/ FreeReturn

Spec == Init /\ [][Next]_vars

-----------------------------------------------------------------------------
(* A run about to be marked belongs to nobody: no page has two owners, and *)
(* a returned run is inside the pool.                                      *)
RunUnowned ==
  pc = "mark" => Run(start, count) \subseteq Pages /\ Run(start, count) \cap owned = {}

(* Between calls the bitmap says exactly which pages are owned: marking    *)
(* takes no neighbour along, resetting leaves no page behind.              *)
BitsMatchOwners == pc = "idle" => \A b \in Pages : bits[b] <=> b \in owned

(* The system halts only when a request really cannot be served: no run of *)
(* count pages is free.  Neither assertion of reset_page nor the one of    *)
(* memory_map_init ever fails.                                             *)
HaltsOnlyWhenFull ==
  pc = "halt" => \A s \in Pages : Run(s, count) \subseteq Pages =>
                                    \E b \in Run(s, count) : b \in owned

(* bitmap_scan takes the lowest run that fits.                             *)
FirstFit ==
  pc = "mark" => \A s \in Pages : s < start => \E b \in Run(s, count) : b \in owned

(* The loops over bits implement the allocation and release of whole runs. *)
Pool == INSTANCE PagePool WITH
          Reserved <- MapPages,
          owned    <- IF booted THEN owned ELSE Run(0, MapPages),
          panicked <- pc = "halt"

ImplementsPool == Pool!Spec

-----------------------------------------------------------------------------
(* The inductive invariant: what each loop has done so far.                *)

(* Every run of count pages that ends before page e has a page in use.     *)
NoRunBefore(e) ==
  \A s \in Pages : s + count <= e => \E b \in Run(s, count) : bits[b]

(* The last found pages are free, the one before them is in use.           *)
ScanInv ==
  pc = "scan" =>
    /\ i \in 0 .. PoolSize /\ found \in 0 .. count - 1 /\ found <= i
    /\ \A b \in Run(i - found, found) : ~bits[b]
    /\ found < i => bits[i - found - 1]
    /\ NoRunBefore(i)
    /\ \A b \in Pages : bits[b] <=> b \in owned

(* The run is marked from its end down to page i.                          *)
MarkInv ==
  pc = "mark" =>
    /\ start \in Pages /\ count \in 1 .. PoolSize - start
    /\ found \in 0 .. count /\ i = start + found - 1
    /\ \A b \in Pages : bits[b] <=> b \in owned \/ b \in Run(i + 1, count - found)
    /\ \A b \in Run(start, count) : b \notin owned
    /\ FirstFit

(* The count pages from i on are still to be cleared.                      *)
ResetInv ==
  pc = "reset" =>
    /\ i \in 0 .. PoolSize - count
    /\ \A b \in Run(i, count) : b \notin owned
    /\ \A b \in Pages : bits[b] <=> b \in owned \/ b \in Run(i, count)

BootInv ==
  /\ ~booted => owned = {} /\ pc \in {"scan", "mark", "halt"} /\ count = MapPages
  /\ booted => Run(0, MapPages) \subseteq owned

IInv ==
  /\ TypeOK /\ ScanInv /\ MarkInv /\ ResetInv /\ BootInv
  /\ BitsMatchOwners /\ HaltsOnlyWhenFull
=============================================================================
