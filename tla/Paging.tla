------------------------------- MODULE Paging -------------------------------
(***************************************************************************)
(* The page directory and tables that paging_init builds, and how the      *)
(* kernel reaches them once paging is on (l_memory.c): the last entry of   *)
(* the directory points to the directory itself, so that the tables appear *)
(* as pages at the top of the address space.  set_vaddr_pde/pte change an  *)
(* entry through those pages, disable_tlb drops one cached translation.    *)
(* The caller is paging_test, statement by statement, for any virtual page *)
(* outside the kernel's.                                                   *)
(*                                                                         *)
(* A virtual page is a pair <<IDX_DIR, IDX_TABLE>>.  A translation goes    *)
(* through the CPU's cache (external: the processor's TLB), which may      *)
(* forget an entry at any time but never notices a change in memory.       *)
(***************************************************************************)
EXTENDS Integers

CONSTANTS
  ENTRIES,        \* entries of a directory or table (1024)
  TABLES,         \* tables of the kernel, KERNEL_PAGE_NUM (2)
  NewTable,       \* the frame paging_test takes for a table (0x900)
  Targets,        \* the frames it maps (0x1400, 0x1500)
  Garbage,        \* what NewTable may hold before: entries
  Watched         \* bound: the virtual pages whose use is modelled

KERNEL_PAGE_DIR == 1
KERNEL_PAGE_TABLE(n) == n + 2
Last == ENTRIES - 1

ASSUME PagingAssumption ==
  /\ ENTRIES \in Nat /\ TABLES \in Nat /\ 0 < TABLES /\ TABLES < Last
  /\ \A f \in Targets \cup {NewTable} : f \in Nat /\ f >= TABLES * ENTRIES
  /\ NewTable \notin Targets
  /\ Garbage \subseteq [0 .. Last -> {-1, 0}]
  /\ Watched \subseteq (0 .. Last) \X (0 .. Last)

Index == 0 .. Last
NONE == -1                     \* an entry with present = 0
KernelTables == {KERNEL_PAGE_TABLE(n) : n \in 0 .. TABLES - 1}
TableFrames == {KERNEL_PAGE_DIR, NewTable} \cup KernelTables
Frames == (0 .. TABLES * ENTRIES - 1) \cup Targets \cup {NewTable}
UserPages == {v \in Watched : v[1] \in TABLES .. Last - 1}

VARIABLES
  paging,         \* the PG bit of cr0
  mem,            \* the directory and the tables, by frame
  tlb,            \* cached translations
  mapped,         \* history: the frame last asked for at a virtual page
  test            \* for a virtual page, the statement of paging_test to come

pagevars == <<paging, mem, tlb, mapped, test>>

(* Mutants: the entry of the table first; no disable_tlb.                  *)
FollowsTableFirst ==
  [idle |-> "pte", pte |-> "pde", pde |-> "use_a", use_a |-> "again",
   again |-> "invlpg", invlpg |-> "use_b", use_b |-> "done"]
FollowsNoInvalidate ==
  [idle |-> "pde", pde |-> "pte", pte |-> "use_a", use_a |-> "again",
   again |-> "use_b", invlpg |-> "use_b", use_b |-> "done"]

(* The order of paging_test: a table in the directory, a frame in the      *)
(* table, ptr[0] = 'a', another frame, disable_tlb, ptr[2] = 'b'.          *)
Follows ==
  [idle |-> "pde", pde |-> "pte", pte |-> "use_a", use_a |-> "again",
   again |-> "invlpg", invlpg |-> "use_b", use_b |-> "done"]

PageTypeOK ==
  /\ paging \in BOOLEAN
  /\ mem \in [TableFrames -> [Index -> Frames \cup {NONE}]]
  /\ tlb \in [Watched -> Frames \cup {NONE}]
  /\ mapped \in [Watched -> Frames \cup {NONE}]
  /\ test \in [UserPages -> DOMAIN Follows \cup {"done", "fault"}]

(* Mutant: page 0 is mapped too. *)
IdentityFromZero(index) == index

(* What the kernel's tables hold for the page of number index.             *)
Identity(index) == IF index = 0 THEN NONE ELSE index

(* paging_init: page 0 is left out, every other page of the kernel's       *)
(* memory is mapped to itself.                                             *)
Entry(f, e) ==
  IF f = KERNEL_PAGE_DIR
  THEN IF e < TABLES THEN KERNEL_PAGE_TABLE(e)
       ELSE IF e = Last THEN KERNEL_PAGE_DIR ELSE NONE
  ELSE Identity((f - KERNEL_PAGE_TABLE(0)) * ENTRIES + e)

(* What is in the frames of the directory and the kernel's tables before   *)
(* does not matter, paging_init clears them; the frame that will be a      *)
(* table later is not cleared.                                             *)
PageInit ==
  /\ paging = FALSE
  /\ \E garbage \in Garbage :
       mem = [f \in TableFrames |-> IF f = NewTable THEN garbage ELSE [e \in Index |-> NONE]]
  /\ tlb = [v \in Watched |-> NONE]
  /\ mapped = [v \in Watched |-> NONE]
  /\ test = [v \in UserPages |-> "idle"]

BuildTables ==
  /\ ~paging /\ paging' = TRUE
  /\ mem' = [f \in TableFrames |->
               IF f = NewTable THEN mem[f] ELSE [e \in Index |-> Entry(f, e)]]
  /\ UNCHANGED <<tlb, mapped, test>>

-----------------------------------------------------------------------------
(* The MMU's walk of the tables.  A table outside TableFrames is ordinary  *)
(* memory, not followed here.                                              *)
Walk(m, v) ==
  LET table == m[KERNEL_PAGE_DIR][v[1]]
  IN  IF table \in TableFrames THEN m[table][v[2]] ELSE NONE

Translation(v) ==
  IF v \in Watched /\ tlb[v] # NONE THEN tlb[v] ELSE Walk(mem, v)

(* get_pde() and get_pte(v): the virtual pages of the directory and of the *)
(* table v goes through.                                                   *)
PdePage    == <<Last, Last>>
PtePage(v) == <<Last, v[1]>>

(* page_entry_init on the word e of virtual page w.                        *)
WriteEntry(w, e, frame) ==
  LET f == Translation(w)
  IN  mem' = IF f \in TableFrames THEN [mem EXCEPT ![f][e] = frame] ELSE mem

(* A statement of paging_test(v) that uses the virtual page w: the end of  *)
(* it all, exception 14, when w is not mapped.                             *)
Statement(v, statement, w) ==
  /\ paging /\ test[v] = statement
  /\ test' = [test EXCEPT ![v] = IF Translation(w) = NONE THEN "fault" ELSE Follows[statement]]

(* paging_test is called for an address that is not mapped yet.            *)
Call(v) ==
  /\ paging /\ \A w \in UserPages : test[w] \in {"idle", "done"}
  /\ test[v] = "idle"
  /\ test' = [test EXCEPT ![v] = Follows.idle]
  /\ UNCHANGED <<paging, mem, tlb, mapped>>

(* set_vaddr_pde_entry_with_index(v, IDX(pt)); the frame pt serves as the  *)
(* table of one part of the address space only.                            *)
SetPde(v) ==
  /\ Statement(v, "pde", PdePage)
  /\ \A d \in Index \ {v[1]} : mem[KERNEL_PAGE_DIR][d] # NewTable
  /\ WriteEntry(PdePage, v[1], NewTable)
  /\ UNCHANGED <<paging, tlb, mapped>>

(* set_vaddr_pte_entry_with_index(v, frame), one of the two calls.         *)
SetPte(v, call, frame) ==
  /\ Statement(v, call, PtePage(v))
  /\ WriteEntry(PtePage(v), v[2], frame)
  /\ mapped' = [mapped EXCEPT ![v] = frame]
  /\ UNCHANGED <<paging, tlb>>

(* disable_tlb(v): invlpg, which needs no translation.                     *)
DisableTlb(v) ==
  /\ test[v] = "invlpg"
  /\ test' = [test EXCEPT ![v] = Follows.invlpg]
  /\ tlb' = [tlb EXCEPT ![v] = NONE]
  /\ UNCHANGED <<paging, mem, mapped>>

(* ptr[0] = 'a' and ptr[2] = 'b'.                                          *)
Use(v, use) ==
  /\ Statement(v, use, v)
  /\ tlb' = [tlb EXCEPT ![v] = Translation(v)]
  /\ UNCHANGED <<paging, mem, mapped>>

(* Any other use of a page that is there to be used: the kernel's own, the *)
(* tables at the top, and the page of a paging_test that is over.          *)
Access(v) ==
  /\ paging
  /\ v \in UserPages => test[v] = "done"
  /\ Translation(v) # NONE
  /\ tlb' = [tlb EXCEPT ![v] = Translation(v)]
  /\ UNCHANGED <<paging, mem, mapped, test>>

(* The TLB is small.                                                       *)
Evict(v) ==
  /\ tlb[v] # NONE
  /\ tlb' = [tlb EXCEPT ![v] = NONE]
  /\ UNCHANGED <<paging, mem, mapped, test>>

PageUse ==
  \/ \E v \in UserPages :
       \/ Call(v) \/ SetPde(v) \/ DisableTlb(v)
       \/ \E f \in Targets, call \in {"pte", "again"} : SetPte(v, call, f)
       \/ \E use \in {"use_a", "use_b"} : Use(v, use)
  \/ \E v \in Watched : Access(v) \/ Evict(v)

PageNext == BuildTables \/ PageUse

PageSpec == PageInit /\ [][PageNext]_pagevars

-----------------------------------------------------------------------------
(* An entry written through the window at the top of the address space is  *)
(* the entry the walk of that address uses, and stays: later edits of      *)
(* other pages go elsewhere.  No statement of paging_test meets a page     *)
(* that is not mapped: the window shows a table only once it is in the     *)
(* directory.                                                              *)
EditsReachTable ==
  \A v \in UserPages :
    /\ test[v] # "fault"
    /\ mapped[v] # NONE => Walk(mem, v) = mapped[v]

(* Wherever paging_test or what follows it uses the page, the use goes to  *)
(* the frame asked for last, never to the one the TLB had before.          *)
NoStaleUse ==
  \A v \in UserPages :
    test[v] \in {"use_a", "use_b", "done"} => Translation(v) = mapped[v]

(* The kernel's own map stays what the listing in paging_init shows        *)
(* (l_memory.c:284): page 0 absent, its memory mapped to itself, tables    *)
(* and directory at the top, in memory and in the TLB.                     *)
KernelMap ==
  /\ PageTypeOK
  /\ paging => \A v \in Watched \ UserPages :
       LET index == v[1] * ENTRIES + v[2]
           frame == CASE v[1] < TABLES /\ index = 0 -> NONE
                      [] v[1] < TABLES /\ index # 0 -> index
                      [] v = PdePage -> KERNEL_PAGE_DIR
                      [] v[1] = Last /\ v[2] < TABLES -> KERNEL_PAGE_TABLE(v[2])
                      [] OTHER -> Walk(mem, v)
       IN  Walk(mem, v) = frame /\ tlb[v] \in {NONE, frame}
=============================================================================
