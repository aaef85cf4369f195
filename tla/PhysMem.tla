------------------------------- MODULE PhysMem -------------------------------
(***************************************************************************)
(* Physical memory (l_memory.c): ards_init picks the largest usable region *)
(* the BIOS reports, memory_map_init lays the array of reference counts at *)
(* its start, paging_init adds a reference for every page the kernel maps, *)
(* and get_page and put_page hand out what is left.                        *)
(*                                                                         *)
(* Addresses and sizes count pages.  MEMORY_BASE_ADDR is a page address,   *)
(* so IDX(memory_size + memory_base) needs no byte part.                   *)
(***************************************************************************)
EXTENDS Integers, Sequences, FiniteSets

CONSTANTS
  MEMORY_BASE,     \* IDX(MEMORY_BASE_ADDR): 0x100
  KERNEL_MEMORY,   \* IDX(KERNEL_MEMORY_SIZE): 0x800
  PAGE_SIZE,       \* one-byte counters in a page (0x1000)
  WORD,            \* pages a uint32_t can address (2^20)
  COUNTS,          \* values of a counter (2^8)
  MemoryMaps       \* what the BIOS may report: sequences of regions

ASSUME PhysMemAssumption ==
  /\ MEMORY_BASE \in Nat \ {0} /\ KERNEL_MEMORY \in Nat
  /\ PAGE_SIZE \in Nat /\ PAGE_SIZE > 1
  /\ MEMORY_BASE < KERNEL_MEMORY /\ KERNEL_MEMORY < WORD /\ WORD \in Nat
  /\ COUNTS \in Nat /\ COUNTS > 2
  /\ MemoryMaps \subseteq Seq([base : Nat, size : Nat, valid : BOOLEAN])

(* The addresses of devices and firmware end the memory below 4 GB; what   *)
(* lies above starts at 4 GB, which the low halves do not show as 1 MB.    *)
ASSUME RegionsAssumption ==
  \A m \in MemoryMaps : \A k \in 1 .. Len(m) : m[k].valid =>
    IF m[k].base < WORD THEN m[k].base + m[k].size < WORD
    ELSE m[k].base % WORD # MEMORY_BASE

VARIABLES
  phase,           \* "ards", "map", "paging", "run" or "halt"
  regions,         \* the BIOS's report
  next,            \* the record ards_init looks at
  memory_base, memory_size, total_pages, free_pages,
  memory_map_pages_used, start_page,
  memory_map_array,
  handed           \* history: pages get_page returned, not yet put back

region == <<memory_base, memory_size, total_pages>>
physvars == <<phase, regions, next, region, free_pages, memory_map_pages_used,
          start_page, memory_map_array, handed>>

AllPages == 0 .. WORD - 1

PhysTypeOK ==
  /\ phase \in {"ards", "map", "paging", "run", "halt"} /\ next \in Nat
  /\ \A n \in {memory_base, memory_size, total_pages, free_pages, start_page} :
       n \in AllPages
  /\ memory_map_array \in [AllPages -> 0 .. COUNTS - 1] /\ handed \subseteq AllPages

(* The statics are zero.  What lies where the array will be does not       *)
(* matter before it is cleared.                                            *)
Statics ==
  /\ phase = "ards" /\ next = 1
  /\ memory_base = 0 /\ memory_size = 0 /\ total_pages = 0 /\ free_pages = 0
  /\ memory_map_pages_used = 0 /\ start_page = 0
  /\ memory_map_array = [p \in AllPages |-> 0]
  /\ handed = {}

PhysInit == Statics /\ regions \in MemoryMaps

(* Mutant: the type of the region does not count. *)
ArdsRecordAnyType ==
  /\ phase = "ards" /\ next <= Len(regions)
  /\ next' = next + 1
  /\ IF regions[next].size > memory_size
     THEN /\ memory_base' = regions[next].base % WORD
          /\ memory_size' = regions[next].size % WORD
     ELSE UNCHANGED <<memory_base, memory_size>>
  /\ UNCHANGED <<phase, regions, total_pages, free_pages, memory_map_pages_used,
                 start_page, memory_map_array, handed>>

(* One record: the size is compared in 64 bits and kept in 32.             *)
ArdsRecord ==
  /\ phase = "ards" /\ next <= Len(regions)
  /\ next' = next + 1
  /\ IF regions[next].valid /\ regions[next].size > memory_size
     THEN /\ memory_base' = regions[next].base % WORD
          /\ memory_size' = regions[next].size % WORD
     ELSE UNCHANGED <<memory_base, memory_size>>
  /\ UNCHANGED <<phase, regions, total_pages, free_pages, memory_map_pages_used,
                 start_page, memory_map_array, handed>>

(* Mutant: the size is not checked. *)
ArdsEndUnchecked ==
  /\ phase = "ards" /\ next > Len(regions)
  /\ memory_base = MEMORY_BASE
  /\ total_pages' = (memory_size + memory_base) % WORD
  /\ free_pages' = memory_size
  /\ phase' = "map"
  /\ UNCHANGED <<regions, next, memory_base, memory_size, memory_map_pages_used,
                 start_page, memory_map_array, handed>>

(* The region must start where the kernel expects memory and must hold all *)
(* the kernel will map; anything else stops the machine.                   *)
ArdsEnd ==
  /\ phase = "ards" /\ next > Len(regions)
  /\ IF memory_base = MEMORY_BASE
     THEN /\ total_pages' = (memory_size + memory_base) % WORD
          /\ free_pages' = memory_size
     ELSE UNCHANGED <<total_pages, free_pages>>
  /\ phase' = IF memory_base = MEMORY_BASE /\ memory_size >= KERNEL_MEMORY
           THEN "map" ELSE "halt"
  /\ UNCHANGED <<regions, next, memory_base, memory_size, memory_map_pages_used,
                 start_page, memory_map_array, handed>>

DivRoundUp(num, size) == (num - 1) \div size + 1

(* memory_map_init; its bitmap is the subject of KernelPages.              *)
MemoryMapInit ==
  /\ phase = "map" /\ phase' = "paging"
  /\ memory_map_pages_used' = DivRoundUp(total_pages, PAGE_SIZE)
  /\ free_pages' = (free_pages - memory_map_pages_used') % WORD
  /\ start_page' = MEMORY_BASE + memory_map_pages_used'
  /\ memory_map_array' = [p \in AllPages |->
       IF p < start_page' THEN 1
       ELSE IF p < memory_map_pages_used' * PAGE_SIZE THEN 0 ELSE memory_map_array[p]]
  /\ UNCHANGED <<regions, next, region, handed>>

(* Mutant: the mapped pages are not counted. *)
CountNothing ==
  /\ phase = "paging" /\ phase' = "run"
  /\ UNCHANGED <<regions, next, region, free_pages, memory_map_pages_used,
                 start_page, memory_map_array, handed>>

(* paging_init maps every page of the kernel's memory but page 0.          *)
CountMapped ==
  /\ phase = "paging" /\ phase' = "run"
  /\ memory_map_array' = [p \in AllPages |->
       IF p \in 1 .. KERNEL_MEMORY - 1 THEN (memory_map_array[p] + 1) % COUNTS
       ELSE memory_map_array[p]]
  /\ UNCHANGED <<regions, next, region, free_pages, memory_map_pages_used,
                 start_page, handed>>

Unused == {p \in start_page .. total_pages - 1 : memory_map_array[p] = 0}

(* Mutant: get_page does not count. *)
GetPageUncounted ==
  /\ phase = "run"
  /\ \E p \in Unused :
       /\ \A q \in Unused : p <= q
       /\ memory_map_array' = [memory_map_array EXCEPT ![p] = 1]
       /\ handed' = handed \cup {p}
  /\ UNCHANGED <<phase, regions, next, region, free_pages, memory_map_pages_used,
                 start_page>>

(* get_page: the first page without a reference.                           *)
GetPage ==
  /\ phase = "run"
  /\ \/ \E p \in Unused :
          /\ \A q \in Unused : p <= q
          /\ memory_map_array' = [memory_map_array EXCEPT ![p] = 1]
          /\ free_pages' = (free_pages - 1) % WORD
          /\ handed' = handed \cup {p}
          /\ UNCHANGED phase
     \/ /\ Unused = {}                              \* panic
        /\ phase' = "halt"
        /\ UNCHANGED <<memory_map_array, free_pages, handed>>
  /\ UNCHANGED <<regions, next, region, memory_map_pages_used, start_page>>

(* put_page, of a page its caller was given.                               *)
PutPage(p) ==
  /\ phase = "run" /\ p \in handed
  /\ handed' = handed \ {p}
  /\ IF p \in start_page .. total_pages - 1 /\ memory_map_array[p] >= 1
     THEN /\ memory_map_array' = [memory_map_array EXCEPT ![p] = @ - 1]
          /\ free_pages' = IF memory_map_array[p] = 1 THEN (free_pages + 1) % WORD
                           ELSE free_pages
          /\ UNCHANGED phase
     ELSE phase' = "halt" /\ UNCHANGED <<memory_map_array, free_pages>>
  /\ UNCHANGED <<regions, next, region, memory_map_pages_used, start_page>>

PhysNext ==
  \/ ArdsRecord \/ ArdsEnd \/ MemoryMapInit \/ CountMapped
  \/ GetPage \/ \E p \in AllPages : PutPage(p)

PhysSpec == PhysInit /\ [][PhysNext]_physvars

-----------------------------------------------------------------------------
(* Whatever the BIOS reports, once the kernel runs every page it counts    *)
(* lies in a region that is there, for the 64-bit sizes cut to 32 bits and *)
(* the regions above 4 GB never pass ards_init's two checks by accident;   *)
(* and paging_init, which knows nothing of total_pages, counts only pages  *)
(* that are there and have a counter.                                      *)
UsesRealMemory ==
  /\ PhysTypeOK
  /\ phase \notin {"ards", "halt"} =>
       /\ KERNEL_MEMORY <= total_pages
       /\ \E k \in 1 .. Len(regions) :
            /\ regions[k].valid
            /\ \A p \in MEMORY_BASE .. total_pages - 1 :
                 p - regions[k].base \in 0 .. regions[k].size - 1
  /\ phase \in {"paging", "run"} => total_pages <= memory_map_pages_used * PAGE_SIZE

(* The two allocators share no page: what get_page hands out is never one  *)
(* of the pages that the kernel maps and its bitmap hands out, although    *)
(* start_page lies below them, nor one that holds the counters, which end  *)
(* before start_page; it is there and has one reference.                   *)
PoolsDisjoint ==
  \A p \in handed : /\ p >= KERNEL_MEMORY /\ memory_map_array[p] = 1
                   /\ p \in start_page .. total_pages - 1

(* free_pages moves in step with what is handed out and never goes below   *)
(* zero.                                                                   *)
FreePagesLedger ==
  phase = "run" => free_pages + Cardinality(handed) = memory_size - memory_map_pages_used
=============================================================================
