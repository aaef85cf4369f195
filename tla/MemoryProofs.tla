---------------------------- MODULE MemoryProofs ----------------------------
(***************************************************************************)
(* Memory keeps its promises from the first sector on: the pages of        *)
(* PhysMem, the tables of Paging, the order of Boot and the bitmap of      *)
(* KernelPages, in this order, each with its invariant, a lemma for each   *)
(* action and its theorems.                                                *)
(***************************************************************************)
EXTENDS Boot, KernelPages, FiniteSetTheorems, TLAPS


-----------------------------------------------------------------------------
(***************************************************************************)
(* PhysMem keeps its promises for every report the BIOS may make.  The     *)
(* invariant says where the chosen region comes from (Chosen, Sized), what *)
(* memory_map_init made of it (Laid), that the kernel's pages are counted  *)
(* (Counted) and who has the others (Owned).                               *)
(***************************************************************************)
Region(k, base, size) ==
  /\ k \in 1 .. Len(regions) /\ regions[k].valid
  /\ base = regions[k].base % WORD /\ size = regions[k].size % WORD

Chosen ==
  /\ regions \in MemoryMaps /\ next \in Nat \ {0}
  /\ phase = "ards" =>
       \/ memory_base = 0 /\ memory_size = 0
       \/ \E k \in 1 .. Len(regions) : Region(k, memory_base, memory_size)

Sized ==
  phase \in {"map", "paging", "run"} =>
    /\ total_pages = MEMORY_BASE + memory_size /\ memory_size >= KERNEL_MEMORY
    /\ \E k \in 1 .. Len(regions) :
         /\ regions[k].valid
         /\ regions[k].base = MEMORY_BASE /\ regions[k].size = memory_size

Laid ==
  /\ phase = "map" => free_pages = memory_size
  /\ phase \in {"paging", "run"} =>
       /\ memory_map_pages_used \in 1 .. memory_size
       /\ start_page = MEMORY_BASE + memory_map_pages_used
       /\ total_pages <= memory_map_pages_used * PAGE_SIZE
  /\ phase = "paging" => free_pages = memory_size - memory_map_pages_used

Counted ==
  /\ phase = "paging" => \A p \in 1 .. KERNEL_MEMORY - 1 : memory_map_array[p] \in {0, 1}
  /\ phase = "run" => \A p \in 1 .. KERNEL_MEMORY - 1 : memory_map_array[p] >= 1

Owned ==
  /\ phase \in {"ards", "map", "paging"} => handed = {}
  /\ IsFiniteSet(handed)
  /\ PoolsDisjoint

PInv ==
  /\ PhysTypeOK /\ Chosen /\ Sized /\ Laid /\ Counted /\ Owned /\ FreePagesLedger

-----------------------------------------------------------------------------
(* Arithmetic.                                                             *)
LEMMA Constants ==
  /\ WORD \in Nat \ {0} /\ MEMORY_BASE \in Nat \ {0} /\ KERNEL_MEMORY \in Nat
  /\ PAGE_SIZE \in Nat /\ PAGE_SIZE > 1 /\ COUNTS \in Nat /\ COUNTS > 2
  /\ MEMORY_BASE < KERNEL_MEMORY /\ KERNEL_MEMORY < WORD
BY PhysMemAssumption

LEMMA ModWord ==
  ASSUME NEW n \in Int
  PROVE  (n % WORD) \in AllPages /\ (n \in AllPages => n % WORD = n)
BY Constants DEF AllPages

LEMMA PagesToCover ==
  ASSUME NEW n \in Nat \ {0}
  PROVE  /\ DivRoundUp(n, PAGE_SIZE) \in Nat \ {0}
         /\ n <= DivRoundUp(n, PAGE_SIZE) * PAGE_SIZE
         /\ 2 * (DivRoundUp(n, PAGE_SIZE) - 1) <= n - 1
<1> DEFINE q == (n - 1) \div PAGE_SIZE
<1>1. q \in Nat /\ PAGE_SIZE * q <= n - 1 /\ n - 1 < PAGE_SIZE * q + PAGE_SIZE
  BY Constants
<1>2. DivRoundUp(n, PAGE_SIZE) = q + 1
  BY DEF DivRoundUp
<1> HIDE DEF q
<1>3. 2 * q <= PAGE_SIZE * q /\ PAGE_SIZE * q + PAGE_SIZE = (q + 1) * PAGE_SIZE
  BY <1>1, Constants
<1>. QED  BY <1>1, <1>2, <1>3, Constants

LEMMA Records ==
  ASSUME Chosen, NEW k \in 1 .. Len(regions)
  PROVE  /\ regions[k].base \in Nat /\ regions[k].size \in Nat
         /\ regions[k].valid \in BOOLEAN
<1> DEFINE R == [base : Nat, size : Nat, valid : BOOLEAN]
<1>1. regions \in Seq(R)
  BY PhysMemAssumption DEF Chosen
<1>2. \A x \in R : x.base \in Nat /\ x.size \in Nat /\ x.valid \in BOOLEAN
  OBVIOUS
<1> HIDE DEF R
<1>3. regions[k] \in R
  BY <1>1
<1>. QED  BY <1>2, <1>3

(* A region that starts at 1 MB, in 32 bits, is the one below 4 GB.        *)
LEMMA NotCut ==
  ASSUME Chosen, NEW k \in 1 .. Len(regions), Region(k, MEMORY_BASE, memory_size)
  PROVE  /\ regions[k].valid /\ regions[k].base = MEMORY_BASE
         /\ regions[k].size = memory_size /\ MEMORY_BASE + memory_size < WORD
<1>1. /\ regions[k].base \in Nat /\ regions[k].size \in Nat /\ regions[k].valid
      /\ MEMORY_BASE = regions[k].base % WORD /\ memory_size = regions[k].size % WORD
  BY Records DEF Region
<1>2. IF regions[k].base < WORD THEN regions[k].base + regions[k].size < WORD
      ELSE regions[k].base % WORD # MEMORY_BASE
  BY <1>1, RegionsAssumption DEF Chosen
<1>3. regions[k].base < WORD /\ regions[k].base + regions[k].size < WORD
  BY <1>1, <1>2
<1>4. regions[k].base % WORD = regions[k].base /\ regions[k].size % WORD = regions[k].size
  <2>1. regions[k].base \in AllPages /\ regions[k].size \in AllPages
    BY <1>1, <1>3, Constants DEF AllPages
  <2>. QED  BY <1>1, <2>1, ModWord
<1>. QED  BY <1>1, <1>3, <1>4

-----------------------------------------------------------------------------
(* The actions.                                                            *)
LEMMA InitInv == PhysInit => PInv
<1>1. SUFFICES ASSUME PhysInit PROVE PInv
  OBVIOUS
<1>2. PhysTypeOK
  BY <1>1, Constants DEF PhysInit, Statics, PhysTypeOK, AllPages
<1>. QED  BY <1>1, <1>2, FS_EmptySet
             DEF PhysInit, Statics, PInv, Chosen, Sized, Laid, Counted, Owned,
                 PoolsDisjoint, FreePagesLedger

LEMMA ArdsRecordInv == PInv /\ ArdsRecord => PInv'
<1>1. SUFFICES ASSUME PInv, ArdsRecord PROVE PInv'
  OBVIOUS
<1>2. next \in 1 .. Len(regions) /\ phase = "ards" /\ next' = next + 1
  BY <1>1, PhysMemAssumption DEF PInv, Chosen, ArdsRecord
<1>3. regions[next].base \in Nat /\ regions[next].size \in Nat
  BY <1>1, <1>2, Records DEF PInv
<1>4. PhysTypeOK'
  <2>1. /\ regions[next].base % WORD \in AllPages /\ regions[next].size % WORD \in AllPages
        /\ memory_base \in AllPages /\ memory_size \in AllPages
    BY <1>1, <1>3, ModWord DEF PInv, PhysTypeOK
  <2>2. memory_base' \in AllPages /\ memory_size' \in AllPages
    BY <1>1, <2>1 DEF ArdsRecord
  <2>. QED  BY <1>1, <1>2, <2>2 DEF PInv, PhysTypeOK, ArdsRecord
<1>5. Chosen'
  BY <1>1, <1>2 DEF PInv, Chosen, ArdsRecord, Region
<1>. QED  BY <1>1, <1>4, <1>5
             DEF PInv, ArdsRecord, Sized, Laid, Counted, Owned, PoolsDisjoint,
                 FreePagesLedger, region

LEMMA ArdsEndInv == PInv /\ ArdsEnd => PInv'
<1>1. SUFFICES ASSUME PInv, ArdsEnd PROVE PInv'
  OBVIOUS
<1>2. /\ phase = "ards" /\ memory_size \in AllPages /\ memory_base \in AllPages
      /\ handed' = {} /\ memory_base' = memory_base /\ memory_size' = memory_size
      /\ phase' \in {"map", "halt"}
  BY <1>1 DEF PInv, Owned, PhysTypeOK, ArdsEnd
<1>3. PhysTypeOK'
  <2>1. (memory_size + memory_base) % WORD \in AllPages
    BY <1>2, ModWord DEF AllPages
  <2>2. total_pages' \in AllPages /\ free_pages' \in AllPages
    BY <1>1, <1>2, <2>1 DEF PInv, PhysTypeOK, ArdsEnd
  <2>. QED  BY <1>1, <1>2, <2>2 DEF PInv, PhysTypeOK, ArdsEnd
<1>4. Chosen'
  BY <1>1, <1>2 DEF PInv, Chosen, ArdsEnd
<1>5. Sized' /\ Laid'
  <2>1. SUFFICES ASSUME phase' = "map" PROVE Sized' /\ Laid'
    BY <1>2 DEF Sized, Laid
  <2>2. memory_base = MEMORY_BASE /\ memory_size >= KERNEL_MEMORY
    BY <1>1, <2>1 DEF ArdsEnd
  <2>3. PICK k \in 1 .. Len(regions) : Region(k, MEMORY_BASE, memory_size)
    BY <1>1, <1>2, <2>2, Constants DEF PInv, Chosen
  <2>4. /\ regions[k].valid /\ regions[k].base = MEMORY_BASE
        /\ regions[k].size = memory_size /\ MEMORY_BASE + memory_size < WORD
    BY <1>1, <2>3, NotCut DEF PInv
  <2>5. total_pages' = MEMORY_BASE + memory_size /\ free_pages' = memory_size
    <3>1. memory_size + MEMORY_BASE \in AllPages
      BY <1>2, <2>4, Constants DEF AllPages
    <3>2. memory_size + MEMORY_BASE \in Int /\ memory_size + MEMORY_BASE = MEMORY_BASE + memory_size
      BY <1>2, Constants DEF AllPages
    <3>3. (memory_size + MEMORY_BASE) % WORD = memory_size + MEMORY_BASE
      BY <3>1, <3>2, ModWord
    <3>. QED  BY <1>1, <2>2, <3>2, <3>3 DEF ArdsEnd
  <2>. QED  BY <1>1, <1>2, <2>1, <2>2, <2>4, <2>5 DEF Sized, Laid, ArdsEnd
<1>6. Counted' /\ Owned' /\ FreePagesLedger'
  BY <1>2, FS_EmptySet DEF Counted, Owned, PoolsDisjoint, FreePagesLedger
<1>. QED  BY <1>3, <1>4, <1>5, <1>6 DEF PInv

LEMMA MemoryMapInitInv == PInv /\ MemoryMapInit => PInv'
<1>1. SUFFICES ASSUME PInv, MemoryMapInit PROVE PInv'
  OBVIOUS
<1>2. /\ phase = "map" /\ phase' = "paging" /\ handed = {} /\ handed' = {}
      /\ total_pages = MEMORY_BASE + memory_size /\ memory_size >= KERNEL_MEMORY
      /\ total_pages \in AllPages /\ memory_size \in AllPages /\ free_pages = memory_size
      /\ UNCHANGED <<regions, next, memory_base, memory_size, total_pages>>
  BY <1>1 DEF PInv, PhysTypeOK, Sized, Laid, Owned, MemoryMapInit, region
<1> DEFINE used == DivRoundUp(total_pages, PAGE_SIZE)
<1>3. /\ used \in Nat \ {0} /\ total_pages <= used * PAGE_SIZE
      /\ 2 * (used - 1) <= total_pages - 1
  BY <1>2, PagesToCover, Constants DEF AllPages
<1>4. /\ memory_map_pages_used' = used
      /\ free_pages' = (free_pages - used) % WORD
      /\ start_page' = MEMORY_BASE + used
      /\ memory_map_array' = [p \in AllPages |->
           IF p < MEMORY_BASE + used THEN 1
           ELSE IF p < used * PAGE_SIZE THEN 0 ELSE memory_map_array[p]]
  BY <1>1 DEF MemoryMapInit
<1> HIDE DEF used
<1>5. used <= memory_size /\ MEMORY_BASE + used \in AllPages
      /\ memory_size - used \in AllPages
  BY <1>2, <1>3, Constants DEF AllPages
<1>6. free_pages' = memory_size - used
  BY <1>2, <1>4, <1>5, ModWord DEF AllPages
<1>7. memory_map_array' \in [AllPages -> 0 .. COUNTS - 1]
  <2>1. 0 \in 0 .. COUNTS - 1 /\ 1 \in 0 .. COUNTS - 1
    BY Constants
  <2>2. memory_map_array \in [AllPages -> 0 .. COUNTS - 1]
    BY <1>1 DEF PInv, PhysTypeOK
  <2>. QED  BY <1>4, <2>1, <2>2
<1>8. PhysTypeOK'
  BY <1>1, <1>2, <1>4, <1>5, <1>6, <1>7 DEF PInv, PhysTypeOK
<1>9. Chosen' /\ Sized'
  BY <1>1, <1>2 DEF PInv, Chosen, Sized
<1>10. Laid'
  BY <1>2, <1>3, <1>4, <1>5, <1>6 DEF Laid, AllPages
<1>11. Counted'
  <2>1. ASSUME NEW p \in 1 .. KERNEL_MEMORY - 1 PROVE memory_map_array'[p] \in {0, 1}
    <3>1. used * PAGE_SIZE \in Nat
      BY <1>3, Constants
    <3>2. p \in AllPages /\ p < used * PAGE_SIZE
      BY <1>2, <1>3, <3>1, Constants DEF AllPages
    <3>. QED  BY <1>4, <3>2
  <2>. QED  BY <1>2, <2>1 DEF Counted
<1>12. Owned' /\ FreePagesLedger'
  BY <1>2, FS_EmptySet DEF Owned, PoolsDisjoint, FreePagesLedger
<1>. QED  BY <1>8, <1>9, <1>10, <1>11, <1>12 DEF PInv

LEMMA CountMappedInv == PInv /\ CountMapped => PInv'
<1>1. SUFFICES ASSUME PInv, CountMapped PROVE PInv'
  OBVIOUS
<1>2. /\ phase = "paging" /\ phase' = "run" /\ handed = {}
      /\ memory_map_array \in [AllPages -> 0 .. COUNTS - 1]
      /\ UNCHANGED <<regions, next, memory_base, memory_size, total_pages, free_pages,
                     memory_map_pages_used, start_page, handed>>
  BY <1>1 DEF PInv, PhysTypeOK, Owned, CountMapped, region
<1>3. memory_map_array' \in [AllPages -> 0 .. COUNTS - 1]
  <2>1. ASSUME NEW p \in AllPages
        PROVE  (memory_map_array[p] + 1) % COUNTS \in 0 .. COUNTS - 1
    BY <1>2, Constants
  <2>. QED  BY <1>1, <1>2, <2>1 DEF CountMapped
<1>4. PhysTypeOK'
  BY <1>1, <1>2, <1>3 DEF PInv, PhysTypeOK
<1>5. Chosen' /\ Sized' /\ Laid'
  BY <1>1, <1>2 DEF PInv, Chosen, Sized, Laid
<1>6. Counted'
  <2>1. ASSUME NEW p \in 1 .. KERNEL_MEMORY - 1 PROVE memory_map_array'[p] >= 1
    <3>1. p \in AllPages /\ memory_map_array[p] \in {0, 1}
      BY <1>1, <1>2, Constants DEF PInv, Counted, AllPages
    <3>2. memory_map_array'[p] = (memory_map_array[p] + 1) % COUNTS
      BY <1>1, <3>1 DEF CountMapped
    <3>. QED  BY <3>1, <3>2, Constants
  <2>. QED  BY <1>2, <2>1 DEF Counted
<1>7. Owned'
  BY <1>2, FS_EmptySet DEF Owned, PoolsDisjoint
<1>8. FreePagesLedger'
  BY <1>1, <1>2, FS_EmptySet DEF PInv, Laid, FreePagesLedger, PhysTypeOK, AllPages
<1>. QED  BY <1>4, <1>5, <1>6, <1>7, <1>8 DEF PInv

(* A page that is unused is not the kernel's.                              *)
LEMMA UnusedAbove ==
  ASSUME PInv, phase = "run", NEW p \in Unused
  PROVE  /\ p \in start_page .. total_pages - 1 /\ p \in AllPages
         /\ p >= KERNEL_MEMORY /\ p \notin handed
<1>1. p \in start_page .. total_pages - 1 /\ memory_map_array[p] = 0
      /\ start_page \in Nat /\ total_pages \in Nat /\ total_pages < WORD
  BY Constants DEF Unused, PInv, PhysTypeOK, AllPages
<1>4. start_page >= 1 /\ p \in Nat
  BY <1>1, Constants DEF PInv, Laid
<1>2. p >= KERNEL_MEMORY
  <2>1. SUFFICES ASSUME ~(p >= KERNEL_MEMORY) PROVE FALSE
    OBVIOUS
  <2>2. p \in 1 .. KERNEL_MEMORY - 1
    BY <1>1, <1>4, <2>1, Constants
  <2>3. memory_map_array[p] >= 1
    BY <2>2 DEF PInv, Counted
  <2>. QED  BY <1>1, <2>3
<1>3. p \notin handed
  BY <1>1 DEF PInv, Owned, PoolsDisjoint
<1>. QED  BY <1>1, <1>4, <1>2, <1>3, Constants DEF AllPages

LEMMA GetPageInv == PInv /\ GetPage => PInv'
<1>1. SUFFICES ASSUME PInv, GetPage PROVE PInv'
  OBVIOUS
<1>2. /\ phase = "run" /\ IsFiniteSet(handed)
      /\ UNCHANGED <<regions, next, memory_base, memory_size, total_pages,
                     memory_map_pages_used, start_page>>
  BY <1>1 DEF GetPage, region, PInv, Owned
<1>3. CASE phase' = "halt" /\ UNCHANGED <<memory_map_array, free_pages, handed>>
  BY <1>1, <1>2, <1>3
     DEF PInv, PhysTypeOK, Chosen, Sized, Laid, Counted, Owned, PoolsDisjoint, FreePagesLedger
<1>4. CASE \E p \in Unused :
             /\ memory_map_array' = [memory_map_array EXCEPT ![p] = 1]
             /\ free_pages' = (free_pages - 1) % WORD
             /\ handed' = handed \cup {p}
             /\ phase' = phase
  <2>1. PICK p \in Unused :
          /\ memory_map_array' = [memory_map_array EXCEPT ![p] = 1]
          /\ free_pages' = (free_pages - 1) % WORD
          /\ handed' = handed \cup {p}
          /\ phase' = phase
    BY <1>4
  <2>2. /\ p \in start_page .. total_pages - 1 /\ p \in AllPages
        /\ p >= KERNEL_MEMORY /\ p \notin handed
    BY <1>1, <1>2, UnusedAbove
  <2>3. /\ memory_map_array \in [AllPages -> 0 .. COUNTS - 1] /\ free_pages \in AllPages
        /\ handed \subseteq AllPages
        /\ start_page \in AllPages /\ total_pages \in AllPages
        /\ \A q \in handed : q \in start_page .. total_pages - 1
    BY <1>1 DEF PInv, PhysTypeOK, Owned, PoolsDisjoint
  <2>4. /\ IsFiniteSet(handed') /\ Cardinality(handed') = Cardinality(handed) + 1
        /\ Cardinality(handed) \in Nat
    BY <1>2, <2>1, <2>2, FS_AddElement, FS_CardinalityType
  <2>5. Cardinality(handed') <= total_pages - start_page
    <3>1. handed' \subseteq start_page .. total_pages - 1
      BY <2>1, <2>2, <2>3
    <3>2. /\ IsFiniteSet(start_page .. total_pages - 1)
          /\ Cardinality(start_page .. total_pages - 1) = total_pages - start_page
      <4>1. start_page \in Int /\ total_pages - 1 \in Int /\ start_page <= total_pages - 1
        BY <2>2, <2>3 DEF AllPages
      <4>2. PICK top \in Int : top = total_pages - 1
        BY <4>1
      <4>3. /\ IsFiniteSet(start_page .. top)
            /\ Cardinality(start_page .. top) = top - start_page + 1
        <5>1. ~(start_page > top)
          BY <4>1, <4>2
        <5>. QED  BY <4>1, <5>1, FS_Interval
      <4>4. top - start_page + 1 = total_pages - start_page
        BY <2>3, <4>2 DEF AllPages
      <4>. QED  BY <4>2, <4>3, <4>4
    <3>. QED  BY <3>1, <3>2, FS_Subset
  <2>6. free_pages - 1 \in AllPages /\ free_pages' = free_pages - 1
    <3>1. /\ free_pages + Cardinality(handed) = memory_size - memory_map_pages_used
          /\ total_pages - start_page = memory_size - memory_map_pages_used
          /\ memory_size \in Nat /\ memory_map_pages_used \in Nat
      <4>1. /\ free_pages + Cardinality(handed) = memory_size - memory_map_pages_used
            /\ total_pages = MEMORY_BASE + memory_size
            /\ start_page = MEMORY_BASE + memory_map_pages_used
            /\ memory_map_pages_used \in 1 .. memory_size /\ memory_size \in AllPages
        BY <1>1, <1>2 DEF PInv, FreePagesLedger, Sized, Laid, PhysTypeOK
      <4>. QED  BY <4>1, Constants DEF AllPages
    <3>2. free_pages - 1 \in AllPages
      BY <2>3, <2>4, <2>5, <3>1, Constants DEF AllPages
    <3>. QED  BY <2>1, <3>2, ModWord DEF AllPages
  <2>7. PhysTypeOK'
    BY <1>1, <1>2, <2>1, <2>2, <2>3, <2>6, Constants DEF PInv, PhysTypeOK
  <2>8. Chosen' /\ Sized' /\ Laid'
    BY <1>1, <1>2, <2>1 DEF PInv, Chosen, Sized, Laid
  <2>9. Counted'
    BY <1>1, <1>2, <2>1, <2>2, <2>3, Constants DEF PInv, Counted, AllPages
  <2>10. Owned'
    BY <1>1, <1>2, <2>1, <2>2, <2>3, <2>4 DEF PInv, Owned, PoolsDisjoint
  <2>11. FreePagesLedger'
    BY <1>1, <1>2, <2>1, <2>3, <2>4, <2>6 DEF PInv, FreePagesLedger, AllPages
  <2>. QED  BY <2>7, <2>8, <2>9, <2>10, <2>11 DEF PInv
<1>. QED  BY <1>1, <1>3, <1>4 DEF GetPage

LEMMA PutPageInv ==
  ASSUME PInv, NEW p \in AllPages, PutPage(p)
  PROVE  PInv'
<1>1. /\ phase = "run" /\ IsFiniteSet(handed) /\ p \in handed /\ handed' = handed \ {p}
      /\ UNCHANGED <<regions, next, memory_base, memory_size, total_pages,
                     memory_map_pages_used, start_page>>
  BY DEF PutPage, region, PInv, Owned
<1>2. /\ memory_map_array \in [AllPages -> 0 .. COUNTS - 1] /\ free_pages \in AllPages
      /\ p \in start_page .. total_pages - 1 /\ memory_map_array[p] = 1
      /\ p >= KERNEL_MEMORY /\ handed \subseteq AllPages
  BY <1>1 DEF PInv, PhysTypeOK, Owned, PoolsDisjoint
<1>3. /\ memory_map_array' = [memory_map_array EXCEPT ![p] = 0]
      /\ free_pages' = (free_pages + 1) % WORD /\ phase' = phase
  BY <1>2 DEF PutPage
<1>4. /\ IsFiniteSet(handed') /\ Cardinality(handed') = Cardinality(handed) - 1
      /\ Cardinality(handed) \in Nat /\ Cardinality(handed') \in Nat
  BY <1>1, FS_RemoveElement, FS_CardinalityType
<1>5. free_pages + 1 \in AllPages /\ free_pages' = free_pages + 1
  <2>1. /\ free_pages + Cardinality(handed) = memory_size - memory_map_pages_used
        /\ memory_size \in AllPages /\ memory_map_pages_used \in Nat
    BY <1>1 DEF PInv, FreePagesLedger, Laid, PhysTypeOK, AllPages
  <2>2. free_pages + 1 \in AllPages
    BY <1>2, <1>4, <2>1, Constants DEF AllPages
  <2>. QED  BY <1>2, <1>3, <2>2, ModWord DEF AllPages
<1>6. PhysTypeOK'
  BY <1>1, <1>2, <1>3, <1>5, Constants DEF PInv, PhysTypeOK
<1>7. Chosen' /\ Sized' /\ Laid'
  BY <1>1, <1>3 DEF PInv, Chosen, Sized, Laid
<1>8. Counted'
  BY <1>1, <1>2, <1>3, Constants DEF PInv, Counted, AllPages
<1>9. Owned'
  BY <1>1, <1>2, <1>3, <1>4 DEF PInv, Owned, PoolsDisjoint
<1>10. FreePagesLedger'
  BY <1>1, <1>2, <1>3, <1>4, <1>5 DEF PInv, FreePagesLedger, AllPages
<1>. QED  BY <1>6, <1>7, <1>8, <1>9, <1>10 DEF PInv

LEMMA NextInv == PInv /\ [PhysNext]_physvars => PInv'
<1>1. SUFFICES ASSUME PInv, [PhysNext]_physvars PROVE PInv'
  OBVIOUS
<1>2. CASE UNCHANGED physvars
  BY <1>1, <1>2 DEF physvars, region, PInv, PhysTypeOK, Chosen, Region, Sized, Laid,
     Counted, Owned, PoolsDisjoint, FreePagesLedger
<1>. QED  BY <1>1, <1>2, ArdsRecordInv, ArdsEndInv, MemoryMapInitInv, CountMappedInv,
             GetPageInv, PutPageInv DEF PhysNext

LEMMA Invariance == PhysSpec => []PInv
BY InitInv, NextInv, PTL DEF PhysSpec

-----------------------------------------------------------------------------
(* Every page the kernel counts is in a region that is there and has a     *)
(* counter, whatever the BIOS reports.                                     *)
THEOREM CountsRealPages == PhysSpec => []UsesRealMemory
<1>1. ASSUME PInv PROVE UsesRealMemory
  <2>1. PhysTypeOK /\ phase \in {"ards", "map", "paging", "run", "halt"}
    BY <1>1 DEF PInv, PhysTypeOK
  <2>2. ASSUME phase \notin {"ards", "halt"}
        PROVE  /\ KERNEL_MEMORY <= total_pages
               /\ \E k \in 1 .. Len(regions) :
                    /\ regions[k].valid
                    /\ \A p \in MEMORY_BASE .. total_pages - 1 :
                         p - regions[k].base \in 0 .. regions[k].size - 1
    <3>1. /\ total_pages = MEMORY_BASE + memory_size /\ memory_size >= KERNEL_MEMORY
          /\ memory_size \in Nat
      BY <1>1, <2>1, <2>2 DEF PInv, PhysTypeOK, Sized, AllPages
    <3>2. PICK k \in 1 .. Len(regions) :
            /\ regions[k].valid
            /\ regions[k].base = MEMORY_BASE /\ regions[k].size = memory_size
      BY <1>1, <2>1, <2>2 DEF PInv, Sized
    <3>3. \A p \in MEMORY_BASE .. total_pages - 1 :
            p - regions[k].base \in 0 .. regions[k].size - 1
      BY <3>1, <3>2, Constants
    <3>. QED  BY <3>1, <3>2, <3>3, Constants
  <2>3. phase \in {"paging", "run"} => total_pages <= memory_map_pages_used * PAGE_SIZE
    BY <1>1 DEF PInv, Laid
  <2>. QED  BY <2>1, <2>2, <2>3 DEF UsesRealMemory
<1>. QED  BY <1>1, Invariance, PTL

(* A frame handed out by get_page is neither a page that the kernel maps   *)
(* nor one that holds the array of counters, lies in the memory found, and *)
(* has one reference.                                                      *)
THEOREM FramesApart == PhysSpec => []PoolsDisjoint
<1>1. PInv => PoolsDisjoint
  BY DEF PInv, Owned
<1>. QED  BY <1>1, Invariance, PTL

(* free_pages is exact, and never below zero.                              *)
THEOREM FreePagesExact == PhysSpec => []FreePagesLedger
<1>1. PInv => FreePagesLedger
  BY DEF PInv
<1>. QED  BY <1>1, Invariance, PTL

-----------------------------------------------------------------------------
(***************************************************************************)
(* Paging keeps its promises for tables of any size.  The invariant says   *)
(* what the directory holds (DirInv) and the kernel's tables (TablesInv),  *)
(* where a page of paging_test is mapped (UserInv), how far the test has   *)
(* to be for that (TestInv), that the TLB may have another frame only      *)
(* between the second edit and disable_tlb (TlbInv), and that for all      *)
(* other pages the TLB has what is in memory (WindowInv).                  *)
(***************************************************************************)
UserIndex == TABLES .. Last - 1

DirInv ==
  paging =>
    /\ \A d \in 0 .. TABLES - 1 : mem[KERNEL_PAGE_DIR][d] = KERNEL_PAGE_TABLE(d)
    /\ mem[KERNEL_PAGE_DIR][Last] = KERNEL_PAGE_DIR
    /\ \A d \in UserIndex : mem[KERNEL_PAGE_DIR][d] \in {NONE, NewTable}
    /\ \A d \in UserIndex, e \in UserIndex :
         mem[KERNEL_PAGE_DIR][d] = NewTable /\ mem[KERNEL_PAGE_DIR][e] = NewTable => d = e

TablesInv ==
  paging => \A f \in KernelTables, e \in Index : mem[f][e] = Entry(f, e)

UserInv ==
  \A v \in UserPages :
    /\ mapped[v] \in Targets \cup {NONE}
    /\ mapped[v] # NONE => /\ mem[KERNEL_PAGE_DIR][v[1]] = NewTable
                           /\ mem[NewTable][v[2]] = mapped[v]

Unmapped == {"idle", "pde", "pte"}

TestInv ==
  \A v \in UserPages :
    /\ test[v] \in Unmapped \cup {"use_a", "again", "invlpg", "use_b", "done"}
    /\ mapped[v] = NONE <=> test[v] \in Unmapped
    /\ test[v] = "pte" => mem[KERNEL_PAGE_DIR][v[1]] = NewTable

TlbInv == \A v \in UserPages : test[v] # "invlpg" => tlb[v] \in {NONE, mapped[v]}

WindowInv == \A v \in Watched \ UserPages : tlb[v] \in {NONE, Walk(mem, v)}

OffInv ==
  ~paging => /\ \A v \in UserPages : test[v] = "idle"
             /\ \A v \in Watched : tlb[v] = NONE /\ mapped[v] = NONE

PgInv ==
  /\ PageTypeOK /\ DirInv /\ TablesInv /\ UserInv /\ TestInv /\ TlbInv /\ WindowInv /\ OffInv

-----------------------------------------------------------------------------
(* The frames of the tables are different, and none of them is page 0.     *)
LEMMA TableNumbers ==
  /\ ENTRIES \in Nat /\ TABLES \in Nat /\ 0 < TABLES /\ TABLES < Last
  /\ Last \in Nat /\ Last = ENTRIES - 1 /\ TABLES * ENTRIES \in Nat
  /\ TABLES + 2 <= TABLES * ENTRIES
<1>1. ENTRIES \in Nat /\ TABLES \in Nat /\ 0 < TABLES /\ TABLES < Last
  BY PagingAssumption
<1>2. ENTRIES <= TABLES * ENTRIES /\ TABLES * ENTRIES \in Nat
  BY <1>1
<1>. QED  BY <1>1, <1>2 DEF Last

LEMMA DifferentFrames ==
  /\ KernelTables \subseteq 2 .. TABLES + 1 /\ \A d \in 0 .. TABLES - 1 : d + 2 \in KernelTables
  /\ NewTable \notin KernelTables /\ NewTable # KERNEL_PAGE_DIR /\ NewTable # NONE
  /\ KERNEL_PAGE_DIR \notin KernelTables /\ NONE \notin TableFrames /\ 0 \notin TableFrames
  /\ NewTable \in Nat /\ \A f \in Targets : f \in Nat /\ f # NONE
  /\ TableFrames \subseteq Frames /\ 0 \in Index /\ Last \in Index
  /\ NONE \notin Frames
<1>1. KernelTables \subseteq 2 .. TABLES + 1
  BY TableNumbers DEF KernelTables, KERNEL_PAGE_TABLE
<1>2. \A d \in 0 .. TABLES - 1 : d + 2 \in KernelTables
  BY DEF KernelTables, KERNEL_PAGE_TABLE
<1>3. /\ \A f \in Targets : f \in Nat /\ f # NONE
      /\ NewTable \in Nat /\ NewTable >= TABLES * ENTRIES
  BY PagingAssumption DEF NONE
<1>. QED  BY <1>1, <1>2, <1>3, TableNumbers
             DEF KERNEL_PAGE_DIR, NONE, TableFrames, Frames, Index

LEMMA PagePairs ==
  ASSUME NEW v \in Watched
  PROVE  /\ v[1] \in Index /\ v[2] \in Index /\ v = <<v[1], v[2]>>
         /\ v \in UserPages <=> v[1] \in UserIndex
         /\ v \notin UserPages => v[1] \in 0 .. TABLES - 1 \/ v[1] = Last
<1>1. v \in Index \X Index
  BY PagingAssumption DEF Index
<1>. QED  BY <1>1, TableNumbers DEF UserPages, UserIndex, Index

(* The order of paging_test.                                               *)
LEMMA Sequence ==
  /\ Follows.idle = "pde" /\ Follows.invlpg = "use_b"
  /\ Follows["pde"] = "pte" /\ Follows["pte"] = "use_a" /\ Follows["use_a"] = "again"
  /\ Follows["again"] = "invlpg" /\ Follows["use_b"] = "done"
  /\ Unmapped \cup {"use_a", "again", "invlpg", "use_b", "done"}
       \subseteq DOMAIN Follows \cup {"done", "fault"}
BY DEF Follows, Unmapped

(* What the kernel's tables hold.                                          *)
LEMMA EntryOf ==
  ASSUME NEW d \in 0 .. TABLES - 1, NEW e \in Index
  PROVE  /\ Entry(d + 2, e) = Identity(d * ENTRIES + e)
         /\ d * ENTRIES + e \in 0 .. TABLES * ENTRIES - 1
         /\ Entry(d + 2, e) \in Frames \cup {NONE}
<1>1. Entry(d + 2, e) = Identity(d * ENTRIES + e)
  <2>1. d + 2 # KERNEL_PAGE_DIR /\ (d + 2) - KERNEL_PAGE_TABLE(0) = d
    BY TableNumbers DEF KERNEL_PAGE_DIR, KERNEL_PAGE_TABLE
  <2>2. Entry(d + 2, e) = Identity(((d + 2) - KERNEL_PAGE_TABLE(0)) * ENTRIES + e)
    BY <2>1, Zenon DEF Entry
  <2>. QED  BY <2>1, <2>2, Zenon
<1>2. d * ENTRIES + e \in 0 .. TABLES * ENTRIES - 1
  <2>1. TABLES = (d + 1) + (TABLES - d - 1) /\ TABLES - d - 1 \in Nat /\ d \in Nat /\ ENTRIES \in Nat
    BY TableNumbers
  <2>2. TABLES * ENTRIES = (d + 1) * ENTRIES + (TABLES - d - 1) * ENTRIES
    BY <2>1
  <2>3. (d + 1) * ENTRIES = d * ENTRIES + ENTRIES /\ (TABLES - d - 1) * ENTRIES \in Nat
        /\ d * ENTRIES \in Nat
    BY <2>1
  <2>4. (d + 1) * ENTRIES <= TABLES * ENTRIES
    BY <2>1, <2>2, <2>3
  <2>. QED  BY <2>3, <2>4, TableNumbers DEF Index
<1>. QED  BY <1>1, <1>2 DEF Identity, Frames

LEMMA EntryType ==
  ASSUME NEW f \in TableFrames \ {NewTable}, NEW e \in Index
  PROVE  Entry(f, e) \in Frames \cup {NONE}
<1>1. CASE f = KERNEL_PAGE_DIR
  <2>1. Entry(f, e) \in KernelTables \cup {KERNEL_PAGE_DIR, NONE}
    BY <1>1, TableNumbers DEF Entry, KernelTables, Index
  <2>. QED  BY <2>1, DifferentFrames DEF TableFrames
<1>2. CASE f \in KernelTables
  <2>1. PICK d \in 0 .. TABLES - 1 : f = d + 2
    BY <1>2 DEF KernelTables, KERNEL_PAGE_TABLE
  <2>. QED  BY <2>1, EntryOf
<1>. QED  BY <1>1, <1>2 DEF TableFrames

-----------------------------------------------------------------------------
(* The walks.                                                              *)
LEMMA WalkKernel ==
  ASSUME PgInv, paging, NEW v \in Watched, v[1] \in 0 .. TABLES - 1
  PROVE  Walk(mem, v) = Identity(v[1] * ENTRIES + v[2])
<1>1. mem[KERNEL_PAGE_DIR][v[1]] = v[1] + 2 /\ v[1] + 2 \in KernelTables /\ v[2] \in Index
  BY DifferentFrames, PagePairs DEF PgInv, DirInv, KERNEL_PAGE_TABLE
<1>2. mem[v[1] + 2][v[2]] = Entry(v[1] + 2, v[2])
  BY <1>1 DEF PgInv, TablesInv
<1>. QED  BY <1>1, <1>2, EntryOf DEF Walk, TableFrames

LEMMA WalkWindow ==
  ASSUME PgInv, paging, NEW v, v[1] = Last
  PROVE  Walk(mem, v) = mem[KERNEL_PAGE_DIR][v[2]]
BY DEF PgInv, DirInv, Walk, TableFrames

LEMMA WalkUser ==
  ASSUME PgInv, paging, NEW v \in UserPages
  PROVE  Walk(mem, v) = IF mem[KERNEL_PAGE_DIR][v[1]] = NewTable
                        THEN mem[NewTable][v[2]] ELSE NONE
<1>1. mem[KERNEL_PAGE_DIR][v[1]] \in {NONE, NewTable}
  BY PagePairs DEF PgInv, DirInv, UserPages, UserIndex
<1>. QED  BY <1>1, DifferentFrames DEF Walk, TableFrames

(* The pages of the window lead to the frames they are meant for.          *)
LEMMA WindowLeads ==
  ASSUME PgInv, paging, NEW d \in Index
  PROVE  Translation(<<Last, d>>) = mem[KERNEL_PAGE_DIR][d]
<1> DEFINE v == <<Last, d>>
<1>1. Walk(mem, v) = mem[KERNEL_PAGE_DIR][d] /\ v[1] = Last
  BY WalkWindow
<1>2. CASE v \in Watched
  <2>1. v \notin UserPages
    BY <1>1, <1>2, TableNumbers, PagePairs DEF UserIndex
  <2>2. tlb[v] \in {NONE, Walk(mem, v)}
    BY <1>2, <2>1 DEF PgInv, WindowInv
  <2>. QED  BY <1>1, <2>2 DEF Translation
<1>3. CASE v \notin Watched
  BY <1>1, <1>3 DEF Translation
<1>. QED  BY <1>2, <1>3

-----------------------------------------------------------------------------
(* The actions.                                                            *)
LEMMA PageInitInv == PageInit => PgInv
<1>1. SUFFICES ASSUME PageInit PROVE PgInv
  OBVIOUS
<1>2. /\ paging = FALSE /\ \A v \in Watched : tlb[v] = NONE /\ mapped[v] = NONE
      /\ test \in [UserPages -> Unmapped] /\ \A v \in UserPages : test[v] = "idle"
  BY <1>1 DEF PageInit, Unmapped
<1>3. mem \in [TableFrames -> [Index -> Frames \cup {NONE}]]
  <2>1. PICK garbage \in Garbage :
          mem = [f \in TableFrames |->
                   IF f = NewTable THEN garbage ELSE [e \in Index |-> NONE]]
    BY <1>1 DEF PageInit
  <2>2. garbage \in [Index -> {-1, 0}] /\ {-1, 0} \subseteq Frames \cup {NONE}
    BY PagingAssumption, TableNumbers DEF Index, Frames, NONE
  <2>3. garbage \in [Index -> Frames \cup {NONE}]
    BY <2>2
  <2>. QED  BY <2>1, <2>3
<1>4. PageTypeOK
  BY <1>1, <1>2, <1>3, Sequence DEF PageInit, PageTypeOK
<1>5. UserPages \subseteq Watched
  BY DEF UserPages
<1>. QED  BY <1>2, <1>4, <1>5
             DEF PgInv, DirInv, TablesInv, UserInv, TestInv, TlbInv, WindowInv, OffInv, Unmapped

LEMMA BuildTablesInv == PgInv /\ BuildTables => PgInv'
<1>1. SUFFICES ASSUME PgInv, BuildTables PROVE PgInv'
  OBVIOUS
<1>2. /\ ~paging /\ paging' = TRUE /\ UNCHANGED <<tlb, mapped, test>>
      /\ \A v \in UserPages : test[v] = "idle"
      /\ \A v \in Watched : tlb[v] = NONE /\ mapped[v] = NONE
      /\ mem' = [f \in TableFrames |->
                   IF f = NewTable THEN mem[f] ELSE [e \in Index |-> Entry(f, e)]]
  BY <1>1 DEF BuildTables, PgInv, OffInv
<1>3. mem' \in [TableFrames -> [Index -> Frames \cup {NONE}]]
  <2>1. mem[NewTable] \in [Index -> Frames \cup {NONE}]
    BY <1>1 DEF PgInv, PageTypeOK, TableFrames
  <2>2. \A f \in TableFrames \ {NewTable} :
          [e \in Index |-> Entry(f, e)] \in [Index -> Frames \cup {NONE}]
    BY EntryType
  <2>. QED  BY <1>2, <2>1, <2>2
<1>4. PageTypeOK'
  BY <1>1, <1>2, <1>3 DEF PgInv, PageTypeOK
<1>5. \A f \in TableFrames \ {NewTable}, e \in Index : mem'[f][e] = Entry(f, e)
  BY <1>2
<1>6. DirInv'
  <2>1. \A e \in Index : mem'[KERNEL_PAGE_DIR][e] =
          IF e < TABLES THEN KERNEL_PAGE_TABLE(e)
          ELSE IF e = Last THEN KERNEL_PAGE_DIR ELSE NONE
    BY <1>5, DifferentFrames DEF Entry, TableFrames
  <2>2. 0 .. TABLES - 1 \subseteq Index /\ UserIndex \subseteq Index /\ Last \in Index
    BY TableNumbers DEF Index, UserIndex
  <2>3. \A d \in 0 .. TABLES - 1 : d < TABLES
    BY TableNumbers
  <2>4. \A d \in UserIndex : ~(d < TABLES) /\ d # Last
    BY TableNumbers DEF UserIndex
  <2>5. ~(Last < TABLES)
    BY TableNumbers
  <2>. QED  BY <2>1, <2>2, <2>3, <2>4, <2>5, DifferentFrames DEF DirInv
<1>7. TablesInv'
  BY <1>5, DifferentFrames DEF TablesInv, TableFrames
<1>8. UserPages \subseteq Watched
  BY DEF UserPages
<1>9. UserInv' /\ TestInv' /\ TlbInv' /\ WindowInv' /\ OffInv'
  BY <1>2, <1>8 DEF UserInv, TestInv, TlbInv, WindowInv, OffInv, Unmapped
<1>. QED  BY <1>4, <1>6, <1>7, <1>9 DEF PgInv

LEMMA SetPdeInv ==
  ASSUME PgInv, NEW v \in UserPages, SetPde(v)
  PROVE  PgInv'
<1>1. /\ paging /\ test[v] = "pde" /\ UNCHANGED <<paging, tlb, mapped>>
      /\ \A d \in Index \ {v[1]} : mem[KERNEL_PAGE_DIR][d] # NewTable
      /\ v \in Watched /\ v[1] \in UserIndex /\ v[1] \in Index
  BY PagePairs DEF SetPde, Statement, UserPages, UserIndex
<1>2. Translation(PdePage) = KERNEL_PAGE_DIR
  <2>1. mem[KERNEL_PAGE_DIR][Last] = KERNEL_PAGE_DIR
    BY <1>1 DEF PgInv, DirInv
  <2>. QED  BY <1>1, <2>1, WindowLeads, DifferentFrames DEF PdePage
<1>3. mem' = [mem EXCEPT ![KERNEL_PAGE_DIR][v[1]] = NewTable]
  BY <1>2 DEF SetPde, WriteEntry, TableFrames
<1>4. mem \in [TableFrames -> [Index -> Frames \cup {NONE}]] /\ KERNEL_PAGE_DIR \in TableFrames
      /\ NewTable \in Frames
  BY DEF PgInv, PageTypeOK, TableFrames, Frames
<1>14. test' = [test EXCEPT ![v] = "pte"]
  BY <1>2, DifferentFrames, Sequence DEF SetPde, Statement, KERNEL_PAGE_DIR, NONE
<1>15. test \in [UserPages -> DOMAIN Follows \cup {"done", "fault"}]
  BY DEF PgInv, PageTypeOK
<1>5. /\ mem' \in [TableFrames -> [Index -> Frames \cup {NONE}]]
      /\ \A f \in TableFrames \ {KERNEL_PAGE_DIR} : mem'[f] = mem[f]
      /\ \A d \in Index : mem'[KERNEL_PAGE_DIR][d] =
           IF d = v[1] THEN NewTable ELSE mem[KERNEL_PAGE_DIR][d]
  BY <1>1, <1>3, <1>4
<1>6. PageTypeOK'
  BY <1>1, <1>5, <1>14, <1>15, Sequence DEF PgInv, PageTypeOK, Unmapped
<1>7. 0 .. TABLES - 1 \subseteq Index \ UserIndex /\ UserIndex \subseteq Index
      /\ Last \in Index \ UserIndex
  BY TableNumbers DEF Index, UserIndex
<1>8. DirInv'
  BY <1>1, <1>5, <1>7 DEF PgInv, DirInv
<1>9. TablesInv'
  BY <1>1, <1>5, DifferentFrames DEF PgInv, TablesInv, TableFrames
<1>10. \A w \in UserPages : mem[KERNEL_PAGE_DIR][w[1]] = NewTable =>
          mem'[KERNEL_PAGE_DIR][w[1]] = NewTable
  BY <1>5, PagePairs DEF UserPages
<1>11. UserInv' /\ TestInv' /\ TlbInv'
  <2>1. mem'[NewTable] = mem[NewTable]
    BY <1>5, DifferentFrames DEF TableFrames
  <2>2. UserInv'
    BY <1>1, <1>10, <2>1 DEF PgInv, UserInv
  <2>3. TestInv'
    BY <1>1, <1>5, <1>10, <1>14, <1>15 DEF PgInv, TestInv, Unmapped
  <2>4. TlbInv'
    BY <1>1, <1>14, <1>15 DEF PgInv, TlbInv
  <2>. QED  BY <2>2, <2>3, <2>4
<1>12. WindowInv'
  <2>1. SUFFICES ASSUME NEW w \in Watched \ UserPages
                 PROVE  tlb[w] \in {NONE, Walk(mem', w)}
    BY <1>1 DEF WindowInv
  <2>2. tlb[w] \in {NONE, Walk(mem, w)}
    BY DEF PgInv, WindowInv
  <2>3. w[1] \in Index /\ w[2] \in Index /\ (w[1] \in 0 .. TABLES - 1 \/ w[1] = Last)
    BY PagePairs
  <2>4. w[1] # v[1]
    BY <1>1, <1>7, <2>3
  <2>5. mem'[KERNEL_PAGE_DIR][w[1]] = mem[KERNEL_PAGE_DIR][w[1]]
    BY <1>5, <2>3, <2>4
  <2>6. CASE w[1] \in 0 .. TABLES - 1
    <3>1. mem[KERNEL_PAGE_DIR][w[1]] \in KernelTables
      BY <1>1, <2>6, DifferentFrames DEF PgInv, DirInv, KERNEL_PAGE_TABLE
    <3>2. mem[KERNEL_PAGE_DIR][w[1]] \in TableFrames \ {KERNEL_PAGE_DIR}
      BY <3>1, DifferentFrames DEF TableFrames
    <3>. QED  BY <1>5, <2>2, <2>5, <3>2 DEF Walk
  <2>7. CASE w[1] = Last
    <3>1. Walk(mem, w) = mem[KERNEL_PAGE_DIR][w[2]]
      BY <1>1, <2>7, WalkWindow
    <3>2. Walk(mem', w) = mem'[KERNEL_PAGE_DIR][w[2]]
      BY <1>1, <1>4, <2>5, <2>7 DEF Walk, PgInv, DirInv
    <3>3. CASE w[2] = v[1]
      <4>1. mem[KERNEL_PAGE_DIR][v[1]] \in {NONE, NewTable}
        BY <1>1 DEF PgInv, DirInv
      <4>. QED  BY <1>1, <1>5, <2>2, <3>1, <3>2, <3>3, <4>1
    <3>4. CASE w[2] # v[1]
      BY <1>5, <2>2, <2>3, <3>1, <3>2, <3>4
    <3>. QED  BY <3>3, <3>4
  <2>. QED  BY <2>3, <2>6, <2>7
<1>13. OffInv'
  BY <1>1 DEF OffInv
<1>. QED  BY <1>6, <1>8, <1>9, <1>11, <1>12, <1>13 DEF PgInv

LEMMA SetPteInv ==
  ASSUME PgInv, NEW v \in UserPages, NEW frame \in Targets, NEW edit \in {"pte", "again"}, SetPte(v, edit, frame)
  PROVE  PgInv'
<1>1. /\ paging /\ paging' = paging /\ tlb' = tlb
      /\ mapped' = [mapped EXCEPT ![v] = frame]
      /\ test[v] = edit
      /\ v \in Watched /\ v[1] \in UserIndex /\ v[1] \in Index /\ v[2] \in Index
  BY PagePairs DEF SetPte, Statement, UserPages, UserIndex
<1>2. mem[KERNEL_PAGE_DIR][v[1]] = NewTable
  BY <1>1 DEF PgInv, UserInv, TestInv, Unmapped
<1>3. Translation(PtePage(v)) = NewTable
  BY <1>1, <1>2, WindowLeads DEF PtePage
<1>4. mem' = [mem EXCEPT ![NewTable][v[2]] = frame]
  BY <1>3 DEF SetPte, WriteEntry, TableFrames
<1>14. /\ test' = [test EXCEPT ![v] = IF edit = "pte" THEN "use_a" ELSE "invlpg"]
       /\ test \in [UserPages -> DOMAIN Follows \cup {"done", "fault"}]
       /\ frame # NONE
  BY <1>3, DifferentFrames, Sequence DEF SetPte, Statement, PgInv, PageTypeOK
<1>5. /\ mem \in [TableFrames -> [Index -> Frames \cup {NONE}]] /\ NewTable \in TableFrames
      /\ frame \in Frames /\ KERNEL_PAGE_DIR \in TableFrames
      /\ mapped \in [Watched -> Frames \cup {NONE}]
  BY DEF PgInv, PageTypeOK, TableFrames, Frames
<1>6. /\ mem' \in [TableFrames -> [Index -> Frames \cup {NONE}]]
      /\ \A f \in TableFrames \ {NewTable} : mem'[f] = mem[f]
      /\ \A e \in Index : mem'[NewTable][e] =
           IF e = v[2] THEN frame ELSE mem[NewTable][e]
  BY <1>1, <1>4, <1>5
<1>7. mem'[KERNEL_PAGE_DIR] = mem[KERNEL_PAGE_DIR]
  BY <1>5, <1>6, DifferentFrames
<1>8. PageTypeOK'
  BY <1>1, <1>5, <1>6, <1>14, Sequence DEF PgInv, PageTypeOK
<1>9. DirInv' /\ OffInv'
  BY <1>1, <1>7 DEF PgInv, DirInv, OffInv
<1>10. TablesInv'
  BY <1>1, <1>6, DifferentFrames DEF PgInv, TablesInv, TableFrames
<1>11. UserInv'
  <2>1. SUFFICES ASSUME NEW w \in UserPages
                 PROVE  /\ mapped'[w] \in Targets \cup {NONE}
                        /\ mapped'[w] # NONE =>
                             /\ mem'[KERNEL_PAGE_DIR][w[1]] = NewTable
                             /\ mem'[NewTable][w[2]] = mapped'[w]
    BY DEF UserInv, UserPages
  <2>2. w \in Watched /\ w[1] \in UserIndex /\ w[2] \in Index /\ w = <<w[1], w[2]>>
        /\ v = <<v[1], v[2]>>
    BY <1>1, PagePairs DEF UserPages
  <2>3. CASE w = v
    BY <1>1, <1>2, <1>5, <1>6, <1>7, <2>2, <2>3
  <2>4. CASE w # v
    <3>1. mapped'[w] = mapped[w]
      BY <1>1, <1>5, <2>2, <2>4
    <3>2. /\ mapped[w] \in Targets \cup {NONE}
          /\ mapped[w] # NONE => /\ mem[KERNEL_PAGE_DIR][w[1]] = NewTable
                                 /\ mem[NewTable][w[2]] = mapped[w]
      BY DEF PgInv, UserInv
    <3>3. ASSUME mapped[w] # NONE PROVE w[2] # v[2]
      <4>1. w[1] = v[1]
        BY <1>1, <1>2, <2>2, <3>2, <3>3 DEF PgInv, DirInv
      <4>. QED  BY <2>2, <2>4, <4>1
    <3>. QED  BY <1>6, <1>7, <2>2, <3>1, <3>2, <3>3
  <2>. QED  BY <2>3, <2>4
<1>12. WindowInv'
  <2>1. SUFFICES ASSUME NEW w \in Watched \ UserPages
                 PROVE  tlb[w] \in {NONE, Walk(mem', w)}
    BY <1>1 DEF WindowInv
  <2>2. tlb[w] \in {NONE, Walk(mem, w)}
    BY DEF PgInv, WindowInv
  <2>3. w[1] \in 0 .. TABLES - 1 \/ w[1] = Last
    BY PagePairs
  <2>4. mem[KERNEL_PAGE_DIR][w[1]] # NewTable
    <3>1. CASE w[1] \in 0 .. TABLES - 1
      BY <1>1, <3>1, DifferentFrames DEF PgInv, DirInv, KERNEL_PAGE_TABLE
    <3>2. CASE w[1] = Last
      BY <1>1, <3>2, DifferentFrames DEF PgInv, DirInv
    <3>. QED  BY <2>3, <3>1, <3>2
  <2>5. Walk(mem', w) = Walk(mem, w)
    BY <1>6, <1>7, <2>4 DEF Walk
  <2>. QED  BY <2>2, <2>5
<1>13. TestInv' /\ TlbInv'
  <2>1. UserPages \subseteq Watched
    BY DEF UserPages
  <2>2. \A w \in UserPages \ {v} : mapped'[w] = mapped[w] /\ test'[w] = test[w]
    BY <1>1, <1>5, <1>14, <2>1
  <2>3. mapped'[v] = frame /\ test'[v] = IF edit = "pte" THEN "use_a" ELSE "invlpg"
    BY <1>1, <1>5, <1>14
  <2>4. TestInv'
    BY <1>7, <1>14, <2>2, <2>3 DEF PgInv, TestInv, Unmapped
  <2>5. edit = "pte" => tlb[v] = NONE
    BY <1>1 DEF PgInv, TestInv, TlbInv, Unmapped
  <2>6. TlbInv'
    BY <1>1, <2>2, <2>3, <2>5 DEF PgInv, TlbInv
  <2>. QED  BY <2>4, <2>6
<1>. QED  BY <1>8, <1>9, <1>10, <1>11, <1>12, <1>13 DEF PgInv

(* The steps that leave the tables alone: the TLB changes at one page, or  *)
(* paging_test goes on.                                                    *)
LEMMA TlbStep ==
  ASSUME PgInv, UNCHANGED <<paging, mem, mapped>>, paging, NEW v \in Watched,
         NEW frame, tlb' = [tlb EXCEPT ![v] = frame], frame \in {NONE, Translation(v)}, TestInv',
         test' \in [UserPages -> DOMAIN Follows \cup {"done", "fault"}],
         v \in UserPages => frame \in {NONE, mapped[v]},
         \A w \in UserPages : test[w] = "invlpg" => test'[w] = "invlpg" \/ (w = v /\ frame = NONE)
  PROVE  PgInv'
<1>1. frame \in Frames \cup {NONE}
  <2>1. tlb[v] \in Frames \cup {NONE}
    BY DEF PgInv, PageTypeOK
  <2>2. Walk(mem, v) \in Frames \cup {NONE}
    BY PagePairs DEF Walk, PgInv, PageTypeOK
  <2>. QED  BY <2>1, <2>2 DEF Translation
<1>2. PageTypeOK'
  BY <1>1 DEF PgInv, PageTypeOK
<1>3. tlb \in [Watched -> Frames \cup {NONE}]
  BY DEF PgInv, PageTypeOK
<1>4. DirInv' /\ TablesInv' /\ UserInv' /\ OffInv'
  BY DEF PgInv, DirInv, TablesInv, UserInv, OffInv
<1>5. WindowInv'
  <2>1. SUFFICES ASSUME NEW w \in Watched \ UserPages
                 PROVE  tlb'[w] \in {NONE, Walk(mem, w)}
    BY DEF WindowInv, UserPages
  <2>2. tlb[w] \in {NONE, Walk(mem, w)}
    BY DEF PgInv, WindowInv
  <2>. QED  BY <1>3, <2>2 DEF Translation
<1>6. TlbInv'
  <2>1. SUFFICES ASSUME NEW w \in UserPages, test'[w] # "invlpg"
                 PROVE  tlb'[w] \in {NONE, mapped[w]}
    BY DEF TlbInv, UserPages
  <2>2. CASE w # v
    <3>1. tlb'[w] = tlb[w] /\ test[w] # "invlpg"
      BY <1>3, <2>1, <2>2 DEF UserPages
    <3>. QED  BY <3>1 DEF PgInv, TlbInv
  <2>3. CASE w = v
    BY <1>3, <2>3
  <2>. QED  BY <2>2, <2>3
<1>. QED  BY <1>2, <1>4, <1>5, <1>6 DEF PgInv

(* A page is used where paging_test asked for it.                          *)
LEMMA UseGoes ==
  ASSUME PgInv, paging, NEW v \in UserPages, test[v] \in {"use_a", "use_b", "done"}
  PROVE  Translation(v) = mapped[v] /\ mapped[v] # NONE
<1>1. mapped[v] # NONE /\ tlb[v] \in {NONE, mapped[v]}
  BY DEF PgInv, TestInv, TlbInv, Unmapped
<1>2. Walk(mem, v) = mapped[v]
  BY <1>1, WalkUser DEF PgInv, UserInv
<1>. QED  BY <1>1, <1>2 DEF Translation

LEMMA PageUseInv == PgInv /\ PageUse => PgInv'
<1>1. SUFFICES ASSUME PgInv, PageUse PROVE PgInv'
  OBVIOUS
<1>2. /\ test \in [UserPages -> DOMAIN Follows \cup {"done", "fault"}]
      /\ tlb \in [Watched -> Frames \cup {NONE}] /\ UserPages \subseteq Watched
  BY <1>1 DEF PgInv, PageTypeOK, UserPages
<1>3. ASSUME NEW v \in UserPages, Call(v) PROVE PgInv'
  <2>1. test' = [test EXCEPT ![v] = "pde"] /\ test[v] = "idle" /\ UNCHANGED <<paging, mem, tlb, mapped>>
    BY <1>3, Sequence DEF Call
  <2>2. test' \in [UserPages -> DOMAIN Follows \cup {"done", "fault"}]
    BY <1>2, <2>1, Sequence DEF Unmapped
  <2>3. TestInv' /\ TlbInv'
    BY <1>1, <1>2, <2>1 DEF PgInv, TestInv, TlbInv, Unmapped
  <2>4. paging
    BY <1>3 DEF Call
  <2>. QED  BY <1>1, <2>1, <2>2, <2>3, <2>4
            DEF PgInv, PageTypeOK, DirInv, TablesInv, UserInv, WindowInv, OffInv, Walk
<1>4. ASSUME NEW v \in UserPages, DisableTlb(v) PROVE PgInv'
  <2>1. paging
    BY <1>1, <1>4 DEF DisableTlb, PgInv, OffInv
  <2>2. test' = [test EXCEPT ![v] = "use_b"] /\ test[v] = "invlpg"
        /\ tlb' = [tlb EXCEPT ![v] = NONE] /\ UNCHANGED <<paging, mem, mapped>>
    BY <1>4, Sequence DEF DisableTlb
  <2>3. test' \in [UserPages -> DOMAIN Follows \cup {"done", "fault"}]
    BY <1>2, <2>2, Sequence
  <2>4. TestInv'
    BY <1>1, <1>2, <2>2 DEF PgInv, TestInv, Unmapped
  <2>. QED  BY <1>1, <1>2, <2>1, <2>2, <2>3, <2>4, TlbStep
<1>5. ASSUME NEW v \in UserPages, NEW use \in {"use_a", "use_b"}, Use(v, use) PROVE PgInv'
  <2>1. paging /\ test[v] = use /\ tlb' = [tlb EXCEPT ![v] = Translation(v)]
        /\ UNCHANGED <<paging, mem, mapped>>
    BY <1>5 DEF Use, Statement
  <2>2. Translation(v) = mapped[v] /\ mapped[v] # NONE
    BY <1>1, <2>1, UseGoes
  <2>3. test' = [test EXCEPT ![v] = IF use = "use_a" THEN "again" ELSE "done"]
    BY <1>5, <2>2, Sequence DEF Use, Statement
  <2>4. test' \in [UserPages -> DOMAIN Follows \cup {"done", "fault"}]
    BY <1>2, <2>3, Sequence
  <2>5. TestInv'
    BY <1>1, <1>2, <2>1, <2>2, <2>3 DEF PgInv, TestInv, Unmapped
  <2>. QED  BY <1>1, <1>2, <2>1, <2>2, <2>3, <2>4, <2>5, TlbStep
<1>6. ASSUME NEW v \in Watched, Access(v) PROVE PgInv'
  <2>1. paging /\ tlb' = [tlb EXCEPT ![v] = Translation(v)] /\ UNCHANGED <<paging, mem, mapped, test>>
    BY <1>6 DEF Access
  <2>2. v \in UserPages => Translation(v) = mapped[v]
    BY <1>1, <1>6, <2>1, UseGoes DEF Access
  <2>3. TestInv'
    BY <1>1, <2>1 DEF PgInv, TestInv
  <2>. QED  BY <1>1, <1>2, <2>1, <2>2, <2>3, TlbStep
<1>7. ASSUME NEW v \in Watched, Evict(v) PROVE PgInv'
  <2>1. paging /\ tlb' = [tlb EXCEPT ![v] = NONE] /\ UNCHANGED <<paging, mem, mapped, test>>
    BY <1>1, <1>7 DEF Evict, PgInv, OffInv
  <2>2. TestInv'
    BY <1>1, <2>1 DEF PgInv, TestInv
  <2>. QED  BY <1>1, <1>2, <2>1, <2>2, TlbStep
<1>. QED  BY <1>1, <1>3, <1>4, <1>5, <1>6, <1>7, SetPdeInv, SetPteInv DEF PageUse

LEMMA PageNextInv == PgInv /\ [PageNext]_pagevars => PgInv'
<1>1. CASE UNCHANGED pagevars
  BY <1>1 DEF pagevars, PgInv, PageTypeOK, DirInv, TablesInv, UserInv, TestInv, TlbInv, WindowInv,
              OffInv, Walk
<1>. QED  BY <1>1, BuildTablesInv, PageUseInv DEF PageNext

LEMMA PageInvariance == PageSpec => []PgInv
BY PageInitInv, PageNextInv, PTL DEF PageSpec

-----------------------------------------------------------------------------
(* An edit made through the window is what the walk of its address uses,   *)
(* and no statement of paging_test ends in a page fault.                   *)
THEOREM EditsReach == PageSpec => []EditsReachTable
<1>1. ASSUME PgInv PROVE EditsReachTable
  <2>1. SUFFICES ASSUME NEW v \in UserPages, mapped[v] # NONE
                 PROVE  Walk(mem, v) = mapped[v]
    BY <1>1 DEF EditsReachTable, PgInv, TestInv, Unmapped
  <2>2. paging
    BY <1>1, <2>1 DEF PgInv, OffInv, UserPages
  <2>. QED  BY <1>1, <2>1, <2>2, WalkUser DEF PgInv, UserInv
<1>. QED  BY <1>1, PageInvariance, PTL

(* disable_tlb is called where it is needed and is enough: no page is used *)
(* at the frame it had before.                                             *)
THEOREM TlbFresh == PageSpec => []NoStaleUse
<1>1. ASSUME PgInv PROVE NoStaleUse
  <2>1. SUFFICES ASSUME NEW v \in UserPages, test[v] \in {"use_a", "use_b", "done"}
                 PROVE  Translation(v) = mapped[v]
    BY DEF NoStaleUse
  <2>2. paging
    BY <1>1, <2>1 DEF PgInv, OffInv
  <2>. QED  BY <1>1, <2>1, <2>2, UseGoes
<1>. QED  BY <1>1, PageInvariance, PTL

(* The kernel's own map is never lost, in memory or in the TLB.            *)
THEOREM KernelMapKept == PageSpec => []KernelMap
<1>1. ASSUME PgInv PROVE KernelMap
  <2>1. SUFFICES ASSUME paging, NEW v \in Watched \ UserPages
                 PROVE  LET index == v[1] * ENTRIES + v[2]
                            frame == CASE v[1] < TABLES /\ index = 0 -> NONE
                                       [] v[1] < TABLES /\ index # 0 -> index
                                       [] v = PdePage -> KERNEL_PAGE_DIR
                                       [] v[1] = Last /\ v[2] < TABLES -> KERNEL_PAGE_TABLE(v[2])
                                       [] OTHER -> Walk(mem, v)
                        IN  Walk(mem, v) = frame /\ tlb[v] \in {NONE, frame}
    BY <1>1 DEF KernelMap, PgInv
  <2>2. v[1] \in Index /\ v[2] \in Index /\ (v[1] \in 0 .. TABLES - 1 \/ v[1] = Last)
    BY PagePairs
  <2>3. tlb[v] \in {NONE, Walk(mem, v)}
    BY <1>1 DEF PgInv, WindowInv
  <2>4. CASE v[1] \in 0 .. TABLES - 1
    <3>1. v[1] < TABLES /\ v # PdePage /\ v[1] # Last
      BY <2>4, TableNumbers DEF PdePage
    <3>. QED  BY <1>1, <2>1, <2>3, <2>4, <3>1, WalkKernel DEF Identity
  <2>5. CASE v[1] = Last
    <3>1. ~(v[1] < TABLES) /\ Walk(mem, v) = mem[KERNEL_PAGE_DIR][v[2]]
      BY <1>1, <2>1, <2>5, TableNumbers, WalkWindow
    <3>2. v = PdePage => Walk(mem, v) = KERNEL_PAGE_DIR
      BY <1>1, <2>1, <3>1 DEF PdePage, PgInv, DirInv
    <3>3. v[2] < TABLES => Walk(mem, v) = KERNEL_PAGE_TABLE(v[2])
      <4>1. v[2] < TABLES => v[2] \in 0 .. TABLES - 1
        BY <2>2, TableNumbers DEF Index
      <4>. QED  BY <1>1, <2>1, <3>1, <4>1 DEF PgInv, DirInv
    <3>. QED  BY <2>3, <2>5, <3>1, <3>2, <3>3
  <2>. QED  BY <2>2, <2>4, <2>5
<1>. QED  BY <1>1, PageInvariance, PTL

-----------------------------------------------------------------------------
(***************************************************************************)
(* The boot keeps what it still needs, hands ards_init the report as the   *)
(* BIOS made it, and leaves memory and tables as PhysMem and Paging say.   *)
(* AtInv ties the parts of the boot to the phases of memory, KeptInv says  *)
(* which spans are there, MemInv that PhysMem's invariant holds from       *)
(* ards_init on, and CountInv that the kernel's pages stay counted.        *)
(***************************************************************************)
Tabled == {"interrupt_init", "frames", "tables"}

AtInv ==
  /\ at \in Reads \cup Loads \cup Kernel \cup {"boot error", "e820 error"}
  /\ at \notin {"memory_map_init", "paging_init"} \cup Tabled => phase \in {"ards", "halt"}
  /\ at = "memory_map_init" => phase = "map"
  /\ at = "paging_init" => phase = "paging"
  /\ at \in Tabled => phase \in {"run", "halt"}
  /\ paging \in BOOLEAN /\ (paging <=> at \in Tabled)

ReportInv ==
  /\ bios \in MemoryMaps
  /\ at \in Reads => regions = <<>>
  /\ at \in Kernel \cup {"protect", "reading kernel"} => regions = bios

CodeInv ==
  /\ at \in Reads => BOOT_SECTOR \in memory
  /\ at \in Loads \cup {"check"} => LOADER \in memory
  /\ at \in Kernel => KERNEL \in memory

GdtInv ==
  \/ /\ gdtr = "bios" /\ at \notin Kernel \cup {"reading kernel"}
  \/ /\ gdtr = "loader" /\ LOADER \in memory
     /\ at \in {"reading kernel", "console_init", "gdt_init"}
  \/ /\ gdtr = "kernel" /\ at \in Kernel \ {"console_init", "gdt_init"}

DataInv ==
  /\ phase = "ards" /\ regions # <<>> => REPORT(Len(regions)) \in memory
  /\ phase \in {"paging", "run"} =>
       BITMAP \in memory /\ \E n \in Nat : MAP_ARRAY(n) \in memory
  /\ paging => TABLE_AREA \in memory

KeptInv == CodeInv /\ GdtInv /\ DataInv

MemInv ==
  /\ at \notin Tabled \cup {"ards_init", "memory_map_init", "paging_init"} => Statics
  /\ at \in Tabled \cup {"ards_init", "memory_map_init", "paging_init"} => PInv

CountInv ==
  paging => \A p \in 1 .. KERNEL_MEMORY - 1 : memory_map_array[p] >= 1

BInv == AtInv /\ ReportInv /\ KeptInv /\ MemInv /\ CountInv

-----------------------------------------------------------------------------
(* Where things lie.                                                       *)
LEMMA Layout ==
  /\ LOADER_LENGTH \in Nat /\ LOADER_LENGTH <= 27648
  /\ KERNEL_SECTORS \in Nat /\ KERNEL_SECTORS <= 255
  /\ TABLES \in Nat /\ TABLES <= 2
BY BootAssumption, PagingAssumption

LEMMA AtNames ==
  /\ Kernel = {"console_init", "gdt_init", "ards_init", "memory_map_init", "paging_init"}
                \cup Tabled
  /\ Then.console_init = "gdt_init" /\ Then.gdt_init = "ards_init"
  /\ Then.ards_init = "memory_map_init" /\ Then.memory_map_init = "paging_init"
  /\ Then.paging_init = "interrupt_init"
  /\ Then["console_init"] = "gdt_init" /\ Then["gdt_init"] = "ards_init"
  /\ Then["memory_map_init"] = "paging_init" /\ Then["paging_init"] = "interrupt_init"
BY DEF Kernel, Then, Tabled

(* A span that is written is there; one apart from it is not lost.         *)
LEMMA Kept ==
  ASSUME NEW spans, Writes(spans)
  PROVE  /\ \A b \in spans : b \in memory'
         /\ \A a \in memory : (\A b \in spans : Apart(a, b)) => a \in memory'
BY DEF Writes

LEMMA StaticsKept ==
  ASSUME Statics,
         UNCHANGED <<phase, next, region, free_pages, memory_map_pages_used, start_page,
                     memory_map_array, handed>>
  PROVE  Statics'
BY DEF Statics, region

LEMMA BootInitInv == BootInit => BInv
<1>1. SUFFICES ASSUME BootInit PROVE BInv
  OBVIOUS
<1>2. AtInv
  BY <1>1, AtNames DEF BootInit, Statics, PageInit, AtInv, Reads, Loads, Tabled
<1>3. ReportInv
  BY <1>1, AtNames DEF BootInit, ReportInv, Reads, Loads, Tabled
<1>4. KeptInv
  <2>1. /\ at = "boot" /\ memory = {BOOT_SECTOR} /\ gdtr = "bios" /\ regions = <<>>
        /\ phase = "ards" /\ paging = FALSE
    BY <1>1 DEF BootInit, Statics, PageInit
  <2>2. at \notin Loads \cup {"check"} /\ at \notin Kernel \cup {"reading kernel"}
    BY <2>1, AtNames DEF Loads, Tabled
  <2>3. CodeInv
    BY <2>1, <2>2 DEF CodeInv
  <2>4. GdtInv /\ DataInv
    BY <2>1, <2>2 DEF GdtInv, DataInv
  <2>. QED  BY <2>3, <2>4 DEF KeptInv
<1>5. MemInv /\ CountInv
  BY <1>1 DEF BootInit, PageInit, MemInv, CountInv, Tabled
<1>. QED  BY <1>2, <1>3, <1>4, <1>5 DEF BInv

-----------------------------------------------------------------------------
(* The steps of the boot sector and the loader.                            *)
Early == Reads \cup Loads \cup {"boot error", "e820 error", "console_init", "gdt_init"}

LEMMA EarlyNames ==
  /\ Early = {"boot", "reading loader", "check", "e820", "protect", "reading kernel",
              "boot error", "e820 error", "console_init", "gdt_init"}
  /\ Early \cap (Tabled \cup {"ards_init", "memory_map_init", "paging_init"}) = {}
BY DEF Early, Reads, Loads, Tabled

(* They leave what kernel_init will set up as it was.                      *)
LEMMA EarlyStep ==
  ASSUME BInv, at \in Early, at' \in Early,
         UNCHANGED <<phase, next, region, free_pages, memory_map_pages_used, start_page,
                     memory_map_array, handed, paging>>
  PROVE  AtInv' /\ MemInv' /\ CountInv' /\ phase = "ards" /\ paging = FALSE
<1>1. Statics /\ Statics' /\ paging = FALSE /\ paging' = FALSE
  BY EarlyNames, StaticsKept DEF BInv, MemInv, AtInv
<1>2. AtInv'
  BY <1>1, EarlyNames, AtNames DEF AtInv, Early, Tabled, Statics
<1>3. MemInv'
  BY <1>1, EarlyNames DEF MemInv
<1>. QED  BY <1>1, <1>2, <1>3 DEF CountInv, Statics

LEMMA QuietStep ==
  ASSUME BInv, at \in Reads \cup {"e820"}, at' \in Reads \cup {"e820", "boot error", "e820 error"},
         at' \in Reads => at \in Reads, at' \in {"check", "e820"} => at \in {"check", "e820"},
         UNCHANGED <<physvars, pagevars, bios, memory, gdtr>>
  PROVE  BInv'
<1>1. AtInv' /\ MemInv' /\ CountInv' /\ phase = "ards" /\ paging = FALSE
  BY EarlyStep DEF Early, physvars, pagevars, Loads
<1>2. at' \notin Kernel \cup {"protect", "reading kernel"}
  BY AtNames DEF Reads, Tabled
<1>3. ReportInv'
  BY <1>2 DEF BInv, ReportInv, physvars
<1>4. KeptInv'
  <2>1. gdtr = "bios"
    BY AtNames DEF BInv, KeptInv, GdtInv, Reads, Tabled
  <2>2. at' \in Loads \cup {"check"} => at' \in {"check", "e820"}
    BY DEF Reads, Loads
  <2>3. at \in {"check", "e820"} => LOADER \in memory
    BY DEF BInv, KeptInv, CodeInv, Loads
  <2>4. CodeInv'
    BY <1>2, <2>2, <2>3 DEF BInv, KeptInv, CodeInv
  <2>5. GdtInv' /\ DataInv'
    BY <1>2, <2>1 DEF BInv, KeptInv, GdtInv, DataInv, physvars, pagevars
  <2>. QED  BY <2>4, <2>5 DEF KeptInv
<1>. QED  BY <1>1, <1>3, <1>4 DEF BInv

LEMMA LoaderInv ==
  BInv /\ (ReadLoader \/ CheckMagic \/ E820Carry) => BInv'
<1>1. SUFFICES ASSUME BInv, ReadLoader \/ CheckMagic \/ E820Carry PROVE BInv'
  OBVIOUS
<1>2. CASE ReadLoader
  BY <1>1, <1>2, QuietStep DEF ReadLoader, Reads
<1>3. CASE CheckMagic
  BY <1>1, <1>3, QuietStep DEF CheckMagic, Reads
<1>4. CASE E820Carry
  BY <1>1, <1>4, QuietStep DEF E820Carry, Reads
<1>. QED  BY <1>1, <1>2, <1>3, <1>4

LEMMA DriveInv == BInv /\ DriveAnswers => BInv'
<1>1. SUFFICES ASSUME BInv, DriveAnswers PROVE BInv'
  OBVIOUS
<1>2. UNCHANGED <<physvars, pagevars, at, bios, memory, gdtr>>
  BY <1>1 DEF DriveAnswers
<1>3. PInv => PInv'
  BY <1>2, NextInv
<1>4. Statics => Statics'
  BY <1>2, StaticsKept DEF physvars
<1>. QED  BY <1>1, <1>2, <1>3, <1>4
             DEF BInv, AtInv, ReportInv, KeptInv, CodeInv, GdtInv, DataInv, MemInv, CountInv,
                 physvars, pagevars

LEMMA LoaderReadInv == BInv /\ ReadSector("reading loader", LOADER, "check") => BInv'
<1>1. SUFFICES ASSUME BInv, ReadSector("reading loader", LOADER, "check") PROVE BInv'
  OBVIOUS
<1>2. /\ at = "reading loader" /\ UNCHANGED <<physvars, pagevars, bios, gdtr>>
      /\ \/ UNCHANGED <<at, memory>>
         \/ at' = "check" /\ Writes({LOADER})
  BY <1>1 DEF ReadSector
<1>3. CASE UNCHANGED <<at, memory>>
  BY <1>1, <1>2, <1>3, QuietStep DEF Reads
<1>4. CASE at' = "check" /\ Writes({LOADER})
  <2>1. AtInv' /\ MemInv' /\ CountInv' /\ paging = FALSE
    BY <1>1, <1>2, <1>4, EarlyStep DEF Early, Reads, physvars, pagevars
  <2>2. regions = <<>> /\ BOOT_SECTOR \in memory /\ gdtr = "bios"
    BY <1>1, <1>2, AtNames DEF BInv, ReportInv, KeptInv, CodeInv, GdtInv, Reads, Tabled
  <2>3. Apart(BOOT_SECTOR, LOADER)
    BY Layout DEF Apart, BOOT_SECTOR, LOADER, Span
  <2>4. BOOT_SECTOR \in memory' /\ LOADER \in memory'
    BY <1>4, <2>2, <2>3, Kept
  <2>5. at' \notin Kernel \cup {"protect", "reading kernel"}
    BY <1>4, AtNames DEF Tabled
  <2>6. ReportInv'
    BY <1>1, <1>2, <2>2, <2>5 DEF BInv, ReportInv, physvars
  <2>7. phase = "ards"
    BY <1>1, <1>2, EarlyNames DEF BInv, MemInv, Statics, Tabled
  <2>8. KeptInv'
    <3>1. CodeInv'
      BY <1>2, <1>4, <2>4, <2>5 DEF CodeInv, Loads
    <3>2. GdtInv'
      BY <1>2, <2>2, <2>5 DEF GdtInv
    <3>3. DataInv'
      BY <1>2, <2>1, <2>2, <2>7 DEF DataInv, physvars, pagevars
    <3>. QED  BY <3>1, <3>2, <3>3 DEF KeptInv
  <2>. QED  BY <2>1, <2>6, <2>8 DEF BInv
<1>. QED  BY <1>2, <1>3, <1>4

LEMMA E820Inv == BInv /\ E820Record => BInv'
<1>1. SUFFICES ASSUME BInv, E820Record PROVE BInv'
  OBVIOUS
<1>2. /\ at = "e820" /\ regions' = Append(regions, bios[Len(regions) + 1])
      /\ Writes({REPORT(Len(regions'))}) /\ at' \in {"protect", "e820"}
      /\ at' = "protect" => regions' = bios
      /\ UNCHANGED <<phase, next, region, free_pages, memory_map_pages_used, start_page,
                     memory_map_array, handed, pagevars, bios, gdtr>>
  BY <1>1 DEF E820Record
<1>3. AtInv' /\ MemInv' /\ CountInv' /\ phase = "ards" /\ paging = FALSE
  BY <1>1, <1>2, EarlyStep DEF Early, Loads, pagevars
<1>4. at' \notin Reads \cup Kernel \cup {"reading kernel"}
  BY <1>2, AtNames DEF Reads, Tabled
<1>5. ReportInv'
  BY <1>1, <1>2, <1>4 DEF BInv, ReportInv
<1>6. LOADER \in memory /\ gdtr = "bios"
  BY <1>1, <1>2, AtNames DEF BInv, KeptInv, CodeInv, GdtInv, Loads, Tabled
<1>7. Apart(LOADER, REPORT(Len(regions')))
  BY Layout DEF Apart, LOADER, REPORT, Span
<1>8. LOADER \in memory' /\ REPORT(Len(regions')) \in memory'
  BY <1>2, <1>6, <1>7, Kept
<1>9. KeptInv'
  <2>1. CodeInv'
    BY <1>4, <1>8 DEF CodeInv
  <2>2. GdtInv'
    BY <1>2, <1>4, <1>6 DEF GdtInv
  <2>3. DataInv'
    BY <1>2, <1>3, <1>8 DEF DataInv, pagevars
  <2>. QED  BY <2>1, <2>2, <2>3 DEF KeptInv
<1>. QED  BY <1>3, <1>5, <1>9 DEF BInv

LEMMA ProtectInv == BInv /\ EnterProtected => BInv'
<1>1. SUFFICES ASSUME BInv, EnterProtected PROVE BInv'
  OBVIOUS
<1>2. /\ at = "protect" /\ at' = "reading kernel" /\ gdtr' = "loader"
      /\ UNCHANGED <<physvars, pagevars, bios, memory>>
  BY <1>1 DEF EnterProtected
<1>3. AtInv' /\ MemInv' /\ CountInv' /\ phase = "ards" /\ paging = FALSE
  BY <1>1, <1>2, EarlyStep DEF Early, Loads, physvars, pagevars
<1>4. at' \notin Reads \cup Kernel
  BY <1>2, AtNames DEF Reads, Tabled
<1>5. ReportInv'
  BY <1>1, <1>2, <1>4 DEF BInv, ReportInv, physvars
<1>6. LOADER \in memory
  BY <1>1, <1>2 DEF BInv, KeptInv, CodeInv, Loads
<1>7. KeptInv'
  <2>1. CodeInv'
    BY <1>2, <1>4, <1>6 DEF CodeInv
  <2>2. GdtInv'
    BY <1>2, <1>6 DEF GdtInv
  <2>3. DataInv'
    BY <1>1, <1>2, <1>3 DEF BInv, KeptInv, DataInv, physvars, pagevars
  <2>. QED  BY <2>1, <2>2, <2>3 DEF KeptInv
<1>. QED  BY <1>3, <1>5, <1>7 DEF BInv

LEMMA KernelReadInv == BInv /\ ReadSector("reading kernel", KERNEL, "console_init") => BInv'
<1>1. SUFFICES ASSUME BInv, ReadSector("reading kernel", KERNEL, "console_init") PROVE BInv'
  OBVIOUS
<1>2. /\ at = "reading kernel" /\ UNCHANGED <<physvars, pagevars, bios, gdtr>>
      /\ \/ UNCHANGED <<at, memory>>
         \/ at' = "console_init" /\ Writes({KERNEL})
  BY <1>1 DEF ReadSector
<1>3. AtInv' /\ MemInv' /\ CountInv' /\ phase = "ards" /\ paging = FALSE
  BY <1>1, <1>2, EarlyStep DEF Early, Loads, physvars, pagevars
<1>4. /\ regions = bios /\ bios \in MemoryMaps /\ LOADER \in memory /\ gdtr = "loader"
      /\ regions # <<>> => REPORT(Len(regions)) \in memory
  BY <1>1, <1>2, <1>3, AtNames DEF BInv, ReportInv, KeptInv, CodeInv, GdtInv, DataInv, Loads, Tabled
<1>5. at' \notin Reads
  BY <1>2 DEF Reads
<1>6. ReportInv'
  BY <1>2, <1>4, <1>5 DEF ReportInv, physvars
<1>7. LOADER \in memory' /\ (regions # <<>> => REPORT(Len(regions)) \in memory')
      /\ (at' \in Kernel => KERNEL \in memory')
  <2>1. CASE UNCHANGED <<at, memory>>
    BY <1>2, <1>4, <2>1, AtNames DEF Tabled
  <2>2. CASE Writes({KERNEL})
    <3>1. Apart(LOADER, KERNEL)
      BY Layout DEF Apart, LOADER, KERNEL, Span
    <3>2. regions # <<>> => Apart(REPORT(Len(regions)), KERNEL)
      <4>1. LOADER_LENGTH + 20 * Len(regions) <= 61440 /\ Len(regions) \in Nat
        BY <1>4, ReportAssumption, PhysMemAssumption
      <4>. QED  BY <4>1, Layout DEF Apart, REPORT, KERNEL, Span
    <3>. QED  BY <1>4, <2>2, <3>1, <3>2, Kept
  <2>. QED  BY <1>2, <2>1, <2>2
<1>8. KeptInv'
  <2>1. CodeInv'
    BY <1>2, <1>5, <1>7 DEF CodeInv, Reads
  <2>2. GdtInv'
    BY <1>2, <1>4, <1>7 DEF GdtInv
  <2>3. DataInv'
    BY <1>2, <1>3, <1>7 DEF DataInv, physvars, pagevars
  <2>. QED  BY <2>1, <2>2, <2>3 DEF KeptInv
<1>. QED  BY <1>3, <1>6, <1>8 DEF BInv

-----------------------------------------------------------------------------
(* The steps of the kernel.                                                *)
LEMMA ConsoleInitInv == BInv /\ ConsoleInit => BInv'
<1>1. SUFFICES ASSUME BInv, ConsoleInit PROVE BInv'
  OBVIOUS
<1>2. /\ at = "console_init" /\ at' = "gdt_init"
      /\ UNCHANGED <<physvars, pagevars, bios, memory, gdtr>>
  BY <1>1, AtNames DEF ConsoleInit, Called
<1>3. AtInv' /\ MemInv' /\ CountInv' /\ phase = "ards" /\ paging = FALSE
  BY <1>1, <1>2, EarlyStep DEF Early, physvars, pagevars
<1>4. at' \notin Reads \cup Loads \cup {"check"} /\ at \in Kernel /\ at' \in Kernel
  BY <1>2, AtNames DEF Reads, Loads
<1>5. ReportInv'
  BY <1>1, <1>2, <1>4 DEF BInv, ReportInv, physvars
<1>6. CodeInv' /\ GdtInv'
  BY <1>1, <1>2, <1>4 DEF BInv, KeptInv, CodeInv, GdtInv
<1>7. DataInv'
  BY <1>1, <1>2 DEF BInv, KeptInv, DataInv, physvars, pagevars
<1>. QED  BY <1>3, <1>5, <1>6, <1>7 DEF BInv, KeptInv

LEMMA GdtInitInv == BInv /\ GdtInit => BInv'
<1>1. SUFFICES ASSUME BInv, GdtInit PROVE BInv'
  OBVIOUS
<1>2. /\ at = "gdt_init" /\ at' = "ards_init" /\ UNCHANGED <<physvars, pagevars, bios, memory>>
      /\ gdtr' = IF Intact(gdtr) THEN "kernel" ELSE "nowhere"
  BY <1>1, AtNames DEF GdtInit, Called
<1>3. /\ at \in Kernel /\ at' \in Kernel /\ at' \notin Reads \cup Loads \cup {"check"}
      /\ at \notin Tabled \cup {"ards_init", "memory_map_init", "paging_init"}
      /\ at' \notin Tabled \cup {"memory_map_init", "paging_init"}
  BY <1>2, AtNames DEF Reads, Loads, Tabled
<1>4. Statics /\ regions = bios /\ bios \in MemoryMaps /\ gdtr = "loader" /\ LOADER \in memory
      /\ paging = FALSE /\ phase = "ards"
  <2>1. Statics /\ phase = "ards" /\ paging = FALSE
    BY <1>1, <1>3 DEF BInv, MemInv, AtInv, Statics
  <2>2. regions = bios /\ bios \in MemoryMaps
    BY <1>1, <1>3 DEF BInv, ReportInv
  <2>3. gdtr = "loader" /\ LOADER \in memory
    BY <1>1, <1>2, <1>3 DEF BInv, KeptInv, GdtInv
  <2>. QED  BY <2>1, <2>2, <2>3
<1>5. PInv
  BY <1>4, InitInv DEF PhysInit
<1>6. PInv'
  BY <1>2, <1>5, NextInv
<1>7. gdtr' = "kernel"
  <2>1. LOADER.what = "loader"
    BY DEF LOADER, Span
  <2>. QED  BY <1>2, <1>4, <2>1 DEF Intact
<1>8. AtInv'
  BY <1>1, <1>2, <1>3, <1>4 DEF BInv, AtInv, physvars, pagevars
<1>9. ReportInv'
  BY <1>2, <1>3, <1>4 DEF ReportInv, physvars
<1>10. KeptInv'
  <2>1. CodeInv' /\ GdtInv'
    BY <1>1, <1>2, <1>3, <1>7 DEF BInv, KeptInv, CodeInv, GdtInv
  <2>2. DataInv'
    BY <1>1, <1>2 DEF BInv, KeptInv, DataInv, physvars, pagevars
  <2>. QED  BY <2>1, <2>2 DEF KeptInv
<1>11. MemInv' /\ CountInv'
  BY <1>2, <1>3, <1>4, <1>6 DEF MemInv, CountInv, pagevars
<1>. QED  BY <1>8, <1>9, <1>10, <1>11 DEF BInv

LEMMA ArdsInitInv == BInv /\ ArdsInit => BInv'
<1>1. SUFFICES ASSUME BInv, ArdsInit PROVE BInv'
  OBVIOUS
<1>2. /\ at = "ards_init" /\ (ArdsRecord \/ ArdsEnd)
      /\ at' = IF phase' = "map" THEN "memory_map_init" ELSE at
      /\ UNCHANGED <<pagevars, bios, memory, gdtr>>
  BY <1>1, AtNames DEF ArdsInit
<1>3. PInv /\ PInv' /\ regions' = regions
  <2>1. PInv /\ PhysNext
    BY <1>1, <1>2 DEF BInv, MemInv, PhysNext, Tabled
  <2>. QED  BY <1>2, <2>1, NextInv DEF ArdsRecord, ArdsEnd
<1>4. phase = "ards" /\ phase' \in {"ards", "map", "halt"}
  BY <1>2 DEF ArdsRecord, ArdsEnd
<1>5. /\ at \in Kernel /\ at' \in Kernel /\ at' \in {"ards_init", "memory_map_init"}
      /\ at' \notin Reads \cup Loads \cup {"check"} /\ at' \notin Tabled \cup {"paging_init"}
      /\ at \notin Tabled
  BY <1>2, AtNames DEF Reads, Loads, Tabled
<1>6. gdtr = "kernel" /\ paging = FALSE /\ KERNEL \in memory /\ regions = bios /\ bios \in MemoryMaps
  <2>1. KERNEL \in memory /\ regions = bios /\ bios \in MemoryMaps /\ paging = FALSE
    BY <1>1, <1>5 DEF BInv, KeptInv, CodeInv, AtInv, ReportInv
  <2>2. gdtr = "kernel"
    BY <1>1, <1>2, <1>5 DEF BInv, KeptInv, GdtInv
  <2>. QED  BY <2>1, <2>2
<1>7. AtInv'
  BY <1>2, <1>4, <1>5, <1>6 DEF AtInv, pagevars
<1>8. ReportInv'
  BY <1>2, <1>3, <1>5, <1>6 DEF ReportInv
<1>9. CodeInv' /\ GdtInv'
  BY <1>2, <1>5, <1>6 DEF CodeInv, GdtInv
<1>10. DataInv'
  BY <1>1, <1>2, <1>3, <1>4, <1>6 DEF BInv, KeptInv, DataInv, pagevars
<1>11. MemInv' /\ CountInv'
  BY <1>2, <1>3, <1>5, <1>6 DEF MemInv, CountInv, pagevars
<1>. QED  BY <1>7, <1>8, <1>9, <1>10, <1>11 DEF BInv, KeptInv

LEMMA MapInitInv == BInv /\ MapInit => BInv'
<1>1. SUFFICES ASSUME BInv, MapInit PROVE BInv'
  OBVIOUS
<1>2. /\ at = "memory_map_init" /\ at' = "paging_init" /\ MemoryMapInit
      /\ Writes({MAP_ARRAY(memory_map_pages_used'), BITMAP})
      /\ UNCHANGED <<pagevars, bios, gdtr>>
  BY <1>1, AtNames DEF MapInit, Called
<1>3. PInv /\ PInv' /\ regions' = regions /\ phase' = "paging"
  <2>1. PInv /\ PhysNext
    BY <1>1, <1>2 DEF BInv, MemInv, PhysNext
  <2>. QED  BY <1>2, <2>1, NextInv DEF MemoryMapInit
<1>4. /\ at \in Kernel /\ at' \in Kernel /\ at \notin Tabled
      /\ at' \notin Reads \cup Loads \cup {"check"} /\ at' \notin Tabled
  BY <1>2, AtNames DEF Reads, Loads, Tabled
<1>5. gdtr = "kernel" /\ paging = FALSE /\ KERNEL \in memory /\ regions = bios /\ bios \in MemoryMaps
  <2>1. KERNEL \in memory /\ regions = bios /\ bios \in MemoryMaps /\ paging = FALSE
    BY <1>1, <1>4 DEF BInv, KeptInv, CodeInv, AtInv, ReportInv
  <2>2. gdtr = "kernel"
    BY <1>1, <1>2, <1>4 DEF BInv, KeptInv, GdtInv
  <2>. QED  BY <2>1, <2>2
<1>6. memory_map_pages_used' \in Nat
  BY <1>3 DEF PInv, Laid
<1>7. /\ KERNEL \in memory' /\ BITMAP \in memory'
      /\ MAP_ARRAY(memory_map_pages_used') \in memory'
  <2>1. Apart(KERNEL, MAP_ARRAY(memory_map_pages_used')) /\ Apart(KERNEL, BITMAP)
    BY Layout DEF Apart, KERNEL, MAP_ARRAY, BITMAP, Span
  <2>. QED  BY <1>2, <1>5, <2>1, Kept
<1>8. AtInv'
  BY <1>2, <1>3, <1>4, <1>5 DEF AtInv, pagevars
<1>9. ReportInv'
  BY <1>2, <1>3, <1>4, <1>5 DEF ReportInv
<1>10. KeptInv'
  BY <1>2, <1>3, <1>4, <1>5, <1>6, <1>7 DEF KeptInv, CodeInv, GdtInv, DataInv, pagevars
<1>11. MemInv' /\ CountInv'
  BY <1>2, <1>3, <1>5 DEF MemInv, CountInv, pagevars
<1>. QED  BY <1>8, <1>9, <1>10, <1>11 DEF BInv

LEMMA PagingInitInv == BInv /\ PagingInit => BInv'
<1>1. SUFFICES ASSUME BInv, PagingInit PROVE BInv'
  OBVIOUS
<1>2. /\ at = "paging_init" /\ at' = "interrupt_init" /\ CountMapped /\ paging' = TRUE
      /\ Writes({TABLE_AREA}) /\ UNCHANGED <<bios, gdtr>>
  BY <1>1, AtNames DEF PagingInit, Called, BuildTables
<1>3. PInv /\ PInv' /\ regions' = regions /\ phase = "paging" /\ phase' = "run"
  <2>1. PInv /\ PhysNext
    BY <1>1, <1>2 DEF BInv, MemInv, PhysNext
  <2>. QED  BY <1>2, <2>1, NextInv DEF CountMapped
<1>4. /\ at \in Kernel /\ at' \in Kernel /\ at' \in Tabled
      /\ at' \notin Reads \cup Loads \cup {"check"}
  BY <1>2, AtNames DEF Reads, Loads, Tabled
<1>5. /\ gdtr = "kernel" /\ KERNEL \in memory /\ regions = bios /\ bios \in MemoryMaps
      /\ BITMAP \in memory /\ \E n \in Nat : MAP_ARRAY(n) \in memory
  <2>1. KERNEL \in memory /\ regions = bios /\ bios \in MemoryMaps
    BY <1>1, <1>4 DEF BInv, KeptInv, CodeInv, ReportInv
  <2>2. gdtr = "kernel"
    BY <1>1, <1>2, <1>4 DEF BInv, KeptInv, GdtInv
  <2>3. BITMAP \in memory /\ \E n \in Nat : MAP_ARRAY(n) \in memory
    BY <1>1, <1>3 DEF BInv, KeptInv, DataInv
  <2>. QED  BY <2>1, <2>2, <2>3
<1>6. /\ KERNEL \in memory' /\ BITMAP \in memory' /\ TABLE_AREA \in memory'
      /\ \E n \in Nat : MAP_ARRAY(n) \in memory'
  <2>1. Apart(KERNEL, TABLE_AREA) /\ Apart(BITMAP, TABLE_AREA)
    BY Layout DEF Apart, KERNEL, TABLE_AREA, BITMAP, Span
  <2>2. \A n \in Nat : Apart(MAP_ARRAY(n), TABLE_AREA)
    BY Layout DEF Apart, MAP_ARRAY, TABLE_AREA, Span
  <2>. QED  BY <1>2, <1>5, <2>1, <2>2, Kept
<1>7. AtInv'
  BY <1>2, <1>3, <1>4, EarlyNames, AtNames DEF AtInv, Tabled
<1>8. ReportInv'
  BY <1>2, <1>3, <1>4, <1>5 DEF ReportInv
<1>9. KeptInv'
  BY <1>2, <1>3, <1>4, <1>5, <1>6 DEF KeptInv, CodeInv, GdtInv, DataInv
<1>10. MemInv' /\ CountInv'
  BY <1>3, <1>4 DEF MemInv, CountInv, PInv, Counted
<1>. QED  BY <1>7, <1>8, <1>9, <1>10 DEF BInv

(* A frame that is given or taken back is not one of the kernel's.         *)
LEMMA HandOutCount ==
  ASSUME PInv, phase = "run", CountInv, paging,
         GetPage \/ \E p \in AllPages : PutPage(p)
  PROVE  \A p \in 1 .. KERNEL_MEMORY - 1 : memory_map_array'[p] >= 1
<1>1. /\ memory_map_array \in [AllPages -> 0 .. COUNTS - 1]
      /\ \A p \in 1 .. KERNEL_MEMORY - 1 : memory_map_array[p] >= 1 /\ p \in AllPages
  BY Constants DEF PInv, PhysTypeOK, CountInv, AllPages
<1>2. CASE GetPage
  BY <1>1, <1>2, Constants DEF GetPage
<1>3. ASSUME NEW q \in AllPages, PutPage(q)
      PROVE  \A p \in 1 .. KERNEL_MEMORY - 1 : memory_map_array'[p] >= 1
  <2>1. q >= KERNEL_MEMORY /\ q \in Nat
    BY <1>3 DEF PutPage, PInv, Owned, PoolsDisjoint, AllPages
  <2>2. \A p \in 1 .. KERNEL_MEMORY - 1 : p # q
    BY <2>1, Constants
  <2>. QED  BY <1>1, <1>3, <2>2 DEF PutPage
<1>. QED  BY <1>2, <1>3

LEMMA RunInv == BInv /\ (KernelRuns \/ HandOut \/ EditTables) => BInv'
<1>1. SUFFICES ASSUME BInv, KernelRuns \/ HandOut \/ EditTables PROVE BInv'
  OBVIOUS
<1>2. /\ at \in Tabled /\ at' \in Tabled /\ paging' = paging /\ regions' = regions
      /\ UNCHANGED <<bios, memory, gdtr>>
  <2>1. CASE KernelRuns
    BY <2>1 DEF KernelRuns, Tabled, physvars, pagevars
  <2>2. CASE HandOut
    BY <2>2 DEF HandOut, Tabled, pagevars, boot, GetPage, PutPage
  <2>3. CASE EditTables
    BY <2>3 DEF EditTables, Tabled, physvars, boot, PageUse, Call, SetPde, SetPte,
                DisableTlb, Use, Access, Evict
  <2>. QED  BY <1>1, <2>1, <2>2, <2>3
<1>3. /\ at \in Kernel /\ at' \in Kernel /\ at' \notin Reads \cup Loads \cup {"check"}
      /\ at' \notin {"memory_map_init", "paging_init"} /\ at' \notin {"reading kernel", "console_init", "gdt_init"}
      /\ at \notin {"reading kernel", "console_init", "gdt_init"}
  BY <1>2, AtNames DEF Reads, Loads, Tabled
<1>4. PInv /\ paging /\ CountInv /\ phase \in {"run", "halt"}
  BY <1>1, <1>2 DEF BInv, MemInv, AtInv
<1>5. PInv' /\ CountInv' /\ phase' \in {"run", "halt"} /\ (phase' = "run" => phase = "run")
  <2>1. CASE UNCHANGED physvars
    <3>1. PInv'
      BY <1>4, <2>1, NextInv
    <3>. QED  BY <1>2, <1>4, <2>1, <3>1 DEF CountInv, physvars
  <2>2. CASE HandOut
    <3>1. PhysNext /\ phase = "run" /\ phase' \in {"run", "halt"}
      BY <2>2 DEF HandOut, PhysNext, GetPage, PutPage
    <3>2. PInv'
      BY <1>4, <3>1, NextInv
    <3>. QED  BY <1>4, <2>2, <3>1, <3>2, HandOutCount DEF HandOut, CountInv
  <2>. QED  BY <1>1, <2>1, <2>2 DEF KernelRuns, EditTables
<1>6. AtInv'
  BY <1>2, <1>3, <1>4, <1>5 DEF AtInv
<1>7. ReportInv'
  BY <1>1, <1>2, <1>3 DEF BInv, ReportInv
<1>8. KeptInv'
  <2>1. CodeInv' /\ GdtInv'
    BY <1>1, <1>2, <1>3 DEF BInv, KeptInv, CodeInv, GdtInv
  <2>2. DataInv'
    BY <1>1, <1>2, <1>4, <1>5 DEF BInv, KeptInv, DataInv
  <2>. QED  BY <2>1, <2>2 DEF KeptInv
<1>9. MemInv'
  BY <1>2, <1>5 DEF MemInv
<1>. QED  BY <1>5, <1>6, <1>7, <1>8, <1>9 DEF BInv

LEMMA BootNextInv == BInv /\ [BootNext]_bootvars => BInv'
<1>1. SUFFICES ASSUME BInv, [BootNext]_bootvars PROVE BInv'
  OBVIOUS
<1>2. CASE UNCHANGED bootvars
  <2>1. UNCHANGED <<physvars, pagevars, at, bios, memory, gdtr>>
    BY <1>2 DEF bootvars, boot
  <2>2. PInv => PInv'
    BY <2>1, NextInv
  <2>3. Statics => Statics'
    BY <2>1, StaticsKept DEF physvars
  <2>. QED  BY <1>1, <2>1, <2>2, <2>3
               DEF BInv, AtInv, ReportInv, KeptInv, CodeInv, GdtInv, DataInv, MemInv, CountInv,
                 physvars, pagevars
<1>. QED  BY <1>1, <1>2, DriveInv, LoaderInv, LoaderReadInv, E820Inv, ProtectInv,
             KernelReadInv, ConsoleInitInv, GdtInitInv, ArdsInitInv, MapInitInv,
             PagingInitInv, RunInv DEF BootNext

LEMMA BootInvariance == BootSpec => []BInv
BY BootInitInv, BootNextInv, PTL DEF BootSpec

-----------------------------------------------------------------------------
(* The boot sector, the loader, its descriptor table and its report, the   *)
(* kernel and its tables: none is written over while it is needed.         *)
THEOREM NothingLost == BootSpec => []NothingUsedIsLost
<1>1. ASSUME BInv PROVE NothingUsedIsLost
  <2>1. /\ BOOT_SECTOR.what = "boot sector" /\ LOADER.what = "loader"
        /\ KERNEL.what = "kernel" /\ BITMAP.what = "bitmap" /\ TABLE_AREA.what = "tables"
        /\ \A n : REPORT(n).what = "report" /\ MAP_ARRAY(n).what = "map array"
    BY DEF BOOT_SECTOR, LOADER, KERNEL, BITMAP, TABLE_AREA, REPORT, MAP_ARRAY, Span
  <2>2. gdtr # "bios" => Intact(gdtr)
    BY <1>1, <2>1 DEF BInv, KeptInv, CodeInv, GdtInv, DataInv, Intact
  <2>3. /\ at \in Reads => Intact("boot sector")
        /\ at \in Loads => Intact("loader")
        /\ at \in Kernel => Intact("kernel")
    BY <1>1, <2>1 DEF BInv, KeptInv, CodeInv, GdtInv, DataInv, Intact
  <2>4. /\ phase = "ards" /\ regions # <<>> => Intact("report")
        /\ phase \in {"paging", "run"} => Intact("map array") /\ Intact("bitmap")
        /\ paging => Intact("tables")
    BY <1>1, <2>1 DEF BInv, KeptInv, CodeInv, GdtInv, DataInv, Intact
  <2>. QED  BY <2>2, <2>3, <2>4 DEF NothingUsedIsLost
<1>. QED  BY <1>1, BootInvariance, PTL

(* Every record of the BIOS reaches ards_init, and the kernel sets up its  *)
(* memory from nothing else.                                               *)
THEOREM ReportReaches == BootSpec => SetsUpReported
<1>1. BootInit => Reported!PhysInit
  BY DEF BootInit, Reported!PhysInit, Statics, Reported!Statics,
         Reported!AllPages, AllPages
<1>2. ASSUME BInv, [BootNext]_bootvars
      PROVE  [Reported!PhysNext]_(Reported!physvars)
  <2>1. CASE ArdsInit
    <3>1. regions = bios /\ bios' = bios
      BY <1>2, <2>1, AtNames DEF ArdsInit, BInv, ReportInv
    <3>2. CASE ArdsRecord
      <4>1. Reported!ArdsRecord
        BY <3>1, <3>2 DEF ArdsRecord, Reported!ArdsRecord
      <4>. QED  BY <4>1 DEF Reported!PhysNext
    <3>3. CASE ArdsEnd
      <4>1. Reported!ArdsEnd
        BY <3>1, <3>3 DEF ArdsEnd, Reported!ArdsEnd
      <4>. QED  BY <4>1 DEF Reported!PhysNext
    <3>. QED  BY <2>1, <3>2, <3>3 DEF ArdsInit
  <2>2. CASE MapInit
    <3>1. Reported!MemoryMapInit
      BY <2>2 DEF MapInit, MemoryMapInit, Reported!MemoryMapInit, DivRoundUp,
         Reported!DivRoundUp, region, Reported!region, AllPages, Reported!AllPages
    <3>. QED  BY <3>1 DEF Reported!PhysNext
  <2>3. CASE PagingInit
    <3>1. Reported!CountMapped
      BY <2>3 DEF PagingInit, CountMapped, Reported!CountMapped, region, Reported!region,
                  AllPages, Reported!AllPages
    <3>. QED  BY <3>1 DEF Reported!PhysNext
  <2>4. CASE HandOut
    <3>1. bios' = bios /\ AllPages = Reported!AllPages /\ Unused = Reported!Unused
      BY <2>4 DEF HandOut, boot, AllPages, Reported!AllPages, Unused, Reported!Unused
    <3>2. CASE GetPage
      <4>1. Reported!GetPage
        BY <3>1, <3>2 DEF GetPage, Reported!GetPage, region, Reported!region
      <4>. QED  BY <4>1 DEF Reported!PhysNext
    <3>3. ASSUME NEW p \in AllPages, PutPage(p) PROVE Reported!PhysNext
      <4>1. Reported!PutPage(p)
        BY <3>1, <3>3 DEF PutPage, Reported!PutPage, region, Reported!region
      <4>. QED  BY <3>1, <4>1 DEF Reported!PhysNext
    <3>. QED  BY <2>4, <3>2, <3>3 DEF HandOut
  <2>5. CASE E820Record
    BY <2>5 DEF E820Record, Reported!physvars, region, Reported!region
  <2>6. ASSUME UNCHANGED <<physvars, bios>> PROVE UNCHANGED Reported!physvars
    BY <2>6 DEF physvars, Reported!physvars, region, Reported!region
  <2>. QED  BY <1>2, <2>1, <2>2, <2>3, <2>4, <2>5, <2>6
               DEF BootNext, bootvars, boot, DriveAnswers, ReadLoader, ReadSector, CheckMagic,
                   E820Carry, EnterProtected, ConsoleInit, GdtInit, KernelRuns, EditTables
<1>. QED  BY <1>1, <1>2, BootInvariance, PTL DEF BootSpec, SetsUpReported, Reported!PhysSpec

(* The boot and what follows it are a use of the page tables, so that what *)
(* Paging promises holds in it.                                            *)
LEMMA BootIsPaging == BootSpec => PageSpec
<1>1. BootInit => PageInit
  BY DEF BootInit
<1>2. [BootNext]_bootvars => [PageNext]_pagevars
  <2>1. SUFFICES ASSUME [BootNext]_bootvars, ~UNCHANGED pagevars PROVE PageNext
    OBVIOUS
  <2>2. PagingInit \/ EditTables
    BY <2>1 DEF BootNext, bootvars, DriveAnswers, ReadLoader, ReadSector, CheckMagic,
                E820Record, E820Carry, EnterProtected, ConsoleInit, GdtInit, ArdsInit,
                MapInit, KernelRuns, HandOut
  <2>. QED  BY <2>2 DEF PagingInit, EditTables, PageNext
<1>. QED  BY <1>1, <1>2, PTL DEF BootSpec, PageSpec

(* A frame that the kernel's tables map is counted, and nobody else is     *)
(* given it.                                                               *)
THEOREM MappedCounted == BootSpec => []FramesCounted
<1>1. ASSUME BInv, PgInv PROVE FramesCounted
  <2>1. PoolsDisjoint
    BY <1>1 DEF BInv, MemInv, PInv, Owned, Statics, PoolsDisjoint
  <2>2. ASSUME paging, NEW t \in KernelTables, NEW e \in Index, mem[t][e] # NONE
        PROVE  memory_map_array[mem[t][e]] >= 1 /\ mem[t][e] \notin handed
    <3>1. PICK d \in 0 .. TABLES - 1 : t = d + 2
      BY DEF KernelTables, KERNEL_PAGE_TABLE
    <3>2. mem[t][e] = Entry(d + 2, e)
      BY <1>1, <2>2, <3>1 DEF PgInv, TablesInv
    <3>3. mem[t][e] = Identity(d * ENTRIES + e) /\ d * ENTRIES + e \in 0 .. KERNEL_MEMORY - 1
      BY <3>2, EntryOf, BootAssumption
    <3>4. mem[t][e] \in 1 .. KERNEL_MEMORY - 1
      <4> DEFINE index == d * ENTRIES + e
      <4>1. index # 0 /\ mem[t][e] = index
        BY <2>2, <3>3 DEF Identity
      <4>. QED  BY <3>3, <4>1
    <3>. QED  BY <1>1, <2>1, <2>2, <3>4, Constants DEF BInv, CountInv, PoolsDisjoint
  <2>. QED  BY <2>1, <2>2 DEF FramesCounted
<1>. QED  BY <1>1, BootInvariance, BootIsPaging, PageInvariance, PTL

-----------------------------------------------------------------------------
(***************************************************************************)
(* KernelPages keeps its promises for a bitmap of any size and requests of *)
(* any length.  The invariant, IInv, says of each loop what it has done so *)
(* far: the scan, that every run which ends before its index has a page in *)
(* use; the marking and the clearing, how far the bits have got ahead of,  *)
(* or behind, the owners.  One lemma for each action, then the theorems.   *)
(***************************************************************************)
USE DEF Pages, EOF

(* The pool is a whole number of pages and has room for the memory map.    *)
LEMMA PoolSizeNat == PoolSize \in Nat /\ MapPages \in 1 .. PoolSize
BY BitmapAssumption

(* memory_map_init enters its scan with nothing seen and nothing owned.    *)
LEMMA PoolInitInv == Init => IInv
<1>1. SUFFICES ASSUME Init PROVE IInv
  OBVIOUS
<1>2. TypeOK
  <2>1. bits \in [Pages -> BOOLEAN]
    BY <1>1 DEF Init
  <2>2. count \in Nat /\ i \in -1 .. PoolSize /\ found \in Nat
    BY <1>1, PoolSizeNat DEF Init
  <2>. QED  BY <1>1, <2>1, <2>2 DEF Init, TypeOK
<1>3. ScanInv
  BY <1>1, PoolSizeNat DEF Init, ScanInv, NoRunBefore, Run
<1>. QED
  BY <1>1, <1>2, <1>3 DEF Init, IInv, MarkInv, ResetInv, BootInv,
                          BitsMatchOwners, HaltsOnlyWhenFull

(* A call finds the bitmap exact and starts its scan at the first bit.     *)
LEMMA AllocCallInv ==
  ASSUME IInv, NEW n \in 1 .. MaxCount, AllocCall(n)
  PROVE  IInv'
<1>. USE PoolSizeNat, BitmapAssumption DEF AllocCall
<1>1. TypeOK'
  BY DEF IInv, TypeOK
<1>2. ScanInv'
  BY DEF IInv, TypeOK, BitsMatchOwners, ScanInv, NoRunBefore, Run
<1>3. BootInv'
  BY DEF IInv, BootInv
<1>. QED
  BY <1>1, <1>2, <1>3 DEF IInv, MarkInv, ResetInv, BitsMatchOwners,
                          HaltsOnlyWhenFull

(* One turn of the scan: a used page ends every run that reaches it, a     *)
(* free one lengthens the run or completes it, and a completed run is the  *)
(* lowest, for every run that ends earlier was seen to have a page in use. *)
LEMMA ScanStepInv ==
  ASSUME IInv, ScanStep
  PROVE  IInv'
<1>. USE PoolSizeNat DEF ScanStep
<1>1. /\ i \in Pages /\ found \in 0 .. count - 1 /\ found <= i /\ count \in Nat
      /\ \A b \in Run(i - found, found) : ~bits[b]
      /\ found < i => bits[i - found - 1]
      /\ NoRunBefore(i)
      /\ \A b \in Pages : bits[b] <=> b \in owned
  BY DEF IInv, TypeOK, ScanInv
<1>2. CASE bits[i]
  <2>1. /\ found' = 0 /\ i' = i + 1 /\ pc' = "scan" /\ start' = start
        /\ count' = count /\ bits' = bits /\ owned' = owned
    BY <1>1, <1>2
  <2>2. NoRunBefore(i)'
    <3>1. SUFFICES ASSUME NEW s \in Pages, s + count <= i + 1
                   PROVE  \E b \in Run(s, count) : bits[b]
      BY <2>1 DEF NoRunBefore, Run
    <3>2. CASE s + count <= i
      BY <1>1, <3>2 DEF NoRunBefore
    <3>3. CASE s + count = i + 1
      <4>1. i \in Run(s, count)
        BY <1>1, <3>3 DEF Run
      <4>. QED  BY <1>2, <4>1
    <3>. QED  BY <1>1, <3>1, <3>2, <3>3
  <2>3. ScanInv'
    <3>1. Run(i' - found', found') = {} /\ i' - found' - 1 = i
      BY <1>1, <2>1 DEF Run
    <3>2. i' \in 0 .. PoolSize /\ found' \in 0 .. count - 1 /\ found' <= i'
      BY <1>1, <2>1
    <3>. QED  BY <1>1, <1>2, <2>1, <2>2, <3>1, <3>2 DEF ScanInv
  <2>4. TypeOK'
    BY <1>1, <2>1 DEF IInv, TypeOK
  <2>. QED
    BY <2>1, <2>3, <2>4 DEF IInv, MarkInv, ResetInv, BootInv, BitsMatchOwners,
                            HaltsOnlyWhenFull
<1>3. CASE ~bits[i] /\ found + 1 < count
  <2>1. /\ found' = found + 1 /\ i' = i + 1 /\ pc' = "scan" /\ start' = start
        /\ count' = count /\ bits' = bits /\ owned' = owned
    BY <1>1, <1>3
  <2>2. NoRunBefore(i)'
    <3>1. SUFFICES ASSUME NEW s \in Pages, s + count <= i + 1
                   PROVE  \E b \in Run(s, count) : bits[b]
      BY <2>1 DEF NoRunBefore, Run
    <3>2. CASE s + count <= i
      BY <1>1, <3>2 DEF NoRunBefore
    <3>3. CASE s + count = i + 1
      <4>1. s <= i - found - 1 /\ 0 <= i - found - 1
        BY <1>1, <1>3, <3>3
      <4>2. i - found - 1 \in Run(s, count) /\ bits[i - found - 1]
        BY <1>1, <3>3, <4>1 DEF Run
      <4>. QED  BY <4>2
    <3>. QED  BY <1>1, <3>1, <3>2, <3>3
  <2>3. ScanInv'
    <3>1. i' - found' = i - found
      BY <1>1, <2>1
    <3>2. \A b \in Run(i - found, found + 1) : b \in Run(i - found, found) \/ b = i
      BY <1>1 DEF Run
    <3>3. i' \in 0 .. PoolSize /\ found' \in 0 .. count - 1 /\ found' <= i'
      BY <1>1, <1>3, <2>1
    <3>. QED  BY <1>1, <1>3, <2>1, <2>2, <3>1, <3>2, <3>3 DEF ScanInv
  <2>4. TypeOK'
    BY <1>1, <2>1 DEF IInv, TypeOK
  <2>. QED
    BY <2>1, <2>3, <2>4 DEF IInv, MarkInv, ResetInv, BootInv, BitsMatchOwners,
                            HaltsOnlyWhenFull
<1>4. CASE ~bits[i] /\ found + 1 = count
  <2>1. /\ found' = count /\ i' = i /\ pc' = "mark" /\ start' = i - count + 1
        /\ count' = count /\ bits' = bits /\ owned' = owned
    BY <1>1, <1>4
  <2>2. start' \in Pages /\ count \in 1 .. PoolSize - start' /\ i = start' + count - 1
    BY <1>1, <1>4, <2>1
  <2>3. \A b \in Run(start', count) : b \notin owned
    BY <1>1, <1>4, <2>1, <2>2 DEF Run
  <2>4. FirstFit'
    <3>1. SUFFICES ASSUME NEW s \in Pages, s < start'
                   PROVE  \E b \in Run(s, count) : b \in owned
      BY <2>1 DEF FirstFit, Run
    <3>a. s + count <= i
      BY <2>1, <2>2, <3>1
    <3>2. PICK b \in Run(s, count) : bits[b]
      BY <1>1, <3>1, <3>a DEF NoRunBefore
    <3>3. b \in Pages
      BY <1>1, <3>1, <3>a, <3>2 DEF Run
    <3>. QED  BY <1>1, <3>2, <3>3
  <2>5. Run(i' + 1, count' - found')  = {}
    BY <1>1, <2>1 DEF Run
  <2>6. MarkInv'
    BY <1>1, <2>1, <2>2, <2>3, <2>4, <2>5 DEF MarkInv
  <2>7. TypeOK'
    BY <1>1, <2>1, <2>2 DEF IInv, TypeOK
  <2>. QED
    BY <2>1, <2>6, <2>7 DEF IInv, ScanInv, ResetInv, BootInv, BitsMatchOwners,
                            HaltsOnlyWhenFull
<1>. QED  BY <1>1, <1>2, <1>3, <1>4

(* The scan has seen every run there is when it gives up.                  *)
LEMMA ScanFailInv ==
  ASSUME IInv, ScanFail
  PROVE  IInv'
<1>. USE PoolSizeNat DEF ScanFail
<1>1. HaltsOnlyWhenFull'
  <2>1. SUFFICES ASSUME NEW s \in Pages, Run(s, count) \subseteq Pages
                 PROVE  \E b \in Run(s, count) : b \in owned
    BY DEF HaltsOnlyWhenFull, Run
  <2>2. count \in Nat \ {0} /\ NoRunBefore(PoolSize)
    BY DEF IInv, TypeOK, ScanInv
  <2>3. s + count - 1 \in Pages
    BY <2>1, <2>2 DEF Run
  <2>4. PICK b \in Run(s, count) : bits[b]
    BY <2>2, <2>3 DEF NoRunBefore
  <2>. QED  BY <2>1, <2>4 DEF IInv, ScanInv
<1>. QED
  BY <1>1 DEF IInv, TypeOK, ScanInv, MarkInv, ResetInv, BootInv, BitsMatchOwners

(* Marking backwards, the marked part of the run grows by one page.        *)
LEMMA MarkStepInv ==
  ASSUME IInv, MarkStep
  PROVE  IInv'
<1>. USE PoolSizeNat DEF MarkStep
<1>1. /\ start \in Pages /\ count \in 1 .. PoolSize - start
      /\ found \in 1 .. count /\ i = start + found - 1 /\ i \in Pages
      /\ \A b \in Pages : bits[b] <=> b \in owned \/ b \in Run(i + 1, count - found)
      /\ \A b \in Run(start, count) : b \notin owned
  BY DEF IInv, TypeOK, MarkInv
<1>2. /\ bits' \in [Pages -> BOOLEAN]
      /\ \A b \in Pages : bits'[b] <=> b \in owned \/ b \in Run(i, count - found + 1)
  BY <1>1 DEF IInv, TypeOK, Run
<1>3. TypeOK'
  BY <1>1, <1>2 DEF IInv, TypeOK
<1>4. MarkInv'
  <2>1. i' + 1 = i /\ count' - found' = count - found + 1
    BY <1>1
  <2>2. FirstFit'
    BY DEF IInv, MarkInv, FirstFit
  <2>. QED  BY <1>1, <1>2, <2>1, <2>2 DEF MarkInv, Run
<1>. QED
  BY <1>3, <1>4 DEF IInv, ScanInv, ResetInv, BootInv, BitsMatchOwners,
                    HaltsOnlyWhenFull

(* The whole run is marked; the first one starts at page 0.                *)
LEMMA AllocReturnInv ==
  ASSUME IInv, AllocReturn
  PROVE  IInv'
<1>. USE PoolSizeNat DEF AllocReturn
<1>1. /\ start \in Pages /\ count \in 1 .. PoolSize - start /\ i + 1 = start
      /\ count - found = count
      /\ \A b \in Pages : bits[b] <=> b \in owned \/ b \in Run(start, count)
      /\ FirstFit
  BY DEF IInv, TypeOK, MarkInv
<1>2. ~booted => start = 0
  BY <1>1 DEF IInv, BootInv, FirstFit
<1>3. pc' = "idle" /\ booted'
  BY <1>2
<1>4. TypeOK'
  BY <1>1, <1>3 DEF IInv, TypeOK, Run
<1>5. BitsMatchOwners'
  BY <1>1, <1>3 DEF BitsMatchOwners
<1>6. BootInv'
  BY <1>2, <1>3 DEF IInv, BootInv
<1>. QED
  BY <1>3, <1>4, <1>5, <1>6 DEF IInv, ScanInv, MarkInv, ResetInv,
                                HaltsOnlyWhenFull

(* The caller owned the pages, so that all their bits are set.             *)
LEMMA FreeCallInv ==
  ASSUME IInv, NEW s \in Pages, NEW n \in 1 .. MaxCount, FreeCall(s, n)
  PROVE  IInv'
<1>. USE PoolSizeNat, BitmapAssumption DEF FreeCall
<1>1. s + n - 1 \in Pages
  BY DEF IInv, TypeOK, Run
<1>2. ResetInv'
  BY <1>1 DEF IInv, BitsMatchOwners, ResetInv, Run
<1>3. TypeOK'
  <2>1. i' \in -1 .. PoolSize /\ count' \in Nat
    BY DEF IInv, TypeOK
  <2>2. owned' \subseteq Pages
    BY DEF IInv, TypeOK
  <2>. QED  BY <2>1, <2>2 DEF IInv, TypeOK
<1>4. BootInv'
  BY DEF IInv, BootInv, Run
<1>. QED
  BY <1>2, <1>3, <1>4 DEF IInv, ScanInv, MarkInv, BitsMatchOwners,
                          HaltsOnlyWhenFull

(* Clearing forwards, the part still to be cleared shrinks by one page,    *)
(* and the assertion holds since its bit is still set.                     *)
LEMMA ResetStepInv ==
  ASSUME IInv, ResetStep
  PROVE  IInv'
<1>. USE PoolSizeNat DEF ResetStep
<1>1. /\ i \in Pages /\ count \in 1 .. PoolSize - i
      /\ \A b \in Run(i, count) : b \notin owned
      /\ \A b \in Pages : bits[b] <=> b \in owned \/ b \in Run(i, count)
  BY DEF IInv, TypeOK, ResetInv
<1>2. bits[i] /\ i \notin owned
  BY <1>1 DEF Run
<1>3. pc' = "reset" /\ bits' = [bits EXCEPT ![i] = FALSE]
  BY <1>2
<1>4. TypeOK'
  BY <1>1, <1>3 DEF IInv, TypeOK
<1>5. ResetInv'
  <2>1. \A b \in Pages : bits'[b] <=> b \in owned \/ b \in Run(i + 1, count - 1)
    BY <1>1, <1>2, <1>3 DEF IInv, TypeOK, Run
  <2>2. i' \in 0 .. PoolSize - count' /\ \A b \in Run(i + 1, count - 1) : b \notin owned
    BY <1>1 DEF Run
  <2>. QED  BY <2>1, <2>2 DEF ResetInv, Run
<1>. QED
  BY <1>3, <1>4, <1>5 DEF IInv, ScanInv, MarkInv, BootInv, BitsMatchOwners,
                          HaltsOnlyWhenFull

(* Nothing is left to clear: the bitmap is exact again.                    *)
LEMMA FreeReturnInv ==
  ASSUME IInv, FreeReturn
  PROVE  IInv'
<1>. USE PoolSizeNat DEF FreeReturn
<1>1. BitsMatchOwners'
  BY DEF IInv, TypeOK, ResetInv, BitsMatchOwners, Run
<1>. QED
  BY <1>1 DEF IInv, TypeOK, ScanInv, MarkInv, ResetInv, BootInv,
              HaltsOnlyWhenFull

(* Every step of the allocator.                                            *)
LEMMA PoolNextInv == IInv /\ [Next]_vars => IInv'
<1>1. SUFFICES ASSUME IInv, [Next]_vars PROVE IInv'
  OBVIOUS
<1>2. CASE UNCHANGED vars
  BY <1>1, <1>2 DEF vars, IInv, TypeOK, ScanInv, MarkInv, ResetInv, BootInv,
    BitsMatchOwners, HaltsOnlyWhenFull, NoRunBefore, FirstFit, Run
<1>3. CASE Next
  BY <1>1, <1>3, AllocCallInv, ScanStepInv, ScanFailInv, MarkStepInv,
     AllocReturnInv, FreeCallInv, ResetStepInv, FreeReturnInv DEF Next
<1>. QED  BY <1>1, <1>2, <1>3

(* The loops do what they are for, in every state of every sequence of     *)
(* calls.                                                                  *)
THEOREM PoolInvariance == Spec => []IInv
BY PoolInitInv, PoolNextInv, PTL DEF Spec

(* No page is given to two owners, whatever is asked for and given back.   *)
THEOREM Exclusive == Spec => []RunUnowned
<1>1. IInv => RunUnowned
  BY PoolSizeNat DEF IInv, TypeOK, MarkInv, RunUnowned, Run
<1>. QED  BY <1>1, PoolInvariance, PTL

(* Between calls the bitmap is exact.                                      *)
THEOREM BitmapExact == Spec => []BitsMatchOwners
<1>1. IInv => BitsMatchOwners
  BY DEF IInv
<1>. QED  BY <1>1, PoolInvariance, PTL

(* A panic means that no run of the length asked for is free, and no       *)
(* assertion of reset_page or memory_map_init can fail.                    *)
THEOREM PanicJustified == Spec => []HaltsOnlyWhenFull
<1>1. IInv => HaltsOnlyWhenFull
  BY DEF IInv
<1>. QED  BY <1>1, PoolInvariance, PTL

(* The run found is the lowest one.                                        *)
THEOREM LowestRun == Spec => []FirstFit
<1>1. IInv => FirstFit
  BY DEF IInv, MarkInv, FirstFit
<1>. QED  BY <1>1, PoolInvariance, PTL

-----------------------------------------------------------------------------
(* The loops implement the pool.  What is asked for stays within bounds,   *)
(* which no other property needs.                                          *)
Asked == booted /\ pc \in {"scan", "mark"} => count \in 1 .. MaxCount

LEMMA AskedInv == Spec => []Asked
<1>1. Init => Asked
  BY DEF Init, Asked
<1>2. Asked /\ [Next]_vars => Asked'
  BY DEF Asked, Next, vars, AllocCall, ScanStep, ScanFail, MarkStep, AllocReturn,
         FreeCall, ResetStep, FreeReturn
<1>. QED  BY <1>1, <1>2, PTL DEF Spec

(* The pages owned as the pool sees them.                                  *)
PoolOwned == IF booted THEN owned ELSE Run(0, MapPages)

LEMMA PoolInit == Init => Pool!Init
BY DEF Init, Pool!Init, Pool!Run, Run

(* memory_map_init's scan finds its pages, and at the bottom of the map.   *)
LEMMA BootScan ==
  ASSUME IInv, ~booted
  PROVE  ~(ScanFail) /\ (pc = "mark" => start = 0 /\ count = MapPages)
<1>1. owned = {} /\ count = MapPages
  BY DEF IInv, BootInv
<1>2. ASSUME ScanFail PROVE FALSE
  <2>1. NoRunBefore(PoolSize) /\ \A b \in Pages : bits[b] <=> b \in owned
    BY <1>2 DEF ScanFail, IInv, ScanInv
  <2>2. 0 \in Pages /\ 0 + count <= PoolSize /\ \A b \in Run(0, count) : b \in Pages
    BY <1>1, PoolSizeNat DEF Pages, Run
  <2>3. \E b \in Run(0, count) : bits[b]
    BY <2>1, <2>2 DEF NoRunBefore
  <2>. QED  BY <1>1, <2>1, <2>2, <2>3
<1>3. ASSUME pc = "mark" PROVE start = 0
  <2>1. start \in Pages /\ \A s \in Pages : s < start => \E b \in Run(s, count) : b \in owned
    BY <1>3 DEF IInv, MarkInv, FirstFit
  <2>2. 0 \in Pages
    BY PoolSizeNat DEF Pages
  <2>. QED  BY <1>1, <2>1, <2>2 DEF Pages
<1>. QED  BY <1>1, <1>2, <1>3

LEMMA AllocRefines ==
  ASSUME IInv, Asked, AllocReturn
  PROVE  [Pool!Next]_(Pool!poolvars)
<1>1. /\ start \in Pages /\ count \in 1 .. PoolSize - start /\ pc = "mark"
      /\ \A b \in Run(start, count) : b \notin owned
      /\ \A s \in Pages : s < start => \E b \in Run(s, count) : b \in owned
  BY DEF AllocReturn, IInv, MarkInv, FirstFit
<1>2. CASE ~booted
  <2>1. owned = {} /\ start = 0 /\ count = MapPages
    BY <1>1, <1>2, BootScan DEF IInv, BootInv
  <2>2. owned' = Run(0, MapPages) /\ booted' /\ pc' = "idle"
    BY <1>2, <2>1 DEF AllocReturn
  <2>. QED  BY <1>1, <1>2, <2>2 DEF Pool!poolvars
<1>3. CASE booted
  <2>1. count \in 1 .. MaxCount /\ pc' = "idle" /\ owned' = owned \cup Run(start, count) /\ booted'
    BY <1>1, <1>3 DEF Asked, AllocReturn
  <2>2. start \in Pool!FreeRuns(count)
    BY <1>1, <1>3, PoolSizeNat DEF Pool!FreeRuns, Pool!Run, Run, Pages
  <2>3. ASSUME NEW r \in Pool!FreeRuns(count) PROVE start <= r
    <3>1. r \in Pages /\ ~\E b \in Run(r, count) : b \in owned
      BY <1>1, <1>3, PoolSizeNat DEF Pool!FreeRuns, Pool!Run, Run, Pages
    <3>. QED  BY <1>1, <3>1 DEF Pages
  <2>4. Pool!Alloc
    BY <1>1, <1>3, <2>1, <2>2, <2>3 DEF Pool!Alloc, Pool!Run, Run
  <2>. QED  BY <2>4 DEF Pool!Next
<1>. QED  BY <1>2, <1>3

LEMMA FailRefines ==
  ASSUME IInv, Asked, ScanFail
  PROVE  Pool!Next
<1>1. booted /\ pc = "scan" /\ pc' = "halt" /\ UNCHANGED <<owned, booted>>
  BY BootScan DEF ScanFail
<1>2. count \in 1 .. MaxCount
  BY <1>1 DEF Asked
<1>3. ASSUME NEW s \in Pool!FreeRuns(count) PROVE FALSE
  <2>1. s \in Pages /\ s + count <= PoolSize
    BY <1>2, PoolSizeNat DEF Pool!FreeRuns, Pages
  <2>2. /\ \A b \in Run(s, count) : b \in Pages
        /\ ~\E b \in Run(s, count) : b \in owned
    BY <1>1, <1>2, <1>3, <2>1, PoolSizeNat DEF Pool!FreeRuns, Pool!Run, Run, Pages
  <2>3. NoRunBefore(PoolSize) /\ \A b \in Pages : bits[b] <=> b \in owned
    BY DEF ScanFail, IInv, ScanInv
  <2>. QED  BY <2>1, <2>2, <2>3 DEF NoRunBefore
<1>4. Pool!FreeRuns(count) = {}
  BY <1>3
<1>. QED  BY <1>1, <1>2, <1>4 DEF Pool!Next, Pool!Panic

LEMMA FreeRefines ==
  ASSUME IInv, NEW s \in Pages, NEW n \in 1 .. MaxCount, FreeCall(s, n)
  PROVE  Pool!Next
<1>1. booted /\ booted' /\ pc = "idle" /\ pc' = "reset"
  BY DEF FreeCall, IInv, BootInv
<1>2. s \in MapPages .. PoolSize - 1
  BY PoolSizeNat DEF FreeCall, Pages
<1>3. Pool!Free
  BY <1>1, <1>2 DEF FreeCall, Pool!Free, Pool!Run, Run
<1>. QED  BY <1>3 DEF Pool!Next

LEMMA StepRefines == IInv /\ Asked /\ [Next]_vars => [Pool!Next]_(Pool!poolvars)
<1>1. SUFFICES ASSUME IInv, Asked, [Next]_vars PROVE [Pool!Next]_(Pool!poolvars)
  OBVIOUS
<1>2. CASE UNCHANGED vars
  BY <1>2 DEF vars, Pool!poolvars
<1>3. CASE \E n \in 1 .. MaxCount : AllocCall(n)
  BY <1>3 DEF AllocCall, Pool!poolvars
<1>4. CASE ScanStep \/ MarkStep \/ FreeReturn
  BY <1>4 DEF ScanStep, MarkStep, FreeReturn, Pool!poolvars
<1>5. CASE ResetStep
  <2>1. bits[i]
    BY <1>1, <1>5, PoolSizeNat DEF ResetStep, IInv, TypeOK, ResetInv, Run, Pages
  <2>. QED  BY <1>5, <2>1 DEF ResetStep, Pool!poolvars
<1>. QED  BY <1>1, <1>2, <1>3, <1>4, <1>5, AllocRefines, FailRefines, FreeRefines DEF Next

(* The bitmap's loops, page by page, allocate and release whole runs: the  *)
(* lowest run nobody owns, or a panic if there is none.                    *)
THEOREM BitmapIsPool == Spec => ImplementsPool
BY PoolInit, StepRefines, PoolInvariance, AskedInv, PTL DEF Spec, ImplementsPool, Pool!Spec
=============================================================================
