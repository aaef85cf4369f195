---------------------------- MODULE LibraryProofs ----------------------------
(***************************************************************************)
(* The laws of Strings, what vsprintf's fields say for every format, and   *)
(* what Rtc promises of the clock and its alarm.                           *)
(***************************************************************************)
EXTENDS Strings, Format, Rtc, WellFoundedInduction, FiniteSetTheorems,
        SequenceTheorems, TLAPS

-----------------------------------------------------------------------------
(***************************************************************************)
(* The laws of l_string.c for every size of memory, every content and      *)
(* every call with legal arguments.                                        *)
(***************************************************************************)

LEMMA Least ==
  ASSUME NEW S \in SUBSET Nat, NEW x \in S
  PROVE  \E m \in S : \A n \in S : m <= n
<1>. DEFINE R == {ss \in Nat \X Nat : ss[1] < ss[2]}
<1>1. IsWellFoundedOn(R, Nat)
  BY NatLessThanWellFounded DEF OpToRel
<1>2. PICK m \in S : \A n \in S : <<n, m>> \notin R
  <2>. HIDE DEF R
  <2>. QED  BY <1>1, WFMin
<1>3. \A n \in S : ~(n < m)
  BY <1>2
<1>. QED  BY <1>3

-----------------------------------------------------------------------------
(* A string ends at its first terminator.                                  *)
LEMMA EndOfString ==
  ASSUME NEW m, NEW p \in Nat, IsString(m, p)
  PROVE  /\ EndOf(m, p) \in p .. SIZE - 1
         /\ m[EndOf(m, p)] = EOS
         /\ \A a \in p .. EndOf(m, p) - 1 : m[a] # EOS
<1>. USE StringsAssumption
<1>. DEFINE S == {e \in p .. SIZE - 1 : m[e] = EOS}
<1>1. S \in SUBSET Nat /\ \E x : x \in S
  BY DEF IsString
<1>2. PICK e \in S : \A n \in S : e <= n
  BY <1>1, Least
<1>3. e \in p .. SIZE - 1 /\ m[e] = EOS /\ \A a \in p .. e - 1 : m[a] # EOS
  BY <1>2
<1>. QED  BY <1>3 DEF EndOf
-----------------------------------------------------------------------------
(* The call, its contract, and memory as it was.                           *)
CallOK ==
  /\ call \in [op : StringOps \cup MemoryOps, dest : Owned, src : Owned, ch : Int, count : Nat]
  /\ before \in [Cells -> -128 .. 127]
  /\ Legal(before, call)

LastSrc == EndOf(before, src)
LastDest == EndOf(before, dest)

(* Only the copying functions change memory.                               *)
Reads == {"compare", "mcompare", "first", "last", "len", "mfind"}

(* What each function has done after i turns.                              *)
CopyLoop ==
  /\ src + i <= LastSrc /\ ptr = dest + i
  /\ Copied(dest, src, i, IF i = 0 THEN {} ELSE {dest + i})

NCopyLoop == i <= count /\ src + i <= LastSrc /\ ptr = dest + i /\ Copied(dest, src, i, {})

CatSeekLoop == i = 0 /\ ptr \in dest .. LastDest /\ mem = before

CatLoop == src + i <= LastSrc /\ ptr = LastDest + i /\ Copied(LastDest, src, i, {})

CompareLoop ==
  /\ src + i <= LastSrc /\ dest + i <= LastDest
  /\ \A j \in 0 .. i - 1 : mem[dest + j] = mem[src + j]

MemoryCompareLoop ==
  /\ i \in Owned /\ dest + i < SIZE /\ src + i < SIZE
  /\ \A j \in 0 .. i - 1 : mem[dest + j] = mem[src + j] /\ mem[dest + j] # EOS

FirstLoop ==
  /\ src + i <= LastSrc
  /\ \A a \in src .. src + i - 1 : mem[a] # call.ch

LastLoop ==
  /\ src + i <= LastSrc
  /\ IF ans = NULL THEN \A a \in src .. src + i - 1 : mem[a] # call.ch
     ELSE /\ ans \in src .. src + i - 1 /\ mem[ans] = call.ch
          /\ \A a \in ans + 1 .. src + i - 1 : mem[a] # call.ch

LenLoop == src + i <= LastSrc

SetLoop ==
  /\ i <= count /\ ptr = dest + i
  /\ \A a \in Cells : mem[a] = IF a \in dest .. dest + i - 1 THEN AsChar(call.ch) ELSE before[a]

MemoryCopyLoop == i <= count /\ ptr = dest + i /\ Copied(dest, src, i, {})

MemoryFindLoop ==
  /\ i <= count
  /\ \A a \in src .. src + i - 1 : mem[a] # call.ch /\ mem[a] # EOS

LoopInv ==
  /\ pc = "seek" => call.op = "cat" /\ CatSeekLoop
  /\ call.op \in Reads => mem = before /\ ptr = dest
  /\ In("copy") => CopyLoop
  /\ In("ncopy") => NCopyLoop
  /\ In("cat") => CatLoop
  /\ In("compare") => CompareLoop
  /\ In("mcompare") => MemoryCompareLoop
  /\ In("first") => FirstLoop
  /\ In("last") => LastLoop
  /\ In("len") => LenLoop
  /\ In("mset") => SetLoop
  /\ In("mcopy") => MemoryCopyLoop
  /\ In("mfind") => MemoryFindLoop

StringsInv == CallOK /\ LoopInv /\ StringLaws

LEMMA CallFacts ==
  ASSUME CallOK
  PROVE  /\ dest \in 0 .. SIZE - 1 /\ src \in 0 .. SIZE - 1 /\ count \in Nat /\ SIZE \in Nat
         /\ call.ch \in Int /\ call.op \in StringOps \cup MemoryOps
         /\ before \in [0 .. SIZE -> -128 .. 127]
BY StringsAssumption DEF CallOK, dest, src, count, Cells, Owned

LEMMA CallKept ==
  ASSUME CallOK, call' = call, before' = before
  PROVE  /\ CallOK' /\ dest' = dest /\ src' = src /\ count' = count
         /\ LastSrc' = LastSrc /\ LastDest' = LastDest
BY DEF CallOK, dest, src, count, LastSrc, LastDest, EndOf, Legal, IsString, Length, Settles, Apart

(* A string the call may read, and where it ends.                          *)
LEMMA SrcString ==
  ASSUME CallOK, IsString(before, src)
  PROVE  /\ LastSrc \in src .. SIZE - 1 /\ before[LastSrc] = EOS
         /\ \A a \in src .. LastSrc - 1 : before[a] # EOS
         /\ Length(before, src) = LastSrc - src
<1>1. src \in Nat
  BY CallFacts
<1>. QED  BY <1>1, EndOfString DEF LastSrc, Length

LEMMA DestString ==
  ASSUME CallOK, IsString(before, dest)
  PROVE  /\ LastDest \in dest .. SIZE - 1 /\ before[LastDest] = EOS
         /\ \A a \in dest .. LastDest - 1 : before[a] # EOS
         /\ Length(before, dest) = LastDest - dest
<1>1. dest \in Nat
  BY CallFacts
<1>. QED  BY <1>1, EndOfString DEF LastDest, Length

LEMMA TypeKept ==
  ASSUME TypeOK, call' = call, mem' \in [Cells -> -128 .. 127], i' \in Nat, ptr' \in 0 .. SIZE,
         ans' \in Cells \cup {NULL}, ret' \in Int, pc' \in {"loop", "done"}
  PROVE  TypeOK'
BY DEF TypeOK

(* The turn at the terminator is the last.                                 *)
LEMMA AtEnd ==
  ASSUME CallOK, IsString(before, src), i \in Nat, src + i <= LastSrc
  PROVE  /\ before[src + i] = EOS <=> src + i = LastSrc
         /\ src + i \in Cells
BY CallFacts, SrcString DEF Cells

-----------------------------------------------------------------------------
LEMMA LegalCopy ==
  ASSUME CallOK, call.op = "copy"
  PROVE  /\ IsString(before, src)
         /\ dest + Length(before, src) < SIZE
         /\ Apart(dest, Length(before, src) + 1, src, Length(before, src) + 1)
BY DEF CallOK, Legal, dest, src

LEMMA StringCopyInv ==
  ASSUME StringsInv, StringCopy
  PROVE  StringsInv'
<1>1. CallOK /\ TypeOK /\ In("copy") /\ CopyLoop /\ call' = call /\ before' = before /\ ans' = ans
  BY DEF StringsInv, LoopInv, StringLaws, StringCopy, Return, Again
<1>2. /\ dest \in 0 .. SIZE - 1 /\ src \in 0 .. SIZE - 1 /\ SIZE \in Nat
      /\ before \in [0 .. SIZE -> -128 .. 127]
      /\ i \in Nat /\ ans \in Cells \cup {NULL} /\ ret \in Int /\ mem \in [Cells -> -128 .. 127]
      /\ pc = "loop" /\ call.op = "copy"
  BY <1>1, CallFacts DEF TypeOK, In
<1>3. /\ CallOK' /\ dest' = dest /\ src' = src /\ LastSrc' = LastSrc
  BY <1>1, CallKept
<1>4. /\ LastSrc \in src .. SIZE - 1 /\ src + i <= LastSrc /\ ptr = dest + i
      /\ dest + (LastSrc - src) < SIZE
      /\ dest + (LastSrc - src) + 1 <= src \/ LastSrc + 1 <= dest
      /\ before[src + i] = EOS <=> src + i = LastSrc
  BY <1>1, <1>2, LegalCopy, SrcString, AtEnd DEF CopyLoop, Apart
<1>5. mem[src + i] = before[src + i]
  BY <1>1, <1>2, <1>4 DEF CopyLoop, Copied, Cells
<1>6. /\ mem' = [mem EXCEPT ![ptr] = before[src + i], ![ptr + 1] = before[src + i]]
      /\ ptr' = ptr + 1
      /\ IF src + i = LastSrc THEN Return(dest) ELSE Again
  BY <1>4, <1>5 DEF StringCopy
<1>7. /\ mem' = [a \in Cells |-> IF a = ptr \/ a = ptr + 1 THEN before[src + i] ELSE mem[a]]
      /\ src + i \in Cells /\ ptr + 1 \in 0 .. SIZE
  <2>1. /\ ptr \in Cells /\ ptr + 1 \in Cells /\ src + i \in Cells /\ ptr + 1 \in 0 .. SIZE
    BY <1>2, <1>4 DEF Cells
  <2>2. PICK c : c = before[src + i]
    OBVIOUS
  <2>3. mem' = [mem EXCEPT ![ptr] = c, ![ptr + 1] = c]
    BY <1>6, <2>2
  <2>4. mem' = [a \in Cells |-> IF a = ptr \/ a = ptr + 1 THEN c ELSE mem[a]]
    BY <1>2, <2>1, <2>3
  <2>. QED  BY <2>1, <2>2, <2>4
<1>8. mem' \in [Cells -> -128 .. 127]
  BY <1>2, <1>7 DEF Cells
<1>9. ASSUME NEW a \in Cells, a # dest + i + 1
      PROVE  mem'[a] = IF a \in dest .. dest + (i + 1) - 1 THEN before[src + a - dest] ELSE before[a]
  <2>1. mem'[a] = IF a = dest + i THEN before[src + i] ELSE mem[a]
    BY <1>2, <1>4, <1>7, <1>9
  <2>2. CASE a = dest + i
    <3>1. src + a - dest = src + i /\ a \in dest .. dest + (i + 1) - 1
      BY <1>2, <2>2
    <3>. QED  BY <2>1, <2>2, <3>1
  <2>3. CASE a # dest + i
    <3>1. mem[a] = IF a \in dest .. dest + i - 1 THEN before[src + a - dest] ELSE before[a]
      BY <1>1, <2>3 DEF CopyLoop, Copied
    <3>2. a \in dest .. dest + i - 1 <=> a \in dest .. dest + (i + 1) - 1
      BY <1>2, <2>3 DEF Cells
    <3>. QED  BY <2>1, <2>3, <3>1, <3>2
  <2>. QED  BY <2>2, <2>3
<1>10. CASE src + i = LastSrc
  <2>1. pc' = "done" /\ ret' = dest /\ i' = i
    BY <1>6, <1>10 DEF Return
  <2>2. CopiesText'
    <3>1. Length(before, src) = LastSrc - src
      BY <1>1, <1>2, LegalCopy, SrcString
    <3>2. Length(before, src) + 1 = i + 1
      BY <1>2, <1>4, <1>10, <3>1
    <3>3. Length(before', src') = Length(before, src)
      BY <1>1, <1>3
    <3>4. mem'[dest + (i + 1)] = EOS
      <4>1. dest + (i + 1) \in Cells /\ dest + (i + 1) = ptr + 1
        BY <1>2, <1>4, <1>10 DEF Cells
      <4>. QED  BY <1>4, <1>7, <1>10, <4>1
    <3> DEFINE Shows(n) ==
                 /\ \A a \in Cells \ {dest + n} :
                      mem'[a] = IF a \in dest .. dest + n - 1 THEN before[src + a - dest] ELSE before[a]
                 /\ mem'[dest + n] = EOS
    <3>5. Shows(i + 1)
      <4>1. dest + (i + 1) = dest + i + 1
        BY <1>2
      <4>. QED  BY <1>9, <3>4, <4>1
    <3> HIDE DEF Shows
    <3>6. Shows(Length(before', src') + 1)
      BY <3>2, <3>3, <3>5, Zenon
    <3>7. LET n == Length(before', src') + 1
          IN  /\ \A a \in Cells \ {dest' + n} :
                   mem'[a] = IF a \in dest' .. dest' + n - 1 THEN before'[src' + a - dest'] ELSE before'[a]
              /\ mem'[dest' + n] = EOS
      BY <1>1, <1>3, <3>6, Zenon DEF Shows
    <3>8. call'.op = "copy"
      BY <1>1, <1>2
    <3>9. ~Done("ncopy")' /\ ~Done("cat")'
      BY <3>8 DEF Done
    <3>. QED  BY <3>7, <3>9, Zenon DEF CopiesText, Copied
  <2>3. TypeOK'
    <3>1. i' \in Nat /\ ret' \in Int /\ pc' \in {"loop", "done"} /\ ans' \in Cells \cup {NULL}
      BY <1>1, <1>2, <2>1
    <3>. QED  BY <1>1, <1>6, <1>7, <1>8, <3>1, TypeKept
  <2>. QED  BY <1>1, <1>2, <1>3, <2>1, <2>2, <2>3
            DEF StringsInv, LoopInv, In, Reads, StringLaws, Done, MovesBytes, FindsChar, ComparesStrings, ComparesMemory
<1>11. CASE src + i # LastSrc
  <2>1. pc' = pc /\ i' = i + 1 /\ ret' = ret
    BY <1>6, <1>11 DEF Again
  <2>2. CopyLoop'
    <3>1. src' + i' <= LastSrc' /\ ptr' = dest' + i' /\ i' # 0 /\ i' - 1 = i
      BY <1>2, <1>3, <1>4, <1>6, <1>11, <2>1
    <3>. QED  BY <1>1, <1>2, <1>3, <1>9, <2>1, <3>1 DEF CopyLoop, Copied
  <2>3. TypeOK'
    <3>1. i' \in Nat /\ ret' \in Int /\ pc' \in {"loop", "done"} /\ ans' \in Cells \cup {NULL}
      BY <1>1, <1>2, <2>1
    <3>. QED  BY <1>1, <1>6, <1>7, <1>8, <3>1, TypeKept
  <2>. QED  BY <1>1, <1>2, <1>3, <2>1, <2>2, <2>3
            DEF StringsInv, LoopInv, In, Reads, StringLaws, Done, CopiesText, MovesBytes, FindsChar, ComparesStrings, ComparesMemory
<1>. QED  BY <1>10, <1>11

-----------------------------------------------------------------------------
(* One more byte copied, from a byte that has not been overwritten.        *)
LEMMA CopyTurn ==
  ASSUME CallOK, TypeOK, NEW p \in Nat, NEW q \in Nat,
         p + i \in Cells, q + i \in Cells, q + i \notin p .. p + i - 1,
         Copied(p, q, i, {}), mem' = [mem EXCEPT ![p + i] = mem[q + i]]
  PROVE  /\ mem[q + i] = before[q + i]
         /\ mem' \in [Cells -> -128 .. 127]
         /\ \A a \in Cells :
              mem'[a] = IF a \in p .. p + (i + 1) - 1 THEN before[q + a - p] ELSE before[a]
<1>1. mem \in [Cells -> -128 .. 127] /\ i \in Nat /\ SIZE \in Nat
  BY StringsAssumption DEF TypeOK
<1>2. mem[q + i] = before[q + i]
  BY <1>1 DEF Copied
<1>3. mem' = [a \in Cells |-> IF a = p + i THEN before[q + i] ELSE mem[a]]
  BY <1>1, <1>2
<1>4. mem' \in [Cells -> -128 .. 127]
  BY <1>1, <1>2, <1>3
<1>5. ASSUME NEW a \in Cells
      PROVE  mem'[a] = IF a \in p .. p + (i + 1) - 1 THEN before[q + a - p] ELSE before[a]
  <2>1. CASE a = p + i
    <3>1. q + a - p = q + i /\ a \in p .. p + (i + 1) - 1
      BY <1>1, <2>1
    <3>. QED  BY <1>3, <2>1, <3>1
  <2>2. CASE a # p + i
    <3>1. mem[a] = IF a \in p .. p + i - 1 THEN before[q + a - p] ELSE before[a]
      BY DEF Copied
    <3>2. a \in p .. p + i - 1 <=> a \in p .. p + (i + 1) - 1
      BY <1>1, <2>2 DEF Cells
    <3>. QED  BY <1>3, <2>2, <3>1, <3>2
  <2>. QED  BY <2>1, <2>2
<1>. QED  BY <1>2, <1>4, <1>5

LEMMA LegalNCopy ==
  ASSUME CallOK, call.op = "ncopy"
  PROVE  /\ IsString(before, src) /\ dest + count > 0 /\ dest + count <= SIZE
         /\ Apart(dest, count, src, Length(before, src) + 1)
BY DEF CallOK, Legal, dest, src, count

(* string_ncopy: count runs out before the string, or the string is over.  *)
LEMMA StringNCopyInv ==
  ASSUME StringsInv, StringNCopy
  PROVE  StringsInv'
<1>1. CallOK /\ TypeOK /\ In("ncopy") /\ NCopyLoop /\ call' = call /\ before' = before /\ ans' = ans
  BY DEF StringsInv, LoopInv, StringLaws, StringNCopy, Return, Again
<1>2. /\ dest \in 0 .. SIZE - 1 /\ src \in 0 .. SIZE - 1 /\ SIZE \in Nat /\ count \in Nat /\ dest + count > 0
      /\ i \in Nat /\ ans \in Cells \cup {NULL} /\ ret \in Int /\ mem \in [Cells -> -128 .. 127]
      /\ pc = "loop" /\ call.op = "ncopy" /\ ptr \in 0 .. SIZE
  BY <1>1, CallFacts, LegalNCopy DEF TypeOK, In
<1>3. /\ CallOK' /\ dest' = dest /\ src' = src /\ count' = count /\ LastSrc' = LastSrc
      /\ Length(before', src') = Length(before, src)
  BY <1>1, CallKept
<1>4. /\ LastSrc \in src .. SIZE - 1 /\ src + i <= LastSrc /\ ptr = dest + i /\ i <= count
      /\ dest + count <= SIZE
      /\ dest + count <= src \/ LastSrc + 1 <= dest
      /\ before[src + i] = EOS <=> src + i = LastSrc
      /\ Length(before, src) = LastSrc - src
      /\ Copied(dest, src, i, {})
  BY <1>1, <1>2, LegalNCopy, SrcString, AtEnd DEF NCopyLoop, Apart
<1>5. CASE i < count
  <2>1. /\ mem[src + i] = before[src + i] /\ mem' \in [Cells -> -128 .. 127]
        /\ \A a \in Cells :
             mem'[a] = IF a \in dest .. dest + (i + 1) - 1 THEN before[src + a - dest] ELSE before[a]
    <3>1. dest \in Nat /\ src \in Nat /\ dest + i \in Cells /\ src + i \in Cells
          /\ src + i \notin dest .. dest + i - 1
      BY <1>2, <1>4, <1>5 DEF Cells
    <3>2. mem' = [mem EXCEPT ![dest + i] = mem[src + i]]
      BY <1>4, <1>5 DEF StringNCopy, Write
    <3>. QED  BY <1>1, <1>4, <3>1, <3>2, CopyTurn
  <2>2. ptr' = ptr + 1 /\ IF src + i = LastSrc THEN Return(dest) ELSE Again
    BY <1>4, <1>5, <2>1 DEF StringNCopy
  <2>3. TypeOK'
    <3>1. i' \in Nat /\ ret' \in Int /\ pc' \in {"loop", "done"} /\ ans' \in Cells \cup {NULL}
      BY <1>1, <1>2, <2>2 DEF Return, Again
    <3>2. ptr' \in 0 .. SIZE
      BY <1>2, <1>4, <1>5, <2>2
    <3>. QED  BY <1>1, <2>1, <3>1, <3>2, TypeKept
  <2>4. CASE src + i = LastSrc
    <3>1. pc' = "done"
      BY <2>2, <2>4 DEF Return
    <3>2. Length(before, src) + 1 = i + 1 /\ i + 1 <= count
      BY <1>2, <1>4, <1>5, <2>4
    <3>3. CopiesText'
      BY <1>1, <1>2, <1>3, <2>1, <3>2 DEF CopiesText, Done, Copied
    <3>. QED  BY <1>1, <1>2, <1>3, <2>3, <3>1, <3>3
              DEF StringsInv, LoopInv, In, Reads, StringLaws, Done, MovesBytes, FindsChar, ComparesStrings, ComparesMemory
  <2>5. CASE src + i # LastSrc
    <3>1. pc' = "loop" /\ i' = i + 1
      BY <1>2, <2>2, <2>5 DEF Again
    <3>2. NCopyLoop'
      <4>1. i' <= count /\ src + i' <= LastSrc /\ ptr' = dest + i'
        BY <1>2, <1>4, <1>5, <2>2, <2>5, <3>1
      <4>. QED  BY <1>1, <1>3, <2>1, <3>1, <4>1 DEF NCopyLoop, Copied
    <3>. QED  BY <1>1, <1>2, <1>3, <2>3, <3>1, <3>2
              DEF StringsInv, LoopInv, In, Reads, StringLaws, Done, CopiesText, MovesBytes, FindsChar, ComparesStrings, ComparesMemory
  <2>. QED  BY <2>4, <2>5
<1>6. CASE ~ (i < count)
  <2>1. i = count /\ dest + i - 1 = dest + count - 1 /\ dest + count - 1 \in Cells
    BY <1>2, <1>4, <1>6 DEF Cells
  <2>2. mem' = [mem EXCEPT ![dest + count - 1] = EOS] /\ Return(dest) /\ ptr' = ptr
    BY <1>6, <2>1 DEF StringNCopy, Write
  <2>3. mem' \in [Cells -> -128 .. 127] /\ mem'[dest + count - 1] = EOS
    BY <1>2, <2>1, <2>2 DEF EOS
  <2>4. TypeOK'
    <3>1. i' \in Nat /\ ret' \in Int /\ pc' \in {"loop", "done"} /\ ans' \in Cells \cup {NULL}
      BY <1>1, <1>2, <2>2 DEF Return
    <3>. QED  BY <1>1, <1>2, <2>2, <2>3, <3>1, TypeKept
  <2>5. ~ (Length(before, src) + 1 <= count)
    BY <1>2, <1>4, <2>1
  <2>6. ASSUME NEW a \in Cells, a # dest + count - 1
        PROVE  mem'[a] = IF a \in dest .. dest + (count - 1) - 1 THEN before[src + a - dest] ELSE before[a]
    <3>1. mem'[a] = mem[a]
      BY <1>2, <2>1, <2>2, <2>6
    <3>2. mem[a] = IF a \in dest .. dest + i - 1 THEN before[src + a - dest] ELSE before[a]
      BY <1>4 DEF Copied
    <3>3. a \in dest .. dest + i - 1 <=> a \in dest .. dest + (count - 1) - 1
      BY <1>2, <2>1, <2>6 DEF Cells
    <3>. QED  BY <3>1, <3>2, <3>3
  <2>7. CopiesText'
    BY <1>1, <1>2, <1>3, <2>3, <2>5, <2>6 DEF CopiesText, Done, Copied
  <2>. QED  BY <1>1, <1>2, <1>3, <2>2, <2>4, <2>7
            DEF Return, StringsInv, LoopInv, In, Reads, StringLaws, Done, MovesBytes, FindsChar, ComparesStrings, ComparesMemory
<1>. QED  BY <1>5, <1>6

-----------------------------------------------------------------------------
LEMMA LegalCat ==
  ASSUME CallOK, call.op = "cat"
  PROVE  /\ IsString(before, src) /\ IsString(before, dest)
         /\ LastDest + Length(before, src) < SIZE
         /\ Apart(dest, Length(before, dest) + Length(before, src) + 1, src, Length(before, src) + 1)
BY DEF CallOK, Legal, dest, src, LastDest

(* strint_cat looks for the end of dest ...                                *)
LEMMA CatSeekInv ==
  ASSUME StringsInv, CatSeek
  PROVE  StringsInv'
<1>1. /\ CallOK /\ TypeOK /\ call.op = "cat" /\ CatSeekLoop /\ pc = "seek"
      /\ call' = call /\ before' = before /\ ans' = ans /\ mem' = mem /\ i' = i /\ ret' = ret
  BY DEF StringsInv, LoopInv, StringLaws, CatSeek
<1>2. /\ dest \in 0 .. SIZE - 1 /\ src \in 0 .. SIZE - 1 /\ SIZE \in Nat
      /\ i = 0 /\ ptr \in dest .. LastDest /\ mem = before /\ ptr \in Int
  BY <1>1, CallFacts, LegalCat, DestString DEF CatSeekLoop
<1>3. /\ CallOK' /\ dest' = dest /\ src' = src /\ LastSrc' = LastSrc /\ LastDest' = LastDest
  BY <1>1, CallKept
<1>4. /\ LastSrc \in src .. SIZE - 1 /\ LastDest \in dest .. SIZE - 1 /\ before[LastDest] = EOS
      /\ \A a \in dest .. LastDest - 1 : before[a] # EOS
  BY <1>1, LegalCat, SrcString, DestString
<1>5. CASE mem[ptr] = EOS
  <2>1. pc' = "loop" /\ ptr' = ptr /\ ptr = LastDest
    <3>1. pc' = "loop" /\ ptr' = ptr
      BY <1>5 DEF CatSeek
    <3>2. ~ (ptr \in dest .. LastDest - 1)
      BY <1>2, <1>4, <1>5
    <3>. QED  BY <1>2, <1>4, <3>1, <3>2
  <2>2. CatLoop'
    <3>1. \A a \in Cells : mem[a] = IF a \in LastDest .. LastDest + 0 - 1
                                    THEN before[src + a - LastDest] ELSE before[a]
      BY <1>2, <1>4
    <3>. QED  BY <1>1, <1>2, <1>3, <1>4, <2>1, <3>1 DEF CatLoop, Copied
  <2>3. TypeOK'
    BY <1>1, <2>1 DEF TypeOK
  <2>. QED  BY <1>1, <1>2, <1>3, <2>1, <2>2, <2>3 
          DEF StringsInv, LoopInv, In, Reads, StringLaws, Done, CopiesText, MovesBytes, FindsChar, ComparesStrings, ComparesMemory
<1>6. CASE mem[ptr] # EOS
  <2>1. pc' = "seek" /\ ptr' = ptr + 1
    BY <1>1, <1>6 DEF CatSeek
  <2>2. ptr # LastDest
    BY <1>2, <1>4, <1>6
  <2>3. ptr' \in dest .. LastDest /\ ptr' \in 0 .. SIZE
    BY <1>2, <1>4, <2>1, <2>2
  <2>4. CatSeekLoop'
    BY <1>1, <1>2, <1>3, <2>3 DEF CatSeekLoop
  <2>5. TypeOK'
    BY <1>1, <2>1, <2>3 DEF TypeOK
  <2>. QED  BY <1>1, <1>2, <1>3, <2>1, <2>4, <2>5 
          DEF StringsInv, LoopInv, In, Reads, StringLaws, Done, CopiesText, MovesBytes, FindsChar, ComparesStrings, ComparesMemory
<1>. QED  BY <1>5, <1>6

(* ... and copies src from there.                                          *)
LEMMA CatInv ==
  ASSUME StringsInv, Cat
  PROVE  StringsInv'
<1>1. CallOK /\ TypeOK /\ In("cat") /\ CatLoop /\ call' = call /\ before' = before /\ ans' = ans
  BY DEF StringsInv, LoopInv, StringLaws, Cat, Return, Again
<1>2. /\ dest \in 0 .. SIZE - 1 /\ src \in 0 .. SIZE - 1 /\ SIZE \in Nat
      /\ i \in Nat /\ ans \in Cells \cup {NULL} /\ ret \in Int /\ mem \in [Cells -> -128 .. 127]
      /\ pc = "loop" /\ call.op = "cat" /\ ptr \in 0 .. SIZE
  BY <1>1, CallFacts DEF TypeOK, In
<1>3. /\ CallOK' /\ dest' = dest /\ src' = src /\ LastSrc' = LastSrc /\ LastDest' = LastDest
      /\ Length(before', src') = Length(before, src)
  BY <1>1, CallKept
<1>4. /\ LastSrc \in src .. SIZE - 1 /\ src + i <= LastSrc /\ ptr = LastDest + i
      /\ LastDest \in dest .. SIZE - 1
      /\ Length(before, src) = LastSrc - src /\ Length(before, dest) = LastDest - dest
      /\ LastDest + (LastSrc - src) < SIZE
      /\ before[src + i] = EOS <=> src + i = LastSrc
      /\ Copied(LastDest, src, i, {})
  BY <1>1, <1>2, LegalCat, SrcString, DestString, AtEnd DEF CatLoop
<1>5. LastDest + (LastSrc - src) + 1 <= src \/ LastSrc + 1 <= dest
  <2>1. Apart(dest, (LastDest - dest) + (LastSrc - src) + 1, src, (LastSrc - src) + 1)
    BY <1>1, <1>2, <1>4, LegalCat
  <2>. QED  BY <1>2, <1>4, <2>1 DEF Apart
<1>6. /\ mem[src + i] = before[src + i] /\ mem' \in [Cells -> -128 .. 127]
      /\ \A a \in Cells : mem'[a] = IF a \in LastDest .. LastDest + (i + 1) - 1
                                    THEN before[src + a - LastDest] ELSE before[a]
  <2>1. LastDest \in Nat /\ src \in Nat /\ LastDest + i \in Cells /\ src + i \in Cells
        /\ src + i \notin LastDest .. LastDest + i - 1
    BY <1>2, <1>4, <1>5 DEF Cells
  <2>2. mem' = [mem EXCEPT ![LastDest + i] = mem[src + i]]
    BY <1>4 DEF Cat, Write
  <2>. QED  BY <1>1, <1>4, <2>1, <2>2, CopyTurn
<1>7. ptr' = ptr + 1 /\ IF src + i = LastSrc THEN Return(dest) ELSE Again
  BY <1>4, <1>6 DEF Cat
<1>8. TypeOK'
  <2>1. i' \in Nat /\ ret' \in Int /\ pc' \in {"loop", "done"} /\ ans' \in Cells \cup {NULL}
    BY <1>1, <1>2, <1>7 DEF Return, Again
  <2>2. ptr' \in 0 .. SIZE
    BY <1>2, <1>4, <1>7
  <2>. QED  BY <1>1, <1>6, <2>1, <2>2, TypeKept
<1>9. CASE src + i = LastSrc
  <2>1. pc' = "done"
    BY <1>7, <1>9 DEF Return
  <2>2. Length(before, src) + 1 = i + 1
    BY <1>2, <1>4, <1>9
  <2>3. EndOf(before', dest') = LastDest
    BY <1>1, <1>3 DEF LastDest
  <2>4. CopiesText'
    BY <1>1, <1>2, <1>3, <1>6, <2>2, <2>3 DEF CopiesText, Done, Copied
  <2>. QED  BY <1>1, <1>2, <1>3, <1>8, <2>1, <2>4
            DEF StringsInv, LoopInv, In, Reads, StringLaws, Done, MovesBytes, FindsChar, ComparesStrings, ComparesMemory
<1>10. CASE src + i # LastSrc
  <2>1. pc' = "loop" /\ i' = i + 1
    BY <1>2, <1>7, <1>10 DEF Again
  <2>2. CatLoop'
    <3>1. src + i' <= LastSrc /\ ptr' = LastDest + i'
      BY <1>2, <1>4, <1>7, <1>10, <2>1
    <3>. QED  BY <1>1, <1>3, <1>6, <2>1, <3>1 DEF CatLoop, Copied
  <2>. QED  BY <1>1, <1>2, <1>3, <1>8, <2>1, <2>2 
          DEF StringsInv, LoopInv, In, Reads, StringLaws, Done, CopiesText, MovesBytes, FindsChar, ComparesStrings, ComparesMemory
<1>. QED  BY <1>9, <1>10

-----------------------------------------------------------------------------
LEMMA LegalMemory ==
  ASSUME CallOK
  PROVE  /\ call.op \in {"mset", "mcopy"} => dest + count <= SIZE
         /\ call.op \in {"mcopy", "mfind"} => src + count <= SIZE
         /\ call.op = "mcopy" => dest <= src \/ Apart(dest, count, src, count)
BY DEF CallOK, Legal, dest, src, count

(* memory_copy reads each byte before it is overwritten.                   *)
LEMMA MemoryCopyInv ==
  ASSUME StringsInv, MemoryCopy
  PROVE  StringsInv'
<1>1. /\ CallOK /\ TypeOK /\ In("mcopy") /\ MemoryCopyLoop /\ call' = call /\ before' = before
      /\ ans' = ans
  BY DEF StringsInv, LoopInv, StringLaws, MemoryCopy, Return, Again
<1>2. /\ dest \in 0 .. SIZE - 1 /\ src \in 0 .. SIZE - 1 /\ SIZE \in Nat /\ count \in Nat
      /\ i \in Nat /\ ans \in Cells \cup {NULL} /\ ret \in Int /\ mem \in [Cells -> -128 .. 127]
      /\ pc = "loop" /\ call.op = "mcopy" /\ ptr \in 0 .. SIZE
  BY <1>1, CallFacts DEF TypeOK, In
<1>3. /\ CallOK' /\ dest' = dest /\ src' = src /\ count' = count
  BY <1>1, CallKept
<1>4. /\ ptr = dest + i /\ i <= count /\ dest + count <= SIZE /\ src + count <= SIZE
      /\ dest <= src \/ dest + count <= src \/ src + count <= dest
      /\ Copied(dest, src, i, {})
  BY <1>1, <1>2, LegalMemory DEF MemoryCopyLoop, Apart
<1>5. CASE i < count
  <2>1. /\ mem' \in [Cells -> -128 .. 127]
        /\ \A a \in Cells :
             mem'[a] = IF a \in dest .. dest + (i + 1) - 1 THEN before[src + a - dest] ELSE before[a]
    <3>1. dest \in Nat /\ src \in Nat /\ dest + i \in Cells /\ src + i \in Cells
          /\ src + i \notin dest .. dest + i - 1
      BY <1>2, <1>4, <1>5 DEF Cells
    <3>2. mem' = [mem EXCEPT ![dest + i] = mem[src + i]]
      BY <1>4, <1>5 DEF MemoryCopy, Write
    <3>. QED  BY <1>1, <1>4, <3>1, <3>2, CopyTurn
  <2>2. ptr' = ptr + 1 /\ pc' = "loop" /\ i' = i + 1 /\ ret' = ret
    BY <1>2, <1>5 DEF MemoryCopy, Again
  <2>3. TypeOK'
    <3>1. ptr' \in 0 .. SIZE /\ i' \in Nat
      BY <1>2, <1>4, <1>5, <2>2
    <3>. QED  BY <1>1, <1>2, <2>1, <2>2, <3>1, TypeKept
  <2>4. MemoryCopyLoop'
    <3>1. i' <= count /\ ptr' = dest + i'
      BY <1>2, <1>4, <1>5, <2>2
    <3>. QED  BY <1>1, <1>3, <2>1, <2>2, <3>1 DEF MemoryCopyLoop, Copied
  <2>. QED  BY <1>1, <1>2, <1>3, <2>2, <2>3, <2>4 
          DEF StringsInv, LoopInv, In, Reads, StringLaws, Done, CopiesText, MovesBytes, FindsChar, ComparesStrings, ComparesMemory
<1>6. CASE ~ (i < count)
  <2>1. i = count /\ pc' = "done" /\ ret' = dest /\ UNCHANGED <<mem, ptr, i>>
    BY <1>2, <1>4, <1>6 DEF MemoryCopy, Return
  <2>2. TypeOK'
    BY <1>1, <1>2, <2>1, TypeKept
  <2>3. MovesBytes'
    BY <1>1, <1>2, <1>3, <1>4, <2>1 DEF MovesBytes, Done, Copied
  <2>. QED  BY <1>1, <1>2, <1>3, <2>1, <2>2, <2>3
            DEF StringsInv, LoopInv, In, Reads, StringLaws, Done, CopiesText, FindsChar, ComparesStrings, ComparesMemory
<1>. QED  BY <1>5, <1>6

LEMMA AsCharType ==
  ASSUME NEW c \in Int
  PROVE  AsChar(c) \in -128 .. 127
BY DEF AsChar

LEMMA MemorySetInv ==
  ASSUME StringsInv, MemorySet
  PROVE  StringsInv'
<1>1. /\ CallOK /\ TypeOK /\ In("mset") /\ SetLoop /\ call' = call /\ before' = before
      /\ ans' = ans
  BY DEF StringsInv, LoopInv, StringLaws, MemorySet, Return, Again
<1>2. /\ dest \in 0 .. SIZE - 1 /\ src \in 0 .. SIZE - 1 /\ SIZE \in Nat /\ count \in Nat
      /\ i \in Nat /\ ans \in Cells \cup {NULL} /\ ret \in Int /\ mem \in [Cells -> -128 .. 127]
      /\ pc = "loop" /\ call.op = "mset" /\ ptr \in 0 .. SIZE /\ AsChar(call.ch) \in -128 .. 127
  BY <1>1, CallFacts, AsCharType DEF TypeOK, In
<1>3. /\ CallOK' /\ dest' = dest /\ src' = src /\ count' = count
  BY <1>1, CallKept
<1>4. /\ ptr = dest + i /\ i <= count /\ dest + count <= SIZE
      /\ \A a \in Cells :
           mem[a] = IF a \in dest .. dest + i - 1 THEN AsChar(call.ch) ELSE before[a]
  BY <1>1, <1>2, LegalMemory DEF SetLoop
<1>5. CASE i < count
  <2>1. PICK c : c = AsChar(call.ch)
    OBVIOUS
  <2>2. /\ ptr' = ptr + 1 /\ pc' = "loop" /\ i' = i + 1 /\ ret' = ret
        /\ mem' = [mem EXCEPT ![dest + i] = c]
    BY <1>2, <1>4, <1>5, <2>1 DEF MemorySet, Again, Write
  <2>3. dest + i \in Cells /\ c \in -128 .. 127
    BY <1>2, <1>4, <1>5, <2>1 DEF Cells
  <2>4. mem' \in [Cells -> -128 .. 127]
    BY <1>2, <2>2, <2>3
  <2>5. ASSUME NEW a \in Cells
        PROVE  mem'[a] = IF a \in dest .. dest + (i + 1) - 1 THEN AsChar(call.ch) ELSE before[a]
    <3>1. mem'[a] = IF a = dest + i THEN c ELSE mem[a]
      BY <1>2, <2>2, <2>3
    <3>2. a \in dest .. dest + (i + 1) - 1 <=> a = dest + i \/ a \in dest .. dest + i - 1
      BY <1>2 DEF Cells
    <3>. QED  BY <1>4, <2>1, <3>1, <3>2
  <2>6. TypeOK'
    <3>1. ptr' \in 0 .. SIZE /\ i' \in Nat
      BY <1>2, <1>4, <1>5, <2>2
    <3>. QED  BY <1>1, <1>2, <2>2, <2>4, <3>1, TypeKept
  <2>7. SetLoop'
    <3>1. i' <= count /\ ptr' = dest + i'
      BY <1>2, <1>4, <1>5, <2>2
    <3>. QED  BY <1>1, <1>3, <2>2, <2>5, <3>1 DEF SetLoop
  <2>. QED  BY <1>1, <1>2, <1>3, <2>2, <2>6, <2>7 
          DEF StringsInv, LoopInv, In, Reads, StringLaws, Done, CopiesText, MovesBytes, FindsChar, ComparesStrings, ComparesMemory
<1>6. CASE ~ (i < count)
  <2>1. i = count /\ pc' = "done" /\ ret' = dest /\ UNCHANGED <<mem, ptr, i>>
    BY <1>2, <1>4, <1>6 DEF MemorySet, Return
  <2>2. TypeOK'
    BY <1>1, <1>2, <2>1, TypeKept
  <2>3. MovesBytes'
    BY <1>1, <1>2, <1>3, <1>4, <2>1 DEF MovesBytes, Done
  <2>. QED  BY <1>1, <1>2, <1>3, <2>1, <2>2, <2>3
            DEF StringsInv, LoopInv, In, Reads, StringLaws, Done, CopiesText, FindsChar, ComparesStrings, ComparesMemory
<1>. QED  BY <1>5, <1>6

-----------------------------------------------------------------------------
LEMMA LegalRead ==
  ASSUME CallOK
  PROVE  /\ call.op \in {"compare", "first", "last", "len"} => IsString(before, src)
         /\ call.op = "compare" => IsString(before, dest)
BY DEF CallOK, Legal, dest, src

(* Where the code finds ch, which it compares unconverted.                 *)
Matches == {a \in src .. LastSrc : mem[a] = call.ch}

(* The unconverted comparison finds the value of a char, and nothing else. *)
LEMMA Unconverted ==
  ASSUME NEW a \in -128 .. 127, NEW ch \in Int
  PROVE  a = ch <=> AsChar(ch) = ch /\ a = AsChar(ch)
BY DEF AsChar

LEMMA UnconvertedHere ==
  ASSUME CallOK, TypeOK, NEW a \in Cells
  PROVE  mem[a] = call.ch <=> AsChar(call.ch) = call.ch /\ mem[a] = AsChar(call.ch)
<1>1. mem[a] \in -128 .. 127 /\ call.ch \in Int
  BY CallFacts DEF TypeOK
<1>. QED  BY <1>1, Unconverted

(* What the laws call the string is the bytes up to its terminator.        *)
LEMMA OccursHere ==
  ASSUME CallOK, TypeOK, mem = before, LastSrc \in src .. SIZE - 1
  PROVE  Matches = IF AsChar(call.ch) # call.ch THEN {} ELSE Occurs(mem, src, AsChar(call.ch))
<1>1. src .. LastSrc \subseteq Cells
  BY CallFacts DEF Cells
<1>2. Occurs(mem, src, AsChar(call.ch)) = {a \in src .. LastSrc : mem[a] = AsChar(call.ch)}
  BY DEF Occurs, LastSrc
<1>. QED  BY <1>1, <1>2, UnconvertedHere DEF Matches

LEMMA StringLenInv ==
  ASSUME StringsInv, StringLen
  PROVE  StringsInv'
<1>1. /\ CallOK /\ TypeOK /\ In("len") /\ call' = call /\ before' = before /\ ans' = ans
      /\ mem' = mem /\ ptr' = ptr /\ mem = before /\ ptr = dest /\ LenLoop
  BY DEF StringsInv, LoopInv, StringLaws, StringLen, Return, Again, Reads, In
<1>2. /\ dest \in 0 .. SIZE - 1 /\ src \in 0 .. SIZE - 1 /\ SIZE \in Nat /\ count \in Nat
      /\ i \in Nat /\ ans \in Cells \cup {NULL} /\ ret \in Int /\ mem \in [Cells -> -128 .. 127]
      /\ pc = "loop" /\ call.op = "len" /\ ptr \in 0 .. SIZE /\ call.ch \in Int
  BY <1>1, CallFacts DEF TypeOK, In
<1>3. /\ CallOK' /\ dest' = dest /\ src' = src /\ count' = count
      /\ LastSrc' = LastSrc /\ LastDest' = LastDest
  BY <1>1, CallKept
<1>4. /\ LastSrc \in src .. SIZE - 1 /\ src + i <= LastSrc
      /\ before[src + i] = EOS <=> src + i = LastSrc
  BY <1>1, <1>2, LegalRead, SrcString, AtEnd DEF LenLoop
<1>5. CASE src + i = LastSrc
  <2>1. pc' = "done" /\ ret' = i /\ i' = i
    BY <1>1, <1>4, <1>5 DEF StringLen, Return
  <2>2. TypeOK'
    BY <1>1, <1>2, <2>1, TypeKept
  <2>3. ret' = Length(mem', src')
    BY <1>1, <1>2, <1>3, <1>4, <1>5, <2>1 DEF Length, LastSrc
  <2>4. FindsChar'
    BY <1>1, <1>2, <2>1, <2>3 DEF FindsChar, Done
  <2>. QED  BY <1>1, <1>2, <1>3, <2>1, <2>2, <2>4
            DEF StringsInv, LoopInv, In, Reads, StringLaws, Done, CopiesText, MovesBytes, ComparesStrings, ComparesMemory
<1>6. CASE src + i # LastSrc
  <2>1. pc' = "loop" /\ i' = i + 1 /\ ret' = ret
    BY <1>1, <1>2, <1>4, <1>6 DEF StringLen, Again
  <2>2. TypeOK'
    BY <1>1, <1>2, <2>1, TypeKept
  <2>3. LenLoop'
    BY <1>2, <1>3, <1>4, <1>6, <2>1 DEF LenLoop
  <2>. QED  BY <1>1, <1>2, <1>3, <2>1, <2>2, <2>3
            DEF StringsInv, LoopInv, In, Reads, StringLaws, Done, CopiesText, MovesBytes, FindsChar, ComparesStrings, ComparesMemory
<1>. QED  BY <1>5, <1>6

LEMMA FindFirstInv ==
  ASSUME StringsInv, FindFirst
  PROVE  StringsInv'
<1>1. /\ CallOK /\ TypeOK /\ In("first") /\ call' = call /\ before' = before /\ ans' = ans
      /\ mem' = mem /\ ptr' = ptr /\ mem = before /\ ptr = dest /\ FirstLoop
  BY DEF StringsInv, LoopInv, StringLaws, FindFirst, Return, Again, Reads, In
<1>2. /\ dest \in 0 .. SIZE - 1 /\ src \in 0 .. SIZE - 1 /\ SIZE \in Nat /\ count \in Nat
      /\ i \in Nat /\ ans \in Cells \cup {NULL} /\ ret \in Int /\ mem \in [Cells -> -128 .. 127]
      /\ pc = "loop" /\ call.op = "first" /\ ptr \in 0 .. SIZE /\ call.ch \in Int
  BY <1>1, CallFacts DEF TypeOK, In
<1>3. /\ CallOK' /\ dest' = dest /\ src' = src /\ count' = count
      /\ LastSrc' = LastSrc /\ LastDest' = LastDest
  BY <1>1, CallKept
<1>4. /\ LastSrc \in src .. SIZE - 1 /\ src + i <= LastSrc
      /\ before[src + i] = EOS <=> src + i = LastSrc
      /\ \A a \in src .. src + i - 1 : mem[a] # call.ch
  BY <1>1, <1>2, LegalRead, SrcString, AtEnd DEF FirstLoop
<1>5. /\ Matches = IF AsChar(call.ch) # call.ch THEN {} ELSE Occurs(mem, src, AsChar(call.ch))
      /\ Occurs(mem', src', AsChar(call'.ch)) = Occurs(mem, src, AsChar(call.ch))
  BY <1>1, <1>3, <1>4, OccursHere
<1>6. CASE mem[src + i] = call.ch
  <2>1. pc' = "done" /\ ret' = src + i /\ i' = i
    BY <1>6 DEF FindFirst, Return
  <2>2. TypeOK'
    BY <1>1, <1>2, <2>1, TypeKept
  <2>3. /\ ret' \in Matches
        /\ \A a \in Matches : ret' <= a
    BY <1>2, <1>4, <1>6, <2>1 DEF Matches
  <2>4. FindsChar'
    BY <1>1, <1>2, <1>5, <2>1, <2>3 DEF FindsChar, Done
  <2>. QED  BY <1>1, <1>2, <1>3, <2>1, <2>2, <2>4
            DEF StringsInv, LoopInv, In, Reads, StringLaws, Done, CopiesText, MovesBytes, ComparesStrings, ComparesMemory
<1>7. CASE mem[src + i] # call.ch /\ src + i = LastSrc
  <2>1. pc' = "done" /\ ret' = NULL /\ i' = i
    BY <1>1, <1>4, <1>7 DEF FindFirst, Return
  <2>2. TypeOK'
    BY <1>1, <1>2, <2>1, TypeKept DEF NULL
  <2>3. Matches = {}
    BY <1>2, <1>4, <1>7 DEF Matches
  <2>4. FindsChar'
    BY <1>1, <1>2, <1>5, <2>1, <2>3 DEF FindsChar, Done
  <2>. QED  BY <1>1, <1>2, <1>3, <2>1, <2>2, <2>4
            DEF StringsInv, LoopInv, In, Reads, StringLaws, Done, CopiesText, MovesBytes, ComparesStrings, ComparesMemory
<1>8. CASE mem[src + i] # call.ch /\ src + i # LastSrc
  <2>1. pc' = "loop" /\ i' = i + 1 /\ ret' = ret
    BY <1>1, <1>2, <1>4, <1>8 DEF FindFirst, Again
  <2>2. TypeOK'
    BY <1>1, <1>2, <2>1, TypeKept
  <2>3. FirstLoop'
    <3>1. src + i' <= LastSrc
      BY <1>2, <1>4, <1>8, <2>1
    <3>2. \A a \in src .. src + i' - 1 : mem[a] # call.ch
      BY <1>2, <1>4, <1>8, <2>1
    <3>. QED  BY <1>1, <1>3, <3>1, <3>2 DEF FirstLoop
  <2>. QED  BY <1>1, <1>2, <1>3, <2>1, <2>2, <2>3
            DEF StringsInv, LoopInv, In, Reads, StringLaws, Done, CopiesText, MovesBytes, FindsChar, ComparesStrings, ComparesMemory
<1>. QED  BY <1>6, <1>7, <1>8

LEMMA FindLastInv ==
  ASSUME StringsInv, FindLast
  PROVE  StringsInv'
<1>1. /\ CallOK /\ TypeOK /\ In("last") /\ call' = call /\ before' = before 
      /\ mem' = mem /\ ptr' = ptr /\ mem = before /\ ptr = dest /\ LastLoop
  BY DEF StringsInv, LoopInv, StringLaws, FindLast, Return, Again, Reads, In
<1>2. /\ dest \in 0 .. SIZE - 1 /\ src \in 0 .. SIZE - 1 /\ SIZE \in Nat /\ count \in Nat
      /\ i \in Nat /\ ans \in Cells \cup {NULL} /\ ret \in Int /\ mem \in [Cells -> -128 .. 127]
      /\ pc = "loop" /\ call.op = "last" /\ ptr \in 0 .. SIZE /\ call.ch \in Int
  BY <1>1, CallFacts DEF TypeOK, In
<1>3. /\ CallOK' /\ dest' = dest /\ src' = src /\ count' = count
      /\ LastSrc' = LastSrc /\ LastDest' = LastDest
  BY <1>1, CallKept
<1>4. /\ LastSrc \in src .. SIZE - 1 /\ src + i <= LastSrc
      /\ before[src + i] = EOS <=> src + i = LastSrc
      /\ IF ans = NULL THEN \A a \in src .. src + i - 1 : mem[a] # call.ch
         ELSE /\ ans \in src .. src + i - 1 /\ mem[ans] = call.ch
              /\ \A a \in ans + 1 .. src + i - 1 : mem[a] # call.ch
  BY <1>1, <1>2, LegalRead, SrcString, AtEnd DEF LastLoop
<1>5. /\ Matches = IF AsChar(call.ch) # call.ch THEN {} ELSE Occurs(mem, src, AsChar(call.ch))
      /\ Occurs(mem', src', AsChar(call'.ch)) = Occurs(mem, src, AsChar(call.ch))
  BY <1>1, <1>3, <1>4, OccursHere
<1>6. /\ ans' = IF mem[src + i] = call.ch THEN src + i ELSE ans
      /\ ans' \in Cells \cup {NULL}
  BY <1>2, <1>4 DEF FindLast, Cells
<1>7. IF ans' = NULL THEN \A a \in src .. src + i : mem[a] # call.ch
      ELSE /\ ans' \in src .. src + i /\ mem[ans'] = call.ch
           /\ \A a \in ans' + 1 .. src + i : mem[a] # call.ch
  BY <1>2, <1>4, <1>6 DEF NULL
<1>8. CASE src + i = LastSrc
  <2>1. pc' = "done" /\ ret' = ans' /\ i' = i
    BY <1>1, <1>4, <1>8 DEF FindLast
  <2>2. TypeOK'
    <3>1. ret' \in Int
      BY <1>6, <2>1, <1>2 DEF Cells, NULL
    <3>. QED  BY <1>1, <1>2, <1>6, <2>1, <3>1, TypeKept
  <2>3. IF Matches = {} THEN ret' = NULL
        ELSE /\ ret' \in Matches
             /\ \A a \in Matches : a <= ret'
    <3>1. CASE ans' = NULL
      <4>1. Matches = {}
        BY <1>7, <1>8, <3>1 DEF Matches
      <4>. QED  BY <2>1, <3>1, <4>1
    <3>2. CASE ans' # NULL
      BY <1>2, <1>7, <1>8, <2>1, <3>2 DEF Matches
    <3>. QED  BY <3>1, <3>2
  <2>4. FindsChar'
    BY <1>1, <1>2, <1>5, <2>1, <2>3 DEF FindsChar, Done
  <2>. QED  BY <1>1, <1>2, <1>3, <2>1, <2>2, <2>4
            DEF StringsInv, LoopInv, In, Reads, StringLaws, Done, CopiesText, MovesBytes, ComparesStrings, ComparesMemory
<1>9. CASE src + i # LastSrc
  <2>1. pc' = "loop" /\ i' = i + 1 /\ ret' = ret
    BY <1>1, <1>2, <1>4, <1>9 DEF FindLast
  <2>2. TypeOK'
    BY <1>1, <1>2, <1>6, <2>1, TypeKept
  <2>3. LastLoop'
    <3>1. src + i' <= LastSrc /\ src + i' - 1 = src + i
      BY <1>2, <1>4, <1>9, <2>1
    <3>. QED  BY <1>1, <1>3, <1>7, <3>1 DEF LastLoop
  <2>. QED  BY <1>1, <1>2, <1>3, <2>1, <2>2, <2>3
            DEF StringsInv, LoopInv, In, Reads, StringLaws, Done, CopiesText, MovesBytes, FindsChar, ComparesStrings, ComparesMemory
<1>. QED  BY <1>8, <1>9

LEMMA MemoryFindInv ==
  ASSUME StringsInv, MemoryFind
  PROVE  StringsInv'
<1>1. /\ CallOK /\ TypeOK /\ In("mfind") /\ call' = call /\ before' = before /\ ans' = ans
      /\ mem' = mem /\ ptr' = ptr /\ mem = before /\ ptr = dest /\ MemoryFindLoop
  BY DEF StringsInv, LoopInv, StringLaws, MemoryFind, Return, Again, Reads, In
<1>2. /\ dest \in 0 .. SIZE - 1 /\ src \in 0 .. SIZE - 1 /\ SIZE \in Nat /\ count \in Nat
      /\ i \in Nat /\ ans \in Cells \cup {NULL} /\ ret \in Int /\ mem \in [Cells -> -128 .. 127]
      /\ pc = "loop" /\ call.op = "mfind" /\ ptr \in 0 .. SIZE /\ call.ch \in Int
  BY <1>1, CallFacts DEF TypeOK, In
<1>3. /\ CallOK' /\ dest' = dest /\ src' = src /\ count' = count
      /\ LastSrc' = LastSrc /\ LastDest' = LastDest
  BY <1>1, CallKept
<1>4. /\ i <= count /\ src + count <= SIZE
      /\ \A a \in src .. src + i - 1 : mem[a] # call.ch /\ mem[a] # EOS
  BY <1>1, <1>2, LegalMemory DEF MemoryFindLoop
<1>. DEFINE S == {a \in src .. src + count - 1 : mem[a] = AsChar(call.ch)}
<1>5. /\ \A a \in src .. src + count - 1 : a \in Cells
      /\ \A a \in S : AsChar(call.ch) = call.ch => mem[a] = call.ch
  BY <1>2, <1>4 DEF Cells
<1>6. CASE i = count
  <2>1. PICK r \in Cells \cup {NULL} : Return(r)
    BY <1>6 DEF MemoryFind
  <2>2. pc' = "done" /\ ret' = r /\ i' = i /\ r \in Int
    BY <1>2, <2>1 DEF Return, Cells, NULL
  <2>3. TypeOK'
    BY <1>1, <1>2, <2>2, TypeKept
  <2>4. AsChar(call.ch) = call.ch => S = {}
    BY <1>4, <1>5, <1>6
  <2>5. ~ \E a \in src .. src + count - 1 : mem[a] = EOS
    BY <1>4, <1>6
  <2>6. FindsChar'
    BY <1>1, <1>2, <1>3, <2>2, <2>4, <2>5 DEF FindsChar, Done
  <2>. QED  BY <1>1, <1>2, <1>3, <2>2, <2>3, <2>6
            DEF StringsInv, LoopInv, In, Reads, StringLaws, Done, CopiesText, MovesBytes, ComparesStrings, ComparesMemory
<1>7. CASE i # count /\ mem[src + i] = call.ch
  <2>1. pc' = "done" /\ ret' = src + i /\ i' = i
    BY <1>7 DEF MemoryFind, Return
  <2>2. TypeOK'
    BY <1>1, <1>2, <2>1, TypeKept
  <2>3. AsChar(call.ch) = call.ch /\ src + i \in S
    BY <1>1, <1>2, <1>4, <1>5, <1>7, UnconvertedHere
  <2>4. \A a \in S : src + i <= a
    BY <1>2, <1>4, <1>5, <2>3
  <2>5. \A b \in src .. (src + i) - 1 : mem[b] # EOS
    BY <1>2, <1>4
  <2>6. FindsChar'
    BY <1>1, <1>2, <1>3, <2>1, <2>3, <2>4, <2>5 DEF FindsChar, Done
  <2>. QED  BY <1>1, <1>2, <1>3, <2>1, <2>2, <2>6
            DEF StringsInv, LoopInv, In, Reads, StringLaws, Done, CopiesText, MovesBytes, ComparesStrings, ComparesMemory
<1>9. CASE i # count /\ mem[src + i] # call.ch /\ mem[src + i] = EOS
  <2>1. pc' = "done" /\ ret' = NULL /\ i' = i
    BY <1>9 DEF MemoryFind, Return
  <2>2. TypeOK'
    BY <1>1, <1>2, <2>1, TypeKept DEF NULL
  <2>3. ASSUME AsChar(call.ch) = call.ch, NEW a \in S, \A b \in src .. a - 1 : mem[b] # EOS
        PROVE  FALSE
    <3>1. a \in Int /\ src <= a /\ a # src + i /\ ~ (a < src + i)
      BY <1>2, <1>4, <1>5, <1>9, <2>3
    <3>2. src + i \in src .. a - 1
      BY <1>2, <3>1
    <3>. QED  BY <1>9, <2>3, <3>2
  <2>4. FindsChar'
    BY <1>1, <1>2, <1>3, <2>1, <2>3 DEF FindsChar, Done
  <2>. QED  BY <1>1, <1>2, <1>3, <2>1, <2>2, <2>4
            DEF StringsInv, LoopInv, In, Reads, StringLaws, Done, CopiesText, MovesBytes, ComparesStrings, ComparesMemory
<1>8. CASE i # count /\ mem[src + i] # call.ch /\ mem[src + i] # EOS
  <2>1. pc' = "loop" /\ i' = i + 1 /\ ret' = ret
    BY <1>2, <1>8 DEF MemoryFind, Again
  <2>2. TypeOK'
    BY <1>1, <1>2, <2>1, TypeKept
  <2>3. MemoryFindLoop'
    <3>1. i' <= count
      BY <1>2, <1>4, <1>8, <2>1
    <3>2. \A a \in src .. src + i' - 1 : mem[a] # call.ch /\ mem[a] # EOS
      BY <1>2, <1>4, <1>8, <2>1
    <3>. QED  BY <1>1, <1>3, <3>1, <3>2 DEF MemoryFindLoop
  <2>. QED  BY <1>1, <1>2, <1>3, <2>1, <2>2, <2>3
            DEF StringsInv, LoopInv, In, Reads, StringLaws, Done, CopiesText, MovesBytes, FindsChar, ComparesStrings, ComparesMemory
<1>. QED  BY <1>6, <1>7, <1>8, <1>9

(* Lexicographic of a memory m.                                            *)
LexicographicIn(m, p, q, n) ==
  LET D == {l \in 0 .. n - 1 : m[p + l] # m[q + l]}
      l == CHOOSE l \in D : \A j \in D : l <= j
  IN  IF D = {} THEN 0 ELSE Order(m[p + l], m[q + l])

LEMMA ComparesNow ==
  ComparesStrings <=>
    (Done("compare") =>
      LET a == Length(mem, dest) + 1
          b == Length(mem, src) + 1
      IN  ret = LexicographicIn(mem, dest, src, IF a < b THEN a ELSE b))
BY Zenon DEF ComparesStrings, Lexicographic, LexicographicIn

LEMMA ComparesThen ==
  ComparesStrings' <=>
    (Done("compare")' =>
      LET a == Length(mem', dest') + 1
          b == Length(mem', src') + 1
      IN  ret' = LexicographicIn(mem', dest', src', IF a < b THEN a ELSE b))
BY Zenon DEF ComparesStrings, Lexicographic, LexicographicIn

(* The first difference, or the common end, decides.                       *)
LEMMA FirstDifference ==
  ASSUME NEW m, NEW p \in Nat, NEW q \in Nat, NEW n \in Nat, NEW l \in 0 .. n - 1,
         \A j \in 0 .. l - 1 : m[p + j] = m[q + j], m[p + l] # m[q + l]
  PROVE  LexicographicIn(m, p, q, n) = Order(m[p + l], m[q + l])
<1>. DEFINE D == {x \in 0 .. n - 1 : m[p + x] # m[q + x]}
            first == CHOOSE x \in D : \A j \in D : x <= j
<1>1. LexicographicIn(m, p, q, n) = IF D = {} THEN 0 ELSE Order(m[p + first], m[q + first])
  BY Zenon DEF LexicographicIn
<1>2. l \in D /\ \A j \in D : l <= j
  OBVIOUS
<1>3. D # {} /\ first = l
  <2>1. D \subseteq Int /\ l \in Int
    OBVIOUS
  <2>. HIDE DEF D
  <2>2. first \in D /\ \A j \in D : first <= j
    BY <1>2
  <2>. HIDE DEF first
  <2>3. first <= l /\ l <= first /\ first \in Int
    BY <1>2, <2>1, <2>2
  <2>. QED  BY <1>2, <2>1, <2>3
<1>. HIDE DEF D, first
<1>. QED  BY <1>1, <1>3

LEMMA NoDifference ==
  ASSUME NEW m, NEW p \in Nat, NEW q \in Nat, NEW n \in Nat,
         \A j \in 0 .. n - 1 : m[p + j] = m[q + j]
  PROVE  LexicographicIn(m, p, q, n) = 0
<1>1. {x \in 0 .. n - 1 : m[p + x] # m[q + x]} = {}
  OBVIOUS
<1>. QED  BY <1>1 DEF LexicographicIn

LEMMA CompareInv ==
  ASSUME StringsInv, Compare
  PROVE  StringsInv'
<1>1. /\ CallOK /\ TypeOK /\ pc = "loop" /\ call.op \in {"compare", "mcompare"}
      /\ call' = call /\ before' = before /\ ans' = ans
      /\ mem' = mem /\ ptr' = ptr /\ mem = before /\ ptr = dest
      /\ call.op = "compare" => CompareLoop
      /\ call.op = "mcompare" => MemoryCompareLoop /\ count > 0
  BY DEF StringsInv, LoopInv, StringLaws, Compare, Return, Again, Reads, In
<1>2. /\ dest \in 0 .. SIZE - 1 /\ src \in 0 .. SIZE - 1 /\ SIZE \in Nat /\ count \in Nat
      /\ i \in Nat /\ ans \in Cells \cup {NULL} /\ ret \in Int /\ mem \in [Cells -> -128 .. 127]
      /\ ptr \in 0 .. SIZE
  BY <1>1, CallFacts DEF TypeOK
<1>3. /\ CallOK' /\ dest' = dest /\ src' = src /\ count' = count
      /\ LastSrc' = LastSrc /\ LastDest' = LastDest
  BY <1>1, CallKept
<1>4. \/ pc' = "done" /\ i' = i /\ mem[dest + i] # mem[src + i]
           /\ ret' = Order(mem[dest + i], mem[src + i])
      \/ pc' = "done" /\ i' = i /\ mem[dest + i] = mem[src + i] /\ mem[dest + i] = EOS /\ ret' = 0
      \/ pc' = "loop" /\ i' = i + 1 /\ ret' = ret
           /\ mem[dest + i] = mem[src + i] /\ mem[dest + i] # EOS
  BY <1>1 DEF Compare, Return, Again
<1>5. TypeOK'
  <2>1. i' \in Nat /\ ret' \in Int /\ pc' \in {"loop", "done"}
    BY <1>2, <1>4 DEF Order
  <2>. QED  BY <1>1, <1>2, <2>1, TypeKept
<1>6. CASE call.op = "mcompare"
  <2>1. /\ i \in Owned /\ dest + i < SIZE /\ src + i < SIZE /\ count # 0
        /\ \A j \in 0 .. i - 1 : mem[dest + j] = mem[src + j] /\ mem[dest + j] # EOS
    BY <1>1, <1>2, <1>6 DEF MemoryCompareLoop
  <2>2. CASE pc' = "done"
    <3>1. \/ mem[dest + i] # mem[src + i] /\ ret' = Order(mem[dest + i], mem[src + i])
          \/ mem[dest + i] = mem[src + i] /\ mem[dest + i] = EOS /\ ret' = 0
      BY <1>4, <2>2
    <3>2. ComparesMemory'
      BY <1>1, <1>3, <2>1, <3>1 DEF ComparesMemory, Done
    <3>. QED  BY <1>1, <1>3, <1>4, <1>5, <1>6, <2>2, <3>2
         DEF StringsInv, LoopInv, In, Reads, StringLaws, Done, CopiesText, MovesBytes, FindsChar, ComparesStrings
  <2>3. CASE pc' = "loop"
    <3>1. i' = i + 1 /\ mem[dest + i] = mem[src + i] /\ mem[dest + i] # EOS
      BY <1>4, <2>3
    <3>2. PICK n \in 0 .. SIZE : /\ dest + n < SIZE /\ src + n < SIZE
                                 /\ mem[dest + n] # mem[src + n] \/ mem[dest + n] = EOS
      <4>1. Settles(before, dest, src)
        BY <1>1, <1>6 DEF CallOK, Legal, dest, src
      <4>. QED  BY <1>1, <4>1 DEF Settles
    <3>3. ~ (n \in 0 .. i)
      BY <1>2, <2>1, <3>1, <3>2
    <3>4. i + 1 <= n
      BY <1>2, <3>2, <3>3
    <3>5. i' \in Owned /\ dest + i' < SIZE /\ src + i' < SIZE
      BY <1>2, <3>1, <3>2, <3>4 DEF Owned
    <3>6. \A j \in 0 .. i' - 1 : mem[dest + j] = mem[src + j] /\ mem[dest + j] # EOS
      BY <1>2, <2>1, <3>1
    <3>7. MemoryCompareLoop'
      BY <1>1, <1>3, <3>5, <3>6 DEF MemoryCompareLoop
    <3>. QED  BY <1>1, <1>3, <1>4, <1>5, <1>6, <2>3, <3>7
         DEF StringsInv, LoopInv, In, Reads, StringLaws, Done, CopiesText, MovesBytes, FindsChar, ComparesStrings, ComparesMemory
  <2>. QED  BY <1>4, <2>2, <2>3
<1>7. CASE call.op = "compare"
  <2>1. /\ LastSrc \in src .. SIZE - 1 /\ LastDest \in dest .. SIZE - 1
        /\ src + i <= LastSrc /\ dest + i <= LastDest
        /\ before[src + i] = EOS <=> src + i = LastSrc
        /\ before[LastDest] = EOS /\ \A a \in dest .. LastDest - 1 : before[a] # EOS
        /\ \A j \in 0 .. i - 1 : mem[dest + j] = mem[src + j]
    BY <1>1, <1>2, <1>7, LegalRead, SrcString, DestString, AtEnd DEF CompareLoop
  <2>2. before[dest + i] = EOS <=> dest + i = LastDest
    BY <1>2, <2>1
  <2>. DEFINE n == IF LastDest - dest + 1 < LastSrc - src + 1 THEN LastDest - dest + 1
                                                             ELSE LastSrc - src + 1
  <2>3. n \in Nat /\ i \in 0 .. n - 1
    BY <1>2, <2>1
  <2>4. dest \in Nat /\ src \in Nat
    BY <1>2
  <2>5. CASE pc' = "done"
    <3>1. ret' = LexicographicIn(mem, dest, src, n)
      <4>1. CASE mem[dest + i] # mem[src + i]
        <5>. HIDE DEF n
        <5>1. LexicographicIn(mem, dest, src, n) = Order(mem[dest + i], mem[src + i])
          BY <2>1, <2>3, <2>4, <4>1, FirstDifference
        <5>. QED  BY <1>4, <2>5, <4>1, <5>1
      <4>2. CASE mem[dest + i] = mem[src + i]
        <5>1. ret' = 0 /\ dest + i = LastDest /\ src + i = LastSrc
          BY <1>1, <1>4, <2>1, <2>2, <2>5, <4>2
        <5>2. \A j \in 0 .. n - 1 : mem[dest + j] = mem[src + j]
          <6>1. i = n - 1
            BY <1>2, <2>1, <5>1
          <6>. HIDE DEF n
          <6>. QED  BY <1>2, <2>1, <2>3, <4>2, <6>1
        <5>. HIDE DEF n
        <5>. QED  BY <2>3, <2>4, <5>1, <5>2, NoDifference
      <4>. QED  BY <4>1, <4>2
    <3>2. Length(mem', dest') = LastDest - dest /\ Length(mem', src') = LastSrc - src
      BY <1>1, <1>3 DEF Length, LastDest, LastSrc
    <3>3. ComparesStrings'
      BY <1>1, <1>3, <3>1, <3>2, ComparesThen
    <3>. QED  BY <1>1, <1>2, <1>3, <1>5, <1>7, <2>5, <3>3
              DEF StringsInv, LoopInv, In, Reads, StringLaws, Done, CopiesText, MovesBytes, FindsChar, ComparesMemory
  <2>6. CASE pc' = "loop"
    <3>1. i' = i + 1 /\ mem[dest + i] = mem[src + i] /\ mem[dest + i] # EOS
      BY <1>4, <2>6
    <3>2. src + i' <= LastSrc /\ dest + i' <= LastDest
      BY <1>1, <1>2, <2>1, <2>2, <3>1
    <3>3. \A j \in 0 .. i' - 1 : mem[dest + j] = mem[src + j]
      BY <1>2, <2>1, <3>1
    <3>4. CompareLoop'
      BY <1>1, <1>3, <3>2, <3>3 DEF CompareLoop
    <3>. QED  BY <1>1, <1>2, <1>3, <1>5, <1>7, <2>6, <3>4
              DEF StringsInv, LoopInv, In, Reads, StringLaws, Done, CopiesText, MovesBytes, FindsChar, ComparesStrings, ComparesMemory
  <2>. QED  BY <1>4, <2>5, <2>6
<1>. QED  BY <1>1, <1>6, <1>7

LEMMA CompareNothingInv ==
  ASSUME StringsInv, CompareNothing
  PROVE  StringsInv'
<1>1. /\ CallOK /\ TypeOK /\ pc = "loop" /\ call.op = "mcompare" /\ pc' = "done" /\ ret' = 0
      /\ call' = call /\ before' = before /\ ans' = ans /\ i' = i
      /\ mem' = mem /\ ptr' = ptr /\ mem = before /\ ptr = dest
  BY DEF StringsInv, LoopInv, StringLaws, CompareNothing, Return, Reads, In
<1>2. CallOK' /\ dest' = dest /\ count' = count /\ count = 0
  BY <1>1, CallKept DEF CompareNothing
<1>3. TypeOK'
  BY <1>1 DEF TypeOK
<1>. QED  BY <1>1, <1>2, <1>3
     DEF StringsInv, LoopInv, In, Reads, StringLaws, Done, CopiesText, MovesBytes, FindsChar, ComparesStrings, ComparesMemory

-----------------------------------------------------------------------------
LEMMA StringsInit ==
  Init => StringsInv
<1>. SUFFICES ASSUME Init PROVE StringsInv
  OBVIOUS
<1>. USE StringsAssumption
<1>1. /\ mem \in [Cells -> Chars] /\ before = mem /\ Legal(mem, call)
      /\ pc = IF call.op = "cat" THEN "seek" ELSE "loop"
      /\ i = 0 /\ ptr = call.dest /\ ans = NULL /\ ret = NULL
  BY DEF Init
<1>2. call \in [op : StringOps \cup MemoryOps, dest : Owned, src : Owned, ch : Int, count : Nat]
  BY DEF Init, EOS
<1>3. mem \in [Cells -> -128 .. 127]
  BY <1>1
<1>4. CallOK
  BY <1>1, <1>2, <1>3 DEF CallOK
<1>5. /\ dest \in 0 .. SIZE - 1 /\ src \in 0 .. SIZE - 1 /\ SIZE \in Nat /\ count \in Nat
      /\ call.op \in StringOps \cup MemoryOps /\ ptr = dest
  BY <1>1, <1>4, CallFacts DEF dest
<1>6. TypeOK
  BY <1>1, <1>3, <1>5 DEF TypeOK, NULL
<1>7. /\ call.op \in {"copy", "ncopy", "cat", "compare", "first", "last", "len"} => LastSrc \in src .. SIZE - 1
      /\ call.op \in {"cat", "compare"} => LastDest \in dest .. SIZE - 1
  BY <1>4, LegalCopy, LegalNCopy, LegalCat, LegalRead, SrcString, DestString
<1>8. \A p, q \in Nat : Copied(p, q, i, {})
  BY <1>1, <1>5 DEF Copied, Cells
<1>9. LoopInv
  <2>1. pc = "seek" => call.op = "cat" /\ CatSeekLoop
    BY <1>1, <1>5, <1>7 DEF CatSeekLoop
  <2>2. In("cat") => FALSE
    BY <1>1 DEF In
  <2>3. In("copy") => CopyLoop
    BY <1>1, <1>5, <1>7, <1>8 DEF In, CopyLoop
  <2>4. In("ncopy") => NCopyLoop
    BY <1>1, <1>5, <1>7, <1>8 DEF In, NCopyLoop
  <2>5. In("mcopy") => MemoryCopyLoop
    BY <1>1, <1>5, <1>8 DEF In, MemoryCopyLoop
  <2>6. In("mset") => SetLoop
    BY <1>1, <1>5 DEF In, SetLoop
  <2>7. /\ In("compare") => CompareLoop
        /\ In("first") => FirstLoop
        /\ In("last") => LastLoop
        /\ In("len") => LenLoop
        /\ In("mfind") => MemoryFindLoop
        /\ In("mcompare") => MemoryCompareLoop
    BY <1>1, <1>5, <1>7 DEF In, CompareLoop, MemoryCompareLoop, Owned, FirstLoop, LastLoop, LenLoop, MemoryFindLoop
  <2>. QED  BY <1>1, <1>5, <2>1, <2>2, <2>3, <2>4, <2>5, <2>6, <2>7 DEF LoopInv
<1>10. pc # "done"
  BY <1>1
<1>. QED  BY <1>4, <1>6, <1>9, <1>10
     DEF StringsInv, In, Reads, StringLaws, Done, CopiesText, MovesBytes, FindsChar, ComparesStrings, ComparesMemory

LEMMA StringsNext ==
  StringsInv /\ [Next]_vars => StringsInv'
<1>1. ASSUME StringsInv, UNCHANGED vars PROVE StringsInv'
  <2>1. UNCHANGED <<pc, call, mem, i, ptr, ans, ret, before>>
    BY <1>1 DEF vars
  <2>2. CallOK' /\ dest' = dest /\ src' = src /\ count' = count /\ LastSrc' = LastSrc /\ LastDest' = LastDest
    BY <1>1, <2>1, CallKept DEF StringsInv
  <2>3. LoopInv'
    BY <1>1, <2>1, <2>2 DEF StringsInv, LoopInv, In, CopyLoop, NCopyLoop, CatSeekLoop, CatLoop,
       CompareLoop, MemoryCompareLoop, FirstLoop, LastLoop, LenLoop, SetLoop, MemoryCopyLoop, MemoryFindLoop, Copied
  <2>4. StringLaws'
    <3>1. TypeOK'
      BY <1>1, <2>1 DEF StringsInv, StringLaws, TypeOK
    <3>2. CopiesText'
      BY <1>1, <2>1, <2>2 DEF StringsInv, StringLaws, CopiesText, Done, Copied
    <3>3. MovesBytes'
      BY <1>1, <2>1, <2>2 DEF StringsInv, StringLaws, MovesBytes, Done, Copied
    <3>4. FindsChar'
      BY <1>1, <2>1, <2>2 DEF StringsInv, StringLaws, FindsChar, Done
    <3>5. ComparesStrings'
      <4>1. ComparesStrings
        BY <1>1 DEF StringsInv, StringLaws
      <4>. QED  BY <2>1, <2>2, <4>1, ComparesNow, ComparesThen DEF Done
    <3>6. ComparesMemory'
      BY <1>1, <2>1, <2>2 DEF StringsInv, StringLaws, ComparesMemory, Done
    <3>. QED  BY <3>1, <3>2, <3>3, <3>4, <3>5, <3>6 DEF StringLaws
  <2>. QED  BY <2>2, <2>3, <2>4 DEF StringsInv
<1>. QED  BY <1>1, StringCopyInv, StringNCopyInv, CatSeekInv, CatInv, CompareInv, CompareNothingInv,
             FindFirstInv, FindLastInv, StringLenInv, MemorySetInv, MemoryCopyInv, MemoryFindInv
          DEF Next

(* For every size of memory and every call its contract allows, a function *)
(* of l_string.c writes, finds and compares what StringLaws says: what its *)
(* comment promises, but for the departures each law states.               *)
THEOREM StringsKeepLaws == Spec => []StringLaws
<1>1. Init => StringsInv
  BY StringsInit
<1>2. StringsInv /\ [Next]_vars => StringsInv'
  BY StringsNext
<1>3. StringsInv => StringLaws
  BY DEF StringsInv
<1>. QED  BY <1>1, <1>2, <1>3, PTL DEF Spec

-----------------------------------------------------------------------------
(***************************************************************************)
(* vsprintf reads every format as it is written, and its fields say what   *)
(* was asked for, for every format, every width and every argument.        *)
(***************************************************************************)

(* A set of numbers that holds 0 and each successor holds every number.    *)
LEMMA Induct ==
  ASSUME NEW S, 0 \in S, \A n \in Nat : n \in S => n + 1 \in S
  PROVE  \A n \in Nat : n \in S
<1>. SUFFICES ASSUME NEW n \in Nat, n \notin S PROVE FALSE
  OBVIOUS
<1>. DEFINE T == Nat \ S
<1>1. PICK m \in T : \A x \in T : m <= x
  BY Least
<1>2. m # 0 /\ m - 1 \in Nat /\ (m - 1) + 1 = m
  BY <1>1
<1>3. m - 1 \in T
  BY <1>1, <1>2
<1>. QED  BY <1>1, <1>2, <1>3

-----------------------------------------------------------------------------
(* Reading a format.                                                       *)
LEMMA AtTheEnd ==
  ASSUME NEW f \in Seq(STRING)
  PROVE  Len(f) \in Nat /\ At(f, Len(f) + 1) = "EOS"
BY DEF At

LEMMA PastPlace ==
  ASSUME NEW f \in Seq(STRING), NEW j \in 1 .. Len(f) + 1, NEW C, "EOS" \notin C
  PROVE  Past(f, j, C) \in j .. Len(f) + 1
<1>. DEFINE S == {e \in j .. Len(f) + 1 : At(f, e) \notin C}
<1>1. Len(f) + 1 \in S /\ S \in SUBSET Nat
  BY AtTheEnd
<1>2. PICK e \in S : \A n \in S : e <= n
  BY <1>1, Least
<1>3. e \in j .. Len(f) + 1 /\ At(f, e) \notin C /\ \A x \in j .. e - 1 : At(f, x) \in C
  BY <1>2, AtTheEnd
<1>. QED  BY <1>3 DEF Past

LEMMA PastStays ==
  ASSUME NEW f \in Seq(STRING), NEW j \in 1 .. Len(f) + 1, NEW C, At(f, j) \notin C
  PROVE  Past(f, j, C) = j
<1>1. j \in j .. Len(f) + 1 /\ \A x \in j .. j - 1 : At(f, x) \in C
  BY AtTheEnd
<1>2. \A e \in j .. Len(f) + 1 : (\A x \in j .. e - 1 : At(f, x) \in C) => e = j
  BY AtTheEnd
<1>. DEFINE e == Past(f, j, C)
<1>3. e \in j .. Len(f) + 1 /\ \A x \in j .. e - 1 : At(f, x) \in C
  BY <1>1 DEF Past
<1>. QED  BY <1>2, <1>3

LEMMA ConversionEnd ==
  ASSUME NEW f \in Seq(STRING), NEW x \in 1 .. Len(f)
  PROVE  /\ ConversionAt(f, x).end \in x + 1 .. Len(f) + 1
         /\ ConversionAt(f, x).type = At(f, ConversionAt(f, x).end)
         /\ ConversionAt(f, x).star => ConversionAt(f, x).type = "*"
<1>. DEFINE w == Past(f, x + 1, FlagChars)
            p == Past(f, w, Digits)
            q == IF At(f, p) = "." THEN Past(f, p + 1, Digits) ELSE p
            t == IF At(f, q) \in {"h", "l", "L"} THEN q + 1 ELSE q
<1>1. /\ ConversionAt(f, x).end = t /\ ConversionAt(f, x).type = At(f, t)
      /\ ConversionAt(f, x).star <=> At(f, w) = "*" \/ (q # p /\ At(f, p + 1) = "*")
  BY DEF ConversionAt
<1>2. Len(f) \in Nat /\ "EOS" \notin FlagChars /\ "EOS" \notin Digits /\ "*" \notin Digits
  BY DEF FlagChars, Digits, DigitChars
<1>3. w \in x + 1 .. Len(f) + 1
  BY <1>2, PastPlace
<1>4. p \in w .. Len(f) + 1 /\ (At(f, w) = "*" => p = w)
  <2>. HIDE DEF w
  <2>. QED  BY <1>2, <1>3, PastPlace, PastStays
<1>5. At(f, p) = "." => /\ p + 1 \in 1 .. Len(f) + 1
                        /\ q \in p + 1 .. Len(f) + 1 /\ (At(f, p + 1) = "*" => q = p + 1)
  <2>. SUFFICES ASSUME At(f, p) = "."
       PROVE  /\ p + 1 \in 1 .. Len(f) + 1
              /\ q \in p + 1 .. Len(f) + 1 /\ (At(f, p + 1) = "*" => q = p + 1)
    OBVIOUS
  <2>1. q = Past(f, p + 1, Digits)
    OBVIOUS
  <2>. HIDE DEF p, q
  <2>2. p + 1 \in 1 .. Len(f) + 1
    BY <1>2, <1>3, <1>4, AtTheEnd
  <2>. QED  BY <2>1, <2>2, <1>2, PastPlace, PastStays
<1>6. At(f, p) # "." => q = p
  OBVIOUS
<1>7. q \in p .. Len(f) + 1
  <2>. HIDE DEF p, q
  <2>. QED  BY <1>2, <1>3, <1>4, <1>5, <1>6
<1>8. (At(f, q) = "*" => t = q) /\ t \in {q, q + 1} /\ (At(f, q) = "EOS" => t = q)
  <2>. HIDE DEF q
  <2>. QED  OBVIOUS
<1>. HIDE DEF w, p, q, t
<1>9. t \in x + 1 .. Len(f) + 1
  <2>1. q = Len(f) + 1 => At(f, q) = "EOS"
    BY AtTheEnd
  <2>. QED  BY <1>2, <1>3, <1>4, <1>7, <1>8, <2>1
<1>10. ConversionAt(f, x).star => At(f, t) = "*"
  BY <1>1, <1>4, <1>5, <1>6, <1>8
<1>. QED  BY <1>1, <1>9, <1>10

-----------------------------------------------------------------------------
(* Where conversions start.                                                *)
Behind(f, b, n) ==
  At(f, n) = "%" /\ \A x \in b : ~ConversionAt(f, x).star /\ ConversionAt(f, x).end < n

IsStarts(h, m, f) ==
  /\ h \in [0 .. m -> SUBSET Nat] /\ h[0] = {}
  /\ \A n \in 1 .. m : h[n] = IF Behind(f, h[n - 1], n) THEN h[n - 1] \cup {n} ELSE h[n - 1]

LEMMA StartsExist ==
  ASSUME NEW f, NEW m \in Nat
  PROVE  \E h : IsStarts(h, m, f)
<1>. DEFINE S == {n \in Nat : \E h : IsStarts(h, n, f)}
<1>1. 0 \in S
  <2>1. IsStarts([n \in 0 .. 0 |-> {}], 0, f)
    BY DEF IsStarts
  <2>. QED  BY <2>1
<1>2. ASSUME NEW n \in Nat, n \in S PROVE n + 1 \in S
  <2>1. PICK h : IsStarts(h, n, f)
    BY <1>2
  <2>. DEFINE v == IF Behind(f, h[n], n + 1) THEN h[n] \cup {n + 1} ELSE h[n]
              g == [x \in 0 .. n + 1 |-> IF x = n + 1 THEN v ELSE h[x]]
  <2>2. v \in SUBSET Nat
    BY <2>1 DEF IsStarts
  <2>3. g \in [0 .. n + 1 -> SUBSET Nat] /\ g[0] = {}
    <3>. HIDE DEF v
    <3>. QED  BY <2>1, <2>2 DEF IsStarts
  <2>4. ASSUME NEW x \in 1 .. n + 1
        PROVE  g[x] = IF Behind(f, g[x - 1], x) THEN g[x - 1] \cup {x} ELSE g[x - 1]
    <3>1. CASE x = n + 1
      <4>1. g[x] = v /\ g[x - 1] = h[n]
        BY <3>1
      <4>. QED  BY <3>1, <4>1
    <3>2. CASE x # n + 1
      <4>1. x \in 1 .. n /\ g[x] = h[x] /\ g[x - 1] = h[x - 1]
        BY <3>2
      <4>. QED  BY <4>1, <2>1 DEF IsStarts
    <3>. QED  BY <3>1, <3>2
  <2>. HIDE DEF g
  <2>5. IsStarts(g, n + 1, f)
    BY <2>3, <2>4 DEF IsStarts
  <2>. QED  BY <2>5
<1>. HIDE DEF S
<1>3. m \in S
  BY <1>1, <1>2, Induct
<1>. QED  BY <1>3 DEF S

LEMMA StartsEquation ==
  ASSUME NEW f \in Seq(STRING)
  PROVE  /\ Starts(f)[0] = {}
         /\ \A n \in 1 .. Len(f) :
              Starts(f)[n] = IF Behind(f, Starts(f)[n - 1], n)
                             THEN Starts(f)[n - 1] \cup {n} ELSE Starts(f)[n - 1]
<1>. DEFINE body(h) == [n \in 0 .. Len(f) |->
       IF n = 0 THEN {}
       ELSE LET b == h[n - 1]
                free(c) == ~c.star /\ c.end < n
            IN  IF At(f, n) = "%" /\ \A x \in b : free(ConversionAt(f, x))
                THEN b \cup {n} ELSE b]
<1>1. PICK h : IsStarts(h, Len(f), f)
  BY StartsExist, AtTheEnd
<1>2. h = body(h)
  <2>1. ASSUME NEW n \in 0 .. Len(f) PROVE h[n] = body(h)[n]
    <3>1. CASE n = 0
      BY <1>1, <3>1 DEF IsStarts
    <3>2. CASE n # 0
      <4>1. n \in 1 .. Len(f)
        BY <3>2, AtTheEnd
      <4>2. h[n] = IF Behind(f, h[n - 1], n) THEN h[n - 1] \cup {n} ELSE h[n - 1]
        BY <1>1, <4>1 DEF IsStarts
      <4>. QED  BY <3>2, <4>2 DEF Behind
    <3>. QED  BY <3>1, <3>2
  <2>2. h = [n \in 0 .. Len(f) |-> h[n]]
    BY <1>1 DEF IsStarts
  <2>. QED  BY <2>1, <2>2
<1>. DEFINE s == Starts(f)
<1>3. s = body(s)
  BY <1>2 DEF Starts
<1>4. s[0] = {}
  BY <1>3, AtTheEnd
<1>5. ASSUME NEW n \in 1 .. Len(f)
      PROVE  s[n] = IF Behind(f, s[n - 1], n) THEN s[n - 1] \cup {n} ELSE s[n - 1]
  <2>1. n \in 0 .. Len(f) /\ n # 0
    BY AtTheEnd
  <2>. HIDE DEF s
  <2>. QED  BY <1>3, <2>1 DEF Behind
<1>. QED  BY <1>4, <1>5

(* They are among the characters read so far, and stay.                    *)
LEMMA StartsBound ==
  ASSUME NEW f \in Seq(STRING), NEW m \in 0 .. Len(f)
  PROVE  Starts(f)[m] \subseteq 1 .. m
<1>. DEFINE S == {n \in Nat : n <= Len(f) => Starts(f)[n] \subseteq 1 .. n}
<1>1. 0 \in S
  BY StartsEquation
<1>2. ASSUME NEW n \in Nat, n \in S PROVE n + 1 \in S
  <2>1. CASE n + 1 <= Len(f)
    <3>1. Starts(f)[n] \subseteq 1 .. n
      BY <1>2, <2>1, AtTheEnd
    <3>2. Starts(f)[n + 1] \subseteq Starts(f)[n] \cup {n + 1}
      <4>1. n + 1 \in 1 .. Len(f) /\ (n + 1) - 1 = n
        BY <2>1, AtTheEnd
      <4>. QED  BY <4>1, StartsEquation
    <3>. QED  BY <3>1, <3>2
  <2>2. CASE ~(n + 1 <= Len(f))
    BY <2>2
  <2>. QED  BY <2>1, <2>2
<1>. HIDE DEF S
<1>3. m \in S
  BY <1>1, <1>2, Induct
<1>. QED  BY <1>3, AtTheEnd DEF S

LEMMA StartsGrow ==
  ASSUME NEW f \in Seq(STRING), NEW m \in 0 .. Len(f)
  PROVE  Starts(f)[m] \subseteq Starts(f)[Len(f)]
<1>. DEFINE S == {n \in Nat : m + n <= Len(f) => Starts(f)[m] \subseteq Starts(f)[m + n]}
<1>1. 0 \in S
  OBVIOUS
<1>2. ASSUME NEW n \in Nat, n \in S PROVE n + 1 \in S
  <2>1. CASE m + (n + 1) <= Len(f)
    <3>1. m + (n + 1) \in 1 .. Len(f) /\ (m + (n + 1)) - 1 = m + n /\ m + n <= Len(f)
      BY <2>1, AtTheEnd
    <3>2. Starts(f)[m + n] \subseteq Starts(f)[m + (n + 1)]
      BY <3>1, StartsEquation
    <3>. QED  BY <1>2, <3>1, <3>2
  <2>2. CASE ~(m + (n + 1) <= Len(f))
    BY <2>2
  <2>. QED  BY <2>1, <2>2
<1>. HIDE DEF S
<1>3. Len(f) - m \in S
  BY <1>1, <1>2, Induct, AtTheEnd
<1>. QED  BY <1>3, AtTheEnd DEF S

(* Nothing starts within a conversion.                                     *)
LEMMA NothingWithin ==
  ASSUME NEW f \in Seq(STRING), NEW x \in 1 .. Len(f), x \in Starts(f)[x],
         NEW m \in x .. Len(f), m <= ConversionAt(f, x).end
  PROVE  Starts(f)[m] = Starts(f)[x]
<1>. DEFINE c == ConversionAt(f, x)
            S == {n \in Nat : x + n <= m => Starts(f)[x + n] = Starts(f)[x]}
<1>0. c.end \in Int
  BY ConversionEnd, AtTheEnd
<1>. HIDE DEF c
<1>1. 0 \in S
  OBVIOUS
<1>2. ASSUME NEW n \in Nat, n \in S PROVE n + 1 \in S
  <2>1. CASE x + (n + 1) <= m
    <3>1. x + (n + 1) \in 1 .. Len(f) /\ (x + (n + 1)) - 1 = x + n /\ x + n <= m
      BY <2>1, AtTheEnd
    <3>2. Starts(f)[x + n] = Starts(f)[x]
      BY <1>2, <3>1
    <3>3. ~(c.end < x + (n + 1))
      BY <2>1, <1>0 DEF c
    <3>4. ~Behind(f, Starts(f)[x + n], x + (n + 1))
      BY <3>2, <3>3 DEF Behind, c
    <3>5. PICK y \in 1 .. Len(f) : y = x + (n + 1) /\ y - 1 = x + n
      BY <3>1
    <3>6. ~Behind(f, Starts(f)[y - 1], y)
      BY <3>4, <3>5
    <3>7. Starts(f)[y] = Starts(f)[y - 1]
      BY <3>6, StartsEquation
    <3>. QED  BY <3>2, <3>5, <3>7
  <2>2. CASE ~(x + (n + 1) <= m)
    BY <2>2
  <2>. QED  BY <2>1, <2>2
<1>. HIDE DEF S
<1>3. m - x \in S
  <2>1. m - x \in Nat
    BY AtTheEnd
  <2>2. \A n \in Nat : n \in S
    BY <1>1, <1>2, Induct
  <2>. QED  BY <2>1, <2>2
<1>. QED  BY <1>3, AtTheEnd DEF S

-----------------------------------------------------------------------------
(* The conversions that take an argument.                                  *)
LEMMA TakingFinite ==
  ASSUME NEW f \in Seq(STRING), NEW m \in 0 .. Len(f)
  PROVE  /\ Taking(f, m) \subseteq 1 .. m /\ IsFiniteSet(Taking(f, m))
         /\ Cardinality(Taking(f, m)) \in Nat
         /\ Taking(f, m) \subseteq Taking(f, Len(f))
         /\ Cardinality(Taking(f, m)) <= Cardinality(Taking(f, Len(f)))
<1>1. ASSUME NEW n \in 0 .. Len(f)
      PROVE  Taking(f, n) \subseteq 1 .. n /\ IsFiniteSet(Taking(f, n))
             /\ Cardinality(Taking(f, n)) \in Nat
  <2>1. Taking(f, n) \subseteq 1 .. n
    BY StartsBound DEF Taking
  <2>2. IsFiniteSet(1 .. n)
    BY FS_Interval, AtTheEnd
  <2>. QED  BY <2>1, <2>2, FS_Subset, FS_CardinalityType
<1>2. Taking(f, m) \subseteq Taking(f, Len(f))
  BY StartsGrow DEF Taking
<1>3. Len(f) \in 0 .. Len(f)
  BY AtTheEnd
<1>. QED  BY <1>1, <1>2, <1>3, FS_Subset

LEMMA PlainCharacter ==
  ASSUME NEW f \in Seq(STRING), NEW x \in 1 .. Len(f), At(f, x) # "%"
  PROVE  Starts(f)[x] = Starts(f)[x - 1] /\ Taking(f, x) = Taking(f, x - 1)
<1>1. ~Behind(f, Starts(f)[x - 1], x)
  BY DEF Behind
<1>. QED  BY <1>1, StartsEquation DEF Taking

LEMMA ConversionStarts ==
  ASSUME NEW f \in Seq(STRING), NEW x \in 1 .. Len(f), At(f, x) = "%",
         \A y \in Starts(f)[x - 1] : ~ConversionAt(f, y).star /\ ConversionAt(f, y).end < x
  PROVE  Starts(f)[x] = Starts(f)[x - 1] \cup {x} /\ x \in Starts(f)[Len(f)]
<1>1. Behind(f, Starts(f)[x - 1], x)
  BY DEF Behind
<1>2. Starts(f)[x] = Starts(f)[x - 1] \cup {x}
  BY <1>1, StartsEquation
<1>3. x \in 0 .. Len(f)
  BY AtTheEnd
<1>. QED  BY <1>2, <1>3, StartsGrow

LEMMA TakesOne ==
  ASSUME NEW f \in Seq(STRING), NEW x \in 1 .. Len(f), At(f, x) = "%",
         \A y \in Starts(f)[x - 1] : ~ConversionAt(f, y).star /\ ConversionAt(f, y).end < x,
         ConversionAt(f, x).type \in Types
  PROVE  /\ Cardinality(Taking(f, x)) = Cardinality(Taking(f, x - 1)) + 1
         /\ x \in Taking(f, Len(f))
<1>0. x \in 0 .. Len(f) /\ x - 1 \in 0 .. Len(f)
  BY AtTheEnd
<1>1. Taking(f, x) = Taking(f, x - 1) \cup {x}
  BY ConversionStarts DEF Taking
<1>2. x \notin Taking(f, x - 1) /\ IsFiniteSet(Taking(f, x - 1))
  BY <1>0, TakingFinite
<1>3. Cardinality(Taking(f, x - 1) \cup {x}) = Cardinality(Taking(f, x - 1)) + 1
  BY <1>2, FS_AddElement
<1>4. x \in Taking(f, Len(f))
  BY ConversionStarts DEF Taking
<1>. QED  BY <1>1, <1>3, <1>4

LEMMA TakesNone ==
  ASSUME NEW f \in Seq(STRING), NEW x \in 1 .. Len(f), At(f, x) = "%",
         \A y \in Starts(f)[x - 1] : ~ConversionAt(f, y).star /\ ConversionAt(f, y).end < x,
         ConversionAt(f, x).type \notin Types
  PROVE  Taking(f, x) = Taking(f, x - 1)
BY ConversionStarts DEF Taking

(* Behind a conversion nothing has started but itself.                     *)
LEMMA AtConversionEnd ==
  ASSUME NEW f \in Seq(STRING), NEW x \in 1 .. Len(f), At(f, x) = "%",
         \A y \in Starts(f)[x - 1] : ~ConversionAt(f, y).star /\ ConversionAt(f, y).end < x,
         ~ConversionAt(f, x).star, ConversionAt(f, x).type # "EOS"
  PROVE  LET e == ConversionAt(f, x).end
         IN  /\ e \in x + 1 .. Len(f) /\ Starts(f)[e] = Starts(f)[x]
             /\ Taking(f, e) = Taking(f, x)
             /\ \A y \in Starts(f)[e] : ~ConversionAt(f, y).star /\ ConversionAt(f, y).end < e + 1
<1>. DEFINE e == ConversionAt(f, x).end
<1>1. e \in x + 1 .. Len(f) + 1 /\ At(f, e) # "EOS"
  BY ConversionEnd
<1>2. e \in x + 1 .. Len(f) /\ e \in x .. Len(f) /\ e <= ConversionAt(f, x).end
  <2>1. e # Len(f) + 1
    BY <1>1, AtTheEnd
  <2>. HIDE DEF e
  <2>2. e \in x + 1 .. Len(f) /\ e \in x .. Len(f) /\ e <= e
    BY <1>1, <2>1, AtTheEnd
  <2>. QED  BY <2>2 DEF e
<1>3. x \in Starts(f)[x] /\ Starts(f)[x] = Starts(f)[x - 1] \cup {x}
  BY ConversionStarts
<1>4. Starts(f)[e] = Starts(f)[x]
  <2>. HIDE DEF e
  <2>. QED  BY <1>2, <1>3, NothingWithin
<1>5. ASSUME NEW y \in Starts(f)[e]
      PROVE  ~ConversionAt(f, y).star /\ ConversionAt(f, y).end < e + 1
  <2>1. CASE y = x
    <3>. QED  BY <2>1, <1>2, AtTheEnd
  <2>2. CASE y # x
    <3>1. y \in Starts(f)[x - 1]
      BY <2>2, <1>3, <1>4
    <3>2. y \in 1 .. Len(f)
      <4>1. x - 1 \in 0 .. Len(f)
        BY AtTheEnd
      <4>. QED  BY <3>1, <4>1, StartsBound
    <3>3. ConversionAt(f, y).end \in Int
      BY <3>2, ConversionEnd, AtTheEnd
    <3>. QED  BY <1>2, <3>1, <3>3, AtTheEnd
  <2>. QED  BY <2>1, <2>2
<1>. QED  BY <1>2, <1>4, <1>5 DEF Taking

-----------------------------------------------------------------------------
(* The arguments.                                                          *)
LEMMA NextOf ==
  ASSUME NEW g, Len(g) \in Nat, g = SubSeq(g, 1, Len(g)), NEW n \in Nat, n < Len(g)
  PROVE  /\ Head(SubSeq(g, n + 1, Len(g))) = g[n + 1]
         /\ Tail(SubSeq(g, n + 1, Len(g))) = SubSeq(g, n + 2, Len(g))
<1>. DEFINE X == {g[j] : j \in 1 .. Len(g)}
            a == SubSeq(g, n + 1, Len(g))
            b == SubSeq(g, n + 2, Len(g))
<1>1. \A j \in 1 .. Len(g) : g[j] \in X
  OBVIOUS
<1>2. PICK l \in Nat : l = Len(g)
  OBVIOUS
<1>. HIDE DEF X
<1>3. a \in Seq(X) /\ Len(a) = l - n /\ \A j \in 1 .. l - n : a[j] = g[n + j]
  <2>1. \A j \in n + 1 .. l : g[j] \in X
    BY <1>1, <1>2
  <2>2. /\ SubSeq(g, n + 1, l) \in Seq(X)
        /\ Len(SubSeq(g, n + 1, l)) = IF n + 1 <= l THEN l - (n + 1) + 1 ELSE 0
        /\ \A j \in 1 .. l - (n + 1) + 1 : SubSeq(g, n + 1, l)[j] = g[(n + 1) + j - 1]
    BY <2>1, SubSeqProperties
  <2>3. a = SubSeq(g, n + 1, l)
    BY <1>2
  <2>4. n < l
    BY <1>2
  <2>. HIDE DEF a, b
  <2>5. a \in Seq(X) /\ Len(a) = l - n
    BY <2>2, <2>3, <2>4
  <2>6. ASSUME NEW j \in 1 .. l - n PROVE a[j] = g[n + j]
    <3>1. j \in 1 .. l - (n + 1) + 1 /\ (n + 1) + j - 1 = n + j
      OBVIOUS
    <3>2. a[j] = g[(n + 1) + j - 1]
      BY <2>2, <2>3, <3>1
    <3>. QED  BY <3>1, <3>2
  <2>. QED  BY <2>5, <2>6
<1>4. b \in Seq(X) /\ Len(b) = l - n - 1 /\ \A j \in 1 .. l - n - 1 : b[j] = g[n + j + 1]
  <2>1. \A j \in n + 2 .. l : g[j] \in X
    BY <1>1, <1>2
  <2>2. /\ SubSeq(g, n + 2, l) \in Seq(X)
        /\ Len(SubSeq(g, n + 2, l)) = IF n + 2 <= l THEN l - (n + 2) + 1 ELSE 0
        /\ \A j \in 1 .. l - (n + 2) + 1 : SubSeq(g, n + 2, l)[j] = g[(n + 2) + j - 1]
    BY <2>1, SubSeqProperties
  <2>3. b = SubSeq(g, n + 2, l)
    BY <1>2
  <2>4. n < l
    BY <1>2
  <2>. HIDE DEF a, b
  <2>5. b \in Seq(X) /\ Len(b) = l - n - 1
    BY <2>2, <2>3, <2>4
  <2>6. ASSUME NEW j \in 1 .. l - n - 1 PROVE b[j] = g[n + j + 1]
    <3>1. j \in 1 .. l - (n + 2) + 1 /\ (n + 2) + j - 1 = n + j + 1
      OBVIOUS
    <3>2. b[j] = g[(n + 2) + j - 1]
      BY <2>2, <2>3, <3>1
    <3>. QED  BY <3>1, <3>2
  <2>. QED  BY <2>5, <2>6
<1>. HIDE DEF a, b
<1>5. a # <<>> /\ Head(a) = a[1]
  BY <1>2, <1>3
<1>6. Tail(a) \in Seq(X) /\ Len(Tail(a)) = l - n - 1
      /\ \A j \in 1 .. Len(Tail(a)) : Tail(a)[j] = a[j + 1]
  BY <1>3, <1>5, HeadTailProperties
<1>7. \A j \in 1 .. Len(Tail(a)) : Tail(a)[j] = b[j]
  BY <1>2, <1>3, <1>4, <1>6
<1>8. Tail(a) = b
  BY <1>4, <1>6, <1>7, SeqEqual
<1>9. Head(a) = g[n + 1]
  BY <1>2, <1>3, <1>5
<1>. QED  BY <1>8, <1>9 DEF a, b

(* What a conversion finds of its caller's arguments.                      *)
LEMMA Supplied ==
  ASSUME NEW c, WellCalled(c), NEW x \in 1 .. Len(c.fmt), At(c.fmt, x) = "%",
         \A y \in Starts(c.fmt)[x - 1] :
           ~ConversionAt(c.fmt, y).star /\ ConversionAt(c.fmt, y).end < x
  PROVE  LET n == Cardinality(Taking(c.fmt, x - 1))
             type == ConversionAt(c.fmt, x).type
         IN  /\ type # "EOS" /\ n \in Nat
             /\ type \in Types =>
                  /\ n < Len(c.args) /\ Cardinality(Taking(c.fmt, x)) = n + 1
                  /\ type = "c" => c.args[n + 1] \in STRING
                  /\ type = "s" => c.args[n + 1] \in Seq(STRING)
                  /\ type \in {"x", "d", "u"} => c.args[n + 1] \in Int
<1>. DEFINE f == c.fmt
            n == Cardinality(Taking(f, x - 1))
            ty == ConversionAt(f, x).type
<1>1. f \in Seq(STRING) /\ Len(c.args) \in Nat
      /\ (\A y \in Starts(f)[Len(f)] : ConversionAt(f, y).type # "EOS")
      /\ Cardinality(Taking(f, Len(f))) <= Len(c.args)
  BY DEF WellCalled
<1>2. x \in Starts(f)[Len(f)]
  BY <1>1, ConversionStarts
<1>3. n \in Nat
  <2>1. x - 1 \in 0 .. Len(f)
    BY <1>1, AtTheEnd
  <2>. QED  BY <1>1, <2>1, TakingFinite
<1>4. ASSUME ty \in Types
      PROVE  /\ n < Len(c.args) /\ Cardinality(Taking(f, x)) = n + 1
             /\ ty = "c" => c.args[n + 1] \in STRING
             /\ ty = "s" => c.args[n + 1] \in Seq(STRING)
             /\ ty \in {"x", "d", "u"} => c.args[n + 1] \in Int
  <2>1. Cardinality(Taking(f, x)) = n + 1 /\ x \in Taking(f, Len(f))
    BY <1>1, <1>4, TakesOne
  <2>2. x \in 0 .. Len(f)
    BY <1>1, AtTheEnd
  <2>3. n + 1 <= Cardinality(Taking(f, Len(f))) /\ Cardinality(Taking(f, Len(f))) \in Nat
    <3>1. Len(f) \in 0 .. Len(f)
      BY <1>1, AtTheEnd
    <3>. QED  BY <1>1, <2>1, <2>2, <3>1, TakingFinite
  <2>4. n < Len(c.args)
    BY <1>1, <1>3, <2>3
  <2>5. /\ ty = "c" => c.args[Cardinality(Taking(f, x))] \in STRING
        /\ ty = "s" => c.args[Cardinality(Taking(f, x))] \in Seq(STRING)
        /\ ty \in {"x", "d", "u"} => c.args[Cardinality(Taking(f, x))] \in Int
    BY <2>1 DEF WellCalled
  <2>. HIDE DEF n, ty, f
  <2>. QED  BY <2>1, <2>4, <2>5
<1>5. ty # "EOS"
  BY <1>1, <1>2
<1>. QED  BY <1>3, <1>4, <1>5

-----------------------------------------------------------------------------
(* The scan: what started is behind it, and had its arguments.             *)
ScanInv ==
  /\ \E c \in Calls : fmt = c.fmt /\ given = c.args
  /\ vpc \in {"scan", "done"} /\ k \in 1 .. Len(fmt) + 1
  /\ \A x \in Starts(fmt)[k - 1] :
       ~ConversionAt(fmt, x).star /\ ConversionAt(fmt, x).end < k
  /\ TakesItsArguments

LEMMA ScanStarts == FormatInit => ScanInv
<1>. SUFFICES ASSUME NEW c \in Calls, fmt = c.fmt, args = c.args, given = c.args, FormatInit
              PROVE  ScanInv
  BY DEF FormatInit
<1>1. fmt \in Seq(STRING) /\ Len(given) \in Nat /\ args = SubSeq(given, 1, Len(given))
  BY FormatAssumption DEF WellCalled
<1>2. k = 1 /\ vpc = "scan"
  BY DEF FormatInit
<1>3. Starts(fmt)[k - 1] = {} /\ Taking(fmt, k - 1) = {}
  BY <1>1, <1>2, StartsEquation DEF Taking
<1>4. Cardinality(Taking(fmt, k - 1)) = 0
  BY <1>3, FS_EmptySet
<1>5. TakesItsArguments
  <2>1. args = SubSeq(given, 0 + 1, Len(given))
    BY <1>1
  <2>. QED  BY <1>4, <2>1 DEF TakesItsArguments
<1>6. k \in 1 .. Len(fmt) + 1
  BY <1>1, <1>2, AtTheEnd
<1>7. \E d \in Calls : fmt = d.fmt /\ given = d.args
  OBVIOUS
<1>. QED  BY <1>2, <1>3, <1>5, <1>6, <1>7 DEF ScanInv

(* A conversion that may be read, and what it finds.                       *)
LEMMA ConversionFinds ==
  ASSUME ScanInv, InSpec, ~Conversion.star
  PROVE  LET n == Cardinality(Taking(fmt, k - 1))
             e == Conversion.end
         IN  /\ fmt \in Seq(STRING) /\ k \in 1 .. Len(fmt) /\ n \in Nat
             /\ e \in k + 1 .. Len(fmt)
             /\ \A y \in Starts(fmt)[e] :
                  ~ConversionAt(fmt, y).star /\ ConversionAt(fmt, y).end < e + 1
             /\ Conversion.type \notin Types => Taking(fmt, e) = Taking(fmt, k - 1)
             /\ Conversion.type \in Types =>
                  /\ Cardinality(Taking(fmt, e)) = n + 1
                  /\ Head(args) = given[n + 1] /\ Tail(args) = SubSeq(given, n + 2, Len(given))
                  /\ Conversion.type = "c" => Head(args) \in STRING
                  /\ Conversion.type = "s" => Head(args) \in Seq(STRING)
                  /\ Conversion.type \in {"x", "d", "u"} => Head(args) \in Int
<1>. DEFINE n == Cardinality(Taking(fmt, k - 1))
            e == Conversion.end
<1>1. PICK c \in Calls : fmt = c.fmt /\ given = c.args
  BY DEF ScanInv
<1>2. /\ WellCalled(c) /\ fmt \in Seq(STRING)
      /\ Len(given) \in Nat /\ given = SubSeq(given, 1, Len(given))
  BY <1>1, FormatAssumption DEF WellCalled
<1>3. At(fmt, k) = "%" /\ k \in 1 .. Len(fmt)
  <2>1. At(fmt, k) = "%" /\ k \in 1 .. Len(fmt) + 1
    BY DEF InSpec, ScanInv
  <2>2. k # Len(fmt) + 1
    BY <1>2, <2>1, AtTheEnd
  <2>. QED  BY <1>2, <2>1, <2>2, AtTheEnd
<1>4. \A y \in Starts(fmt)[k - 1] : ~ConversionAt(fmt, y).star /\ ConversionAt(fmt, y).end < k
  BY DEF ScanInv
<1>5. Conversion = ConversionAt(fmt, k)
  BY DEF Conversion
<1>6. /\ Conversion.type # "EOS" /\ n \in Nat
      /\ Conversion.type \in Types =>
           /\ n < Len(given) /\ Cardinality(Taking(fmt, k)) = n + 1
           /\ Conversion.type = "c" => given[n + 1] \in STRING
           /\ Conversion.type = "s" => given[n + 1] \in Seq(STRING)
           /\ Conversion.type \in {"x", "d", "u"} => given[n + 1] \in Int
  BY <1>1, <1>2, <1>3, <1>4, <1>5, Supplied
<1>7. /\ e \in k + 1 .. Len(fmt)
      /\ Taking(fmt, e) = Taking(fmt, k)
      /\ \A y \in Starts(fmt)[e] :
           ~ConversionAt(fmt, y).star /\ ConversionAt(fmt, y).end < e + 1
  BY <1>2, <1>3, <1>4, <1>5, <1>6, AtConversionEnd
<1>8. Conversion.type \notin Types => Taking(fmt, e) = Taking(fmt, k - 1)
  BY <1>2, <1>3, <1>4, <1>5, <1>7, TakesNone
<1>9. Conversion.type \in Types =>
        Head(args) = given[n + 1] /\ Tail(args) = SubSeq(given, n + 2, Len(given))
  <2>1. args = SubSeq(given, n + 1, Len(given))
    BY DEF ScanInv, TakesItsArguments
  <2>. HIDE DEF n
  <2>. QED  BY <1>2, <1>6, <2>1, NextOf
<1>. HIDE DEF n, e
<1>10. Conversion.type \in Types => Cardinality(Taking(fmt, e)) = n + 1
  BY <1>6, <1>7
<1>. QED  BY <1>2, <1>3, <1>6, <1>7, <1>8, <1>9, <1>10 DEF n, e

LEMMA ScanKept ==
  ASSUME ScanInv, [FormatNext]_fvars
  PROVE  ScanInv'
<1>1. CASE Ordinary
  <2>1. PICK c \in Calls : fmt = c.fmt /\ given = c.args
    BY DEF ScanInv
  <2>2. fmt \in Seq(STRING) /\ k \in 1 .. Len(fmt) + 1
    BY <2>1, FormatAssumption DEF WellCalled, ScanInv
  <2>3. At(fmt, k) # "%" /\ At(fmt, k) # "EOS" /\ vpc = "scan"
        /\ k' = k + 1 /\ UNCHANGED <<vpc, fmt, args, given, last>>
    BY <1>1 DEF Ordinary
  <2>4. k \in 1 .. Len(fmt) /\ k' - 1 = k
    <3>1. k # Len(fmt) + 1
      BY <2>2, <2>3, AtTheEnd
    <3>. QED  BY <2>2, <2>3, <3>1, AtTheEnd
  <2>5. Starts(fmt)[k] = Starts(fmt)[k - 1] /\ Taking(fmt, k) = Taking(fmt, k - 1)
    BY <2>2, <2>3, <2>4, PlainCharacter
  <2>6. ASSUME NEW x \in Starts(fmt)[k]
        PROVE  ~ConversionAt(fmt, x).star /\ ConversionAt(fmt, x).end < k + 1
    <3>1. ~ConversionAt(fmt, x).star /\ ConversionAt(fmt, x).end < k
      BY <2>5, <2>6 DEF ScanInv
    <3>2. ConversionAt(fmt, x).end \in Int
      <4>1. x \in 1 .. Len(fmt)
        <5>1. k \in 0 .. Len(fmt)
          BY <2>2, <2>4, AtTheEnd
        <5>. QED  BY <2>2, <2>4, <2>6, <5>1, StartsBound
      <4>. QED  BY <2>2, <4>1, ConversionEnd, AtTheEnd
    <3>. QED  BY <3>1, <3>2, <2>2
  <2>7. (\A x \in Starts(fmt)[k - 1] :
           ~ConversionAt(fmt, x).star /\ ConversionAt(fmt, x).end < k)'
    BY <2>3, <2>4, <2>6
  <2>8. TakesItsArguments'
    BY <2>3, <2>4, <2>5 DEF ScanInv, TakesItsArguments
  <2>9. (vpc \in {"scan", "done"} /\ k \in 1 .. Len(fmt) + 1)'
    BY <2>2, <2>3, <2>4, AtTheEnd
  <2>. QED  BY <2>1, <2>3, <2>7, <2>8, <2>9 DEF ScanInv
<1>2. ASSUME NEW w, InSpec, ~Conversion.star, Conversion.type \in Types, Emit(w)
      PROVE  ScanInv'
  <2>. DEFINE n == Cardinality(Taking(fmt, k - 1))
              e == Conversion.end
  <2>1. /\ fmt \in Seq(STRING) /\ k \in 1 .. Len(fmt) /\ n \in Nat
        /\ e \in k + 1 .. Len(fmt)
        /\ \A y \in Starts(fmt)[e] :
             ~ConversionAt(fmt, y).star /\ ConversionAt(fmt, y).end < e + 1
        /\ Cardinality(Taking(fmt, e)) = n + 1
        /\ Head(args) = given[n + 1] /\ Tail(args) = SubSeq(given, n + 2, Len(given))
    BY <1>2, ConversionFinds
  <2>2. last'.arg = Head(args) /\ args' = Tail(args) /\ k' = e + 1
        /\ UNCHANGED <<vpc, fmt, given>>
    BY <1>2 DEF Emit
  <2>. HIDE DEF e, n
  <2>3. k' - 1 = e /\ k' \in 1 .. Len(fmt) + 1 /\ (n + 1) + 1 = n + 2
    BY <2>1, <2>2, AtTheEnd
  <2>4. TakesItsArguments'
    BY <2>1, <2>2, <2>3 DEF TakesItsArguments
  <2>5. (\A x \in Starts(fmt)[k - 1] :
           ~ConversionAt(fmt, x).star /\ ConversionAt(fmt, x).end < k)'
    BY <2>1, <2>2, <2>3
  <2>. QED  BY <2>2, <2>3, <2>4, <2>5 DEF ScanInv
<1>3. CASE FormatUnknown
  <2>. DEFINE e == Conversion.end
  <2>1. /\ fmt \in Seq(STRING) /\ k \in 1 .. Len(fmt)
        /\ e \in k + 1 .. Len(fmt)
        /\ \A y \in Starts(fmt)[e] :
             ~ConversionAt(fmt, y).star /\ ConversionAt(fmt, y).end < e + 1
        /\ Taking(fmt, e) = Taking(fmt, k - 1)
    BY <1>3, ConversionFinds DEF FormatUnknown
  <2>2. k' = e + 1 /\ UNCHANGED <<vpc, fmt, args, given, last>>
    BY <1>3 DEF FormatUnknown
  <2>. HIDE DEF e
  <2>3. k' - 1 = e /\ k' \in 1 .. Len(fmt) + 1
    BY <2>1, <2>2, AtTheEnd
  <2>4. TakesItsArguments'
    BY <2>1, <2>2, <2>3 DEF ScanInv, TakesItsArguments
  <2>5. (\A x \in Starts(fmt)[k - 1] :
           ~ConversionAt(fmt, x).star /\ ConversionAt(fmt, x).end < k)'
    BY <2>1, <2>2, <2>3
  <2>. QED  BY <2>2, <2>3, <2>4, <2>5 DEF ScanInv
<1>4. CASE GiveUp \/ Finish \/ UNCHANGED fvars
  <2>1. UNCHANGED <<fmt, k, args, given, last>> /\ vpc' \in {"scan", "done"}
    BY <1>4 DEF GiveUp, Finish, fvars, ScanInv
  <2>. QED  BY <2>1 DEF ScanInv, TakesItsArguments
<1>5. CASE FormatChar \/ FormatString \/ FormatNumber
  <2>1. \E w : InSpec /\ ~Conversion.star /\ Conversion.type \in Types /\ Emit(w)
    BY <1>5 DEF FormatChar, FormatString, FormatNumber, Types
  <2>. QED  BY <2>1, <1>2
<1>. QED  BY <1>1, <1>3, <1>4, <1>5 DEF FormatNext

(* Each conversion takes the next argument, and nothing else takes one,    *)
(* for every format and as many arguments as it asks for.                  *)
THEOREM ArgumentsInOrder == FormatSpec => []TakesItsArguments
<1>1. FormatInit => ScanInv
  BY ScanStarts
<1>2. ScanInv /\ [FormatNext]_fvars => ScanInv'
  BY ScanKept
<1>3. ScanInv => TakesItsArguments
  BY DEF ScanInv
<1>. QED  BY <1>1, <1>2, <1>3, PTL DEF FormatSpec

-----------------------------------------------------------------------------
(* Characters, and sequences of them.                                      *)
LEMMA DigitNames ==
  /\ DigitChars[1] = "0" /\ DigitChars[2] = "1" /\ DigitChars[3] = "2" /\ DigitChars[4] = "3"
  /\ DigitChars[5] = "4" /\ DigitChars[6] = "5" /\ DigitChars[7] = "6" /\ DigitChars[8] = "7"
  /\ DigitChars[9] = "8" /\ DigitChars[10] = "9" /\ DigitChars[11] = "A" /\ DigitChars[12] = "B"
  /\ DigitChars[13] = "C" /\ DigitChars[14] = "D" /\ DigitChars[15] = "E" /\ DigitChars[16] = "F"
BY DEF DigitChars

LEMMA Characters ==
  /\ \A d \in 1 .. 16, e \in 1 .. 16 : DigitChars[d] = DigitChars[e] => d = e
  /\ " " \notin HexDigits /\ "+" \notin HexDigits /\ "X" \notin HexDigits
<1>1. \A d \in 1 .. 16, e \in 1 .. 16 : DigitChars[d] = DigitChars[e] => d = e
  BY DigitNames
<1>2. \A d \in 1 .. 16 :
        DigitChars[d] \in {"0", "1", "2", "3", "4", "5", "6", "7", "8", "9",
                           "A", "B", "C", "D", "E", "F"}
  BY DigitNames
<1>3. " " \notin HexDigits /\ "+" \notin HexDigits /\ "X" \notin HexDigits
  BY <1>2 DEF HexDigits
<1>. QED  BY <1>1, <1>3

LEMMA DigitValue ==
  ASSUME NEW d \in 0 .. 15
  PROVE  DigitChars[d + 1] \in HexDigits /\ Value(DigitChars[d + 1]) = d
<1>1. d + 1 \in 1 .. 16
  OBVIOUS
<1>2. \A e \in 0 .. 15 : DigitChars[e + 1] = DigitChars[d + 1] => e = d
  <2>1. ASSUME NEW e \in 0 .. 15, DigitChars[e + 1] = DigitChars[d + 1] PROVE e = d
    <3>1. e + 1 \in 1 .. 16
      OBVIOUS
    <3>2. e + 1 = d + 1
      BY <1>1, <2>1, <3>1, Characters
    <3>. QED  BY <3>2
  <2>. QED  BY <2>1
<1>. QED  BY <1>1, <1>2 DEF Value, HexDigits

LEMMA ZeroDigit == "0" \in HexDigits /\ Value("0") = 0
<1>1. 0 \in 0 .. 15 /\ 0 + 1 = 1
  OBVIOUS
<1>2. DigitChars[1] \in HexDigits /\ Value(DigitChars[1]) = 0
  BY <1>1, DigitValue
<1>3. DigitChars[1] = "0"
  BY DigitNames
<1>. QED  BY <1>2, <1>3

LEMMA ValueNat ==
  ASSUME NEW c \in HexDigits
  PROVE  Value(c) \in 0 .. 15
<1>1. PICK d \in 1 .. 16 : c = DigitChars[d]
  BY DEF HexDigits
<1>2. d - 1 \in 0 .. 15 /\ (d - 1) + 1 = d
  OBVIOUS
<1>3. Value(DigitChars[(d - 1) + 1]) = d - 1
  BY <1>2, DigitValue
<1>. QED  BY <1>1, <1>2, <1>3

(* A set that holds the empty sequence, and with each its extensions.      *)
LEMMA SeqInduct ==
  ASSUME NEW C, NEW T, <<>> \in T,
         \A s \in Seq(C), c \in C : s \in T => Append(s, c) \in T
  PROVE  \A s \in Seq(C) : s \in T
<1>. DEFINE S == {n \in Nat : \A s \in Seq(C) : Len(s) = n => s \in T}
<1>1. 0 \in S
  <2>1. ASSUME NEW s \in Seq(C), Len(s) = 0 PROVE s \in T
    <3>1. s = <<>>
      BY <2>1
    <3>. QED  BY <3>1
  <2>. QED  BY <2>1
<1>2. ASSUME NEW n \in Nat, n \in S PROVE n + 1 \in S
  <2>1. ASSUME NEW s \in Seq(C), Len(s) = n + 1 PROVE s \in T
    <3>1. s # <<>>
      BY <2>1
    <3>2. PICK r \in Seq(C), c \in C : s = Append(r, c)
      BY <3>1, SequenceEmptyOrAppend
    <3>3. Len(r) = n
      <4>1. Len(Append(r, c)) = Len(r) + 1
        BY AppendProperties
      <4>. QED  BY <2>1, <3>2, <4>1
    <3>4. r \in T
      BY <1>2, <3>3
    <3>. QED  BY <3>2, <3>4
  <2>. QED  BY <2>1
<1>. HIDE DEF S
<1>3. \A n \in Nat : n \in S
  BY <1>1, <1>2, Induct
<1>4. ASSUME NEW s \in Seq(C) PROVE s \in T
  <2>1. Len(s) \in Nat
    OBVIOUS
  <2>. QED  BY <1>3, <2>1 DEF S
<1>. QED  BY <1>4

-----------------------------------------------------------------------------
(* Reading a number.                                                       *)
Read(b, m, c) == IF c \in HexDigits THEN b * m + Value(c) ELSE m

IsReading(h, m, b, s) ==
  /\ h \in [0 .. m -> Nat] /\ h[0] = 0
  /\ \A n \in 1 .. m : h[n] = Read(b, h[n - 1], s[n])

LEMMA ReadNat ==
  ASSUME NEW b \in Nat, NEW m \in Nat, NEW c
  PROVE  Read(b, m, c) \in Nat
<1>1. CASE c \in HexDigits
  <2>1. Value(c) \in Nat
    BY <1>1, ValueNat
  <2>2. b * m \in Nat
    OBVIOUS
  <2>. QED  BY <1>1, <2>1, <2>2 DEF Read
<1>2. CASE c \notin HexDigits
  BY <1>2 DEF Read
<1>. QED  BY <1>1, <1>2

LEMMA ReadingExists ==
  ASSUME NEW b \in Nat, NEW s, NEW m \in Nat
  PROVE  \E h : IsReading(h, m, b, s)
<1>. DEFINE S == {n \in Nat : \E h : IsReading(h, n, b, s)}
<1>1. 0 \in S
  <2>1. IsReading([n \in 0 .. 0 |-> 0], 0, b, s)
    BY DEF IsReading
  <2>. QED  BY <2>1
<1>2. ASSUME NEW n \in Nat, n \in S PROVE n + 1 \in S
  <2>1. PICK h : IsReading(h, n, b, s)
    BY <1>2
  <2>. DEFINE v == Read(b, h[n], s[n + 1])
              g == [x \in 0 .. n + 1 |-> IF x = n + 1 THEN v ELSE h[x]]
  <2>2. v \in Nat
    <3>1. h[n] \in Nat
      BY <2>1 DEF IsReading
    <3>. QED  BY <3>1, ReadNat
  <2>3. g \in [0 .. n + 1 -> Nat] /\ g[0] = 0
    <3>. HIDE DEF v
    <3>. QED  BY <2>1, <2>2 DEF IsReading
  <2>4. ASSUME NEW x \in 1 .. n + 1 PROVE g[x] = Read(b, g[x - 1], s[x])
    <3>1. CASE x = n + 1
      <4>1. g[x] = v /\ g[x - 1] = h[n]
        BY <3>1
      <4>. QED  BY <3>1, <4>1
    <3>2. CASE x # n + 1
      <4>1. x \in 1 .. n /\ g[x] = h[x] /\ g[x - 1] = h[x - 1]
        BY <3>2
      <4>. QED  BY <4>1, <2>1 DEF IsReading
    <3>. QED  BY <3>1, <3>2
  <2>. HIDE DEF g
  <2>5. IsReading(g, n + 1, b, s)
    BY <2>3, <2>4 DEF IsReading
  <2>. QED  BY <2>5
<1>. HIDE DEF S
<1>3. m \in S
  BY <1>1, <1>2, Induct
<1>. QED  BY <1>3 DEF S

LEMMA ReadingDef ==
  ASSUME NEW b \in Nat, NEW s, Len(s) \in Nat
  PROVE  \E h : IsReading(h, Len(s), b, s) /\ ReadIn(b, s) = h[Len(s)]
<1>. DEFINE body(h) == [j \in 0 .. Len(s) |->
       IF j = 0 THEN 0
       ELSE IF s[j] \in HexDigits THEN b * h[j - 1] + Value(s[j])
       ELSE h[j - 1]]
            r == CHOOSE h : h = body(h)
<1>1. PICK h : IsReading(h, Len(s), b, s)
  BY ReadingExists
<1>2. h = body(h)
  <2>1. ASSUME NEW n \in 0 .. Len(s) PROVE h[n] = body(h)[n]
    <3>1. CASE n = 0
      BY <1>1, <3>1 DEF IsReading
    <3>2. CASE n # 0
      <4>1. n \in 1 .. Len(s)
        BY <3>2
      <4>2. h[n] = Read(b, h[n - 1], s[n])
        BY <1>1, <4>1 DEF IsReading
      <4>. QED  BY <3>2, <4>2 DEF Read
    <3>. QED  BY <3>1, <3>2
  <2>2. h = [n \in 0 .. Len(s) |-> h[n]]
    BY <1>1 DEF IsReading
  <2>. QED  BY <2>1, <2>2
<1>3. r = body(r)
  BY <1>2
<1>4. ReadIn(b, s) = r[Len(s)]
  BY DEF ReadIn
<1>5. r[0] = 0
  <2>1. 0 \in 0 .. Len(s)
    OBVIOUS
  <2>. HIDE DEF r
  <2>. QED  BY <1>3, <2>1
<1>6. ASSUME NEW n \in 1 .. Len(s) PROVE r[n] = Read(b, r[n - 1], s[n])
  <2>1. n \in 0 .. Len(s) /\ n # 0
    OBVIOUS
  <2>. HIDE DEF r
  <2>. QED  BY <1>3, <2>1 DEF Read
<1>. DEFINE S == {n \in Nat : n <= Len(s) => r[n] \in Nat}
<1>. HIDE DEF r
<1>7. 0 \in S
  BY <1>5
<1>8. ASSUME NEW n \in Nat, n \in S PROVE n + 1 \in S
  <2>1. CASE n + 1 <= Len(s)
    <3>1. n + 1 \in 1 .. Len(s) /\ (n + 1) - 1 = n /\ r[n] \in Nat
      BY <1>8, <2>1
    <3>. QED  BY <1>6, <3>1, ReadNat
  <2>2. CASE ~(n + 1 <= Len(s))
    BY <2>2
  <2>. QED  BY <2>1, <2>2
<1>. HIDE DEF S
<1>9. \A n \in 0 .. Len(s) : r[n] \in Nat
  <2>1. \A n \in Nat : n \in S
    BY <1>7, <1>8, Induct
  <2>. QED  BY <2>1 DEF S
<1>10. r \in [0 .. Len(s) -> Nat]
  BY <1>3, <1>9
<1>11. IsReading(r, Len(s), b, s)
  BY <1>5, <1>6, <1>10 DEF IsReading
<1>. QED  BY <1>4, <1>11

LEMMA ReadEmpty ==
  ASSUME NEW b \in Nat
  PROVE  ReadIn(b, <<>>) = 0
<1>1. Len(<<>>) = 0
  OBVIOUS
<1>2. PICK h : IsReading(h, 0, b, <<>>) /\ ReadIn(b, <<>>) = h[0]
  BY <1>1, ReadingDef
<1>. QED  BY <1>2 DEF IsReading

LEMMA ReadAppend ==
  ASSUME NEW b \in Nat, NEW C, NEW s \in Seq(C), NEW c \in C
  PROVE  ReadIn(b, s) \in Nat /\ ReadIn(b, Append(s, c)) = Read(b, ReadIn(b, s), c)
<1>. DEFINE t == Append(s, c)
            l == Len(s)
<1>1. /\ l \in Nat /\ t \in Seq(C) /\ Len(t) = l + 1
      /\ t[l + 1] = c /\ \A x \in 1 .. l : t[x] = s[x]
  <2>1. /\ Append(s, c) \in Seq(C) /\ Len(Append(s, c)) = Len(s) + 1
        /\ Append(s, c)[Len(s) + 1] = c
        /\ \A x \in 1 .. Len(s) : Append(s, c)[x] = s[x]
    BY AppendProperties
  <2>. QED  BY <2>1
<1>2. PICK h : IsReading(h, l, b, s) /\ ReadIn(b, s) = h[l]
  BY <1>1, ReadingDef
<1>. HIDE DEF t, l
<1>3. PICK g : IsReading(g, l + 1, b, t) /\ ReadIn(b, t) = g[l + 1]
  <2>1. Len(t) \in Nat
    BY <1>1
  <2>2. \E g : IsReading(g, Len(t), b, t) /\ ReadIn(b, t) = g[Len(t)]
    BY <2>1, ReadingDef
  <2>. QED  BY <1>1, <2>2
<1>. DEFINE S == {n \in Nat : n <= l => g[n] = h[n]}
<1>4. 0 \in S
  BY <1>2, <1>3 DEF IsReading
<1>5. ASSUME NEW n \in Nat, n \in S PROVE n + 1 \in S
  <2>1. CASE n + 1 <= l
    <3>1. n + 1 \in 1 .. l /\ n + 1 \in 1 .. l + 1 /\ (n + 1) - 1 = n /\ g[n] = h[n]
      BY <1>1, <1>5, <2>1
    <3>2. g[n + 1] = Read(b, g[n], t[n + 1]) /\ h[n + 1] = Read(b, h[n], s[n + 1])
      BY <1>2, <1>3, <3>1 DEF IsReading
    <3>3. t[n + 1] = s[n + 1]
      BY <1>1, <3>1
    <3>. QED  BY <3>1, <3>2, <3>3
  <2>2. CASE ~(n + 1 <= l)
    BY <2>2
  <2>. QED  BY <2>1, <2>2
<1>. HIDE DEF S
<1>6. g[l] = h[l]
  <2>1. l \in S
    BY <1>1, <1>4, <1>5, Induct
  <2>. QED  BY <1>1, <2>1 DEF S
<1>7. l + 1 \in 1 .. l + 1 /\ (l + 1) - 1 = l /\ l \in 0 .. l
  BY <1>1
<1>8. g[l + 1] = Read(b, g[l], t[l + 1])
  BY <1>3, <1>7 DEF IsReading
<1>9. h[l] \in Nat
  BY <1>2, <1>7 DEF IsReading
<1>. QED  BY <1>1, <1>2, <1>3, <1>6, <1>8, <1>9 DEF t

(* Characters that are no digits, and zeros in front, do not count.        *)
LEMMA AppendElements ==
  ASSUME NEW C, NEW s \in Seq(C), NEW c \in C
  PROVE  /\ Append(s, c) \in Seq(C) /\ Len(Append(s, c)) = Len(s) + 1 /\ Len(s) \in Nat
         /\ Append(s, c)[Len(s) + 1] = c
         /\ \A x \in 1 .. Len(s) : Append(s, c)[x] = s[x]
BY AppendProperties

LEMMA ConcatAppend ==
  ASSUME NEW C, NEW s \in Seq(C), NEW t \in Seq(C), NEW c \in C
  PROVE  s \o t \in Seq(C) /\ s \o Append(t, c) = Append(s \o t, c)
<1>1. <<c>> \in Seq(C) /\ Append(t, c) = t \o <<c>>
  BY AppendIsConcat
<1>2. s \o t \in Seq(C)
  BY ConcatProperties
<1>3. Append(s \o t, c) = (s \o t) \o <<c>>
  BY <1>2, AppendIsConcat
<1>4. (s \o t) \o <<c>> = s \o (t \o <<c>>)
  BY <1>1, ConcatAssociative
<1>. QED  BY <1>1, <1>2, <1>3, <1>4

LEMMA ReadPlain ==
  ASSUME NEW b \in Nat, NEW C, NEW s \in Seq(C), NEW t \in Seq(C),
         \A x \in 1 .. Len(t) : t[x] \notin HexDigits
  PROVE  ReadIn(b, s \o t) = ReadIn(b, s)
<1>. DEFINE P(r) == \A x \in 1 .. Len(r) : r[x] \notin HexDigits
            T == {r \in Seq(C) : P(r) => ReadIn(b, s \o r) = ReadIn(b, s)}
<1>1. <<>> \in T
  BY ConcatEmptySeq
<1>2. ASSUME NEW r \in Seq(C), NEW c \in C, r \in T PROVE Append(r, c) \in T
  <2>1. Append(r, c) \in Seq(C)
    BY AppendElements
  <2>2. ASSUME P(Append(r, c)) PROVE ReadIn(b, s \o Append(r, c)) = ReadIn(b, s)
    <3>1. P(r) /\ c \notin HexDigits
      BY <2>2, AppendElements
    <3>2. s \o r \in Seq(C) /\ s \o Append(r, c) = Append(s \o r, c)
      BY ConcatAppend
    <3>3. ReadIn(b, Append(s \o r, c)) = Read(b, ReadIn(b, s \o r), c)
      BY <3>2, ReadAppend
    <3>. QED  BY <1>2, <3>1, <3>2, <3>3 DEF Read
  <2>. QED  BY <2>1, <2>2
<1>. HIDE DEF T
<1>3. t \in T
  BY <1>1, <1>2, SeqInduct
<1>. QED  BY <1>3 DEF T

LEMMA ReadZeros ==
  ASSUME NEW b \in Nat, NEW C, NEW t \in Seq(C),
         \A x \in 1 .. Len(t) : t[x] \in HexDigits => t[x] = "0"
  PROVE  ReadIn(b, t) = 0
<1>. DEFINE P(r) == \A x \in 1 .. Len(r) : r[x] \in HexDigits => r[x] = "0"
            T == {r \in Seq(C) : P(r) => ReadIn(b, r) = 0}
<1>1. <<>> \in T
  BY ReadEmpty
<1>2. ASSUME NEW r \in Seq(C), NEW c \in C, r \in T PROVE Append(r, c) \in T
  <2>1. Append(r, c) \in Seq(C)
    BY AppendElements
  <2>2. ASSUME P(Append(r, c)) PROVE ReadIn(b, Append(r, c)) = 0
    <3>1. P(r) /\ (c \in HexDigits => c = "0")
      BY <2>2, AppendElements
    <3>2. ReadIn(b, r) = 0
      BY <1>2, <3>1
    <3>3. ReadIn(b, Append(r, c)) = Read(b, 0, c)
      BY <3>2, ReadAppend
    <3>. QED  BY <3>1, <3>3, ZeroDigit DEF Read
  <2>. QED  BY <2>1, <2>2
<1>. HIDE DEF T
<1>3. t \in T
  BY <1>1, <1>2, SeqInduct
<1>. QED  BY <1>3 DEF T

LEMMA ReadSkip ==
  ASSUME NEW b \in Nat, NEW C, NEW s \in Seq(C), NEW t \in Seq(C), ReadIn(b, s) = 0
  PROVE  ReadIn(b, s \o t) = ReadIn(b, t)
<1>. DEFINE T == {r \in Seq(C) : ReadIn(b, s \o r) = ReadIn(b, r)}
<1>1. <<>> \in T
  BY ConcatEmptySeq, ReadEmpty
<1>2. ASSUME NEW r \in Seq(C), NEW c \in C, r \in T PROVE Append(r, c) \in T
  <2>1. Append(r, c) \in Seq(C)
    BY AppendElements
  <2>2. s \o r \in Seq(C) /\ s \o Append(r, c) = Append(s \o r, c)
    BY ConcatAppend
  <2>3. ReadIn(b, Append(s \o r, c)) = Read(b, ReadIn(b, s \o r), c)
    BY <2>2, ReadAppend
  <2>4. ReadIn(b, Append(r, c)) = Read(b, ReadIn(b, r), c)
    BY ReadAppend
  <2>5. ReadIn(b, s \o r) = ReadIn(b, r)
    BY <1>2
  <2>6. ReadIn(b, s \o Append(r, c)) = ReadIn(b, Append(r, c))
    BY <2>2, <2>3, <2>4, <2>5
  <2>. QED  BY <2>1, <2>6
<1>. HIDE DEF T
<1>3. t \in T
  BY <1>1, <1>2, SeqInduct
<1>. QED  BY <1>3 DEF T

-----------------------------------------------------------------------------
(* The digits of a number.                                                 *)
Digit(n) == DigitChars[n + 1]

IsNumeral(h, m, base) ==
  /\ h \in [0 .. m -> Seq(HexDigits)]
  /\ \A n \in 0 .. m : h[n] = IF n < base THEN <<Digit(n)>>
                              ELSE Append(h[n \div base], Digit(n % base))

LEMMA Division ==
  ASSUME NEW base \in {10, 16}, NEW n \in Nat
  PROVE  /\ n % base \in 0 .. base - 1 /\ n % base \in 0 .. 15
         /\ n \div base \in Nat /\ base * (n \div base) + (n % base) = n
         /\ n >= base => n \div base < n
<1>1. CASE base = 10
  <2>1. n % 10 \in 0 .. 9 /\ n \div 10 \in Nat /\ 10 * (n \div 10) + (n % 10) = n
    OBVIOUS
  <2>2. n >= 10 => n \div 10 < n
    BY <2>1
  <2>. QED  BY <1>1, <2>1, <2>2
<1>2. CASE base = 16
  <2>1. n % 16 \in 0 .. 15 /\ n \div 16 \in Nat /\ 16 * (n \div 16) + (n % 16) = n
    OBVIOUS
  <2>2. n >= 16 => n \div 16 < n
    BY <2>1
  <2>. QED  BY <1>2, <2>1, <2>2
<1>. QED  BY <1>1, <1>2

LEMMA NextNumeral ==
  ASSUME NEW base \in {10, 16}, NEW m \in Nat, NEW h,
         \A n \in 0 .. m - 1 : h[n] \in Seq(HexDigits)
  PROVE  (IF m < base THEN <<Digit(m)>> ELSE Append(h[m \div base], Digit(m % base)))
           \in Seq(HexDigits)
<1>1. CASE m < base
  <2>1. m \in 0 .. 15
    BY <1>1
  <2>2. Digit(m) \in HexDigits
    BY <2>1, DigitValue DEF Digit
  <2>. QED  BY <1>1, <2>2
<1>2. CASE ~(m < base)
  <2>1. m \div base \in 0 .. m - 1 /\ m % base \in 0 .. 15
    BY <1>2, Division
  <2>2. Digit(m % base) \in HexDigits
    BY <2>1, DigitValue DEF Digit
  <2>3. h[m \div base] \in Seq(HexDigits)
    BY <2>1
  <2>. QED  BY <1>2, <2>2, <2>3, AppendElements
<1>. QED  BY <1>1, <1>2

LEMMA NumeralExists ==
  ASSUME NEW base \in {10, 16}, NEW m \in Nat
  PROVE  \E h : IsNumeral(h, m, base)
<1>. DEFINE S == {n \in Nat : \E h : IsNumeral(h, n, base)}
<1>1. 0 \in S
  <2>1. Digit(0) \in HexDigits
    BY DigitValue DEF Digit
  <2>2. IsNumeral([n \in 0 .. 0 |-> <<Digit(0)>>], 0, base)
    BY <2>1 DEF IsNumeral
  <2>. QED  BY <2>2
<1>2. ASSUME NEW n \in Nat, n \in S PROVE n + 1 \in S
  <2>1. PICK h : IsNumeral(h, n, base)
    BY <1>2
  <2>. DEFINE v == IF n + 1 < base THEN <<Digit(n + 1)>>
                   ELSE Append(h[(n + 1) \div base], Digit((n + 1) % base))
              g == [x \in 0 .. n + 1 |-> IF x = n + 1 THEN v ELSE h[x]]
  <2>2. \A x \in 0 .. (n + 1) - 1 : h[x] \in Seq(HexDigits)
    BY <2>1 DEF IsNumeral
  <2>3. v \in Seq(HexDigits)
    <3>1. n + 1 \in Nat
      OBVIOUS
    <3>. QED  BY <2>2, <3>1, NextNumeral
  <2>4. g \in [0 .. n + 1 -> Seq(HexDigits)]
    <3>. HIDE DEF v
    <3>. QED  BY <2>2, <2>3
  <2>5. ASSUME NEW x \in 0 .. n + 1
        PROVE  g[x] = IF x < base THEN <<Digit(x)>>
                      ELSE Append(g[x \div base], Digit(x % base))
    <3>1. x >= base => x \div base \in 0 .. n + 1 /\ x \div base # n + 1
                       /\ x \div base \in 0 .. x - 1
      BY Division
    <3>2. x >= base => g[x \div base] = h[x \div base]
      <4>. HIDE DEF v
      <4>. QED  BY <3>1
    <3>3. CASE x = n + 1
      <4>1. g[x] = v
        BY <3>3
      <4>. HIDE DEF g
      <4>. QED  BY <3>2, <3>3, <4>1
    <3>4. CASE x # n + 1
      <4>1. x \in 0 .. n /\ g[x] = h[x]
        BY <3>4
      <4>2. h[x] = IF x < base THEN <<Digit(x)>>
                   ELSE Append(h[x \div base], Digit(x % base))
        BY <2>1, <4>1 DEF IsNumeral
      <4>. HIDE DEF g
      <4>. QED  BY <3>2, <4>1, <4>2
    <3>. QED  BY <3>3, <3>4
  <2>. HIDE DEF g
  <2>6. IsNumeral(g, n + 1, base)
    BY <2>4, <2>5 DEF IsNumeral
  <2>. QED  BY <2>6
<1>. HIDE DEF S
<1>3. m \in S
  BY <1>1, <1>2, Induct
<1>. QED  BY <1>3 DEF S

LEMMA NumeralDef ==
  ASSUME NEW base \in {10, 16}, NEW m \in Nat
  PROVE  \E h : IsNumeral(h, m, base) /\ Numeral(m, base) = h[m]
<1>. DEFINE body(h) == [n \in 0 .. m |->
              IF n < base THEN <<DigitChars[n + 1]>>
              ELSE Append(h[n \div base], DigitChars[(n % base) + 1])]
            r == CHOOSE h : h = body(h)
<1>1. PICK h : IsNumeral(h, m, base)
  BY NumeralExists
<1>2. h = body(h)
  <2>1. ASSUME NEW n \in 0 .. m PROVE h[n] = body(h)[n]
    BY <1>1 DEF IsNumeral, Digit
  <2>2. h = [n \in 0 .. m |-> h[n]]
    BY <1>1 DEF IsNumeral
  <2>. QED  BY <2>1, <2>2
<1>3. r = body(r)
  BY <1>2
<1>4. Numeral(m, base) = r[m]
  BY DEF Numeral
<1>5. ASSUME NEW n \in 0 .. m
      PROVE  r[n] = IF n < base THEN <<Digit(n)>>
                    ELSE Append(r[n \div base], Digit(n % base))
  <2>. HIDE DEF r
  <2>. QED  BY <1>3 DEF Digit
<1>. DEFINE S == {n \in Nat : \A x \in 0 .. n : x <= m => r[x] \in Seq(HexDigits)}
<1>. HIDE DEF r
<1>6. ASSUME NEW n \in Nat, n <= m, \A x \in 0 .. n - 1 : r[x] \in Seq(HexDigits)
      PROVE  r[n] \in Seq(HexDigits)
  <2>1. n \in 0 .. m
    BY <1>6
  <2>2. (IF n < base THEN <<Digit(n)>> ELSE Append(r[n \div base], Digit(n % base)))
          \in Seq(HexDigits)
    BY <1>6, NextNumeral
  <2>. QED  BY <1>5, <2>1, <2>2
<1>7. 0 \in S
  <2>1. r[0] \in Seq(HexDigits)
    BY <1>6
  <2>. QED  BY <2>1
<1>8. ASSUME NEW n \in Nat, n \in S PROVE n + 1 \in S
  <2>1. ASSUME NEW x \in 0 .. n + 1, x <= m PROVE r[x] \in Seq(HexDigits)
    <3>1. CASE x \in 0 .. n
      BY <1>8, <2>1, <3>1
    <3>2. CASE x = n + 1
      <4>1. n + 1 \in Nat /\ n + 1 <= m /\ \A y \in 0 .. (n + 1) - 1 : r[y] \in Seq(HexDigits)
        BY <1>8, <2>1, <3>2
      <4>. QED  BY <1>6, <3>2, <4>1
    <3>. QED  BY <3>1, <3>2
  <2>. QED  BY <2>1
<1>. HIDE DEF S
<1>9. m \in S
  BY <1>7, <1>8, Induct
<1>10. r = [n \in 0 .. m |-> r[n]]
  BY <1>3
<1>11. r \in [0 .. m -> Seq(HexDigits)]
  BY <1>9, <1>10 DEF S
<1>12. IsNumeral(r, m, base)
  BY <1>5, <1>11 DEF IsNumeral
<1>. QED  BY <1>4, <1>12

(* The digits written of a number read back as the number.                 *)
LEMMA NumeralReads ==
  ASSUME NEW base \in {10, 16}, NEW m \in Nat
  PROVE  /\ Numeral(m, base) \in Seq(HexDigits) /\ Len(Numeral(m, base)) \in Nat \ {0}
         /\ ReadIn(base, Numeral(m, base)) = m
<1>1. PICK h : IsNumeral(h, m, base) /\ Numeral(m, base) = h[m]
  BY NumeralDef
<1>. DEFINE Good(n) == /\ h[n] \in Seq(HexDigits) /\ Len(h[n]) \in Nat \ {0}
                       /\ ReadIn(base, h[n]) = n
            S == {n \in Nat : \A x \in 0 .. n : x <= m => Good(x)}
<1>2. ASSUME NEW n \in Nat, n <= m, \A x \in 0 .. n - 1 : Good(x)
      PROVE  Good(n)
  <2>0. n \in 0 .. m /\ base \in Nat
    BY <1>2
  <2>1. CASE n < base
    <3>1. n \in 0 .. 15
      BY <2>1
    <3>2. Digit(n) \in HexDigits /\ Value(Digit(n)) = n
      BY <3>1, DigitValue DEF Digit
    <3>3. h[n] = <<Digit(n)>>
      BY <1>1, <2>0, <2>1 DEF IsNumeral
    <3>4. h[n] = Append(<<>>, Digit(n)) /\ h[n] \in Seq(HexDigits) /\ Len(h[n]) = 1
      BY <3>2, <3>3
    <3>5. <<>> \in Seq(HexDigits)
      OBVIOUS
    <3>6. ReadIn(base, h[n]) = Read(base, 0, Digit(n))
      <4>1. PICK z \in Seq(HexDigits) : z = <<>>
        BY <3>5
      <4>2. ReadIn(base, Append(z, Digit(n))) = Read(base, ReadIn(base, z), Digit(n))
        BY <2>0, <3>2, ReadAppend
      <4>3. ReadIn(base, z) = 0
        BY <2>0, <4>1, ReadEmpty
      <4>. QED  BY <3>4, <4>1, <4>2, <4>3
    <3>. QED  BY <2>0, <3>2, <3>4, <3>6 DEF Read
  <2>2. CASE ~(n < base)
    <3>. DEFINE d == n \div base
                e == n % base
    <3>1. d \in 0 .. n - 1 /\ d \in Nat /\ e \in 0 .. 15 /\ base * d + e = n
      BY <2>2, Division
    <3>. HIDE DEF d, e
    <3>2. Digit(e) \in HexDigits /\ Value(Digit(e)) = e
      BY <3>1, DigitValue DEF Digit
    <3>3. h[n] = Append(h[d], Digit(e))
      BY <1>1, <2>0, <2>2 DEF IsNumeral, d, e
    <3>4. h[d] \in Seq(HexDigits) /\ Len(h[d]) \in Nat \ {0} /\ ReadIn(base, h[d]) = d
      BY <1>2, <3>1
    <3>. DEFINE s == h[d]
    <3>5. ReadIn(base, Append(s, Digit(e))) = Read(base, ReadIn(base, s), Digit(e))
      <4>1. s \in Seq(HexDigits)
        BY <3>4
      <4>. HIDE DEF s
      <4>. QED  BY <2>0, <3>2, <4>1, ReadAppend
    <3>6. Read(base, d, Digit(e)) = n
      BY <3>1, <3>2 DEF Read
    <3>7. h[n] \in Seq(HexDigits) /\ Len(h[n]) \in Nat \ {0}
      <4>1. s \in Seq(HexDigits) /\ Len(s) \in Nat \ {0}
        BY <3>4
      <4>2. h[n] = Append(s, Digit(e))
        BY <3>3
      <4>. HIDE DEF s
      <4>. QED  BY <3>2, <4>1, <4>2, AppendElements
    <3>. QED  BY <3>3, <3>4, <3>5, <3>6, <3>7
  <2>. QED  BY <2>1, <2>2
<1>. HIDE DEF Good
<1>3. 0 \in S
  <2>1. Good(0)
    BY <1>2
  <2>. QED  BY <2>1
<1>4. ASSUME NEW n \in Nat, n \in S PROVE n + 1 \in S
  <2>1. ASSUME NEW x \in 0 .. n + 1, x <= m PROVE Good(x)
    <3>1. CASE x \in 0 .. n
      BY <1>4, <2>1, <3>1
    <3>2. CASE x = n + 1
      <4>1. n + 1 \in Nat /\ n + 1 <= m /\ \A y \in 0 .. (n + 1) - 1 : Good(y)
        BY <1>4, <2>1, <3>2
      <4>. QED  BY <1>2, <3>2, <4>1
    <3>. QED  BY <3>1, <3>2
  <2>. QED  BY <2>1
<1>. HIDE DEF S
<1>5. m \in S
  BY <1>3, <1>4, Induct
<1>6. Good(m)
  BY <1>5 DEF S
<1>. QED  BY <1>1, <1>6 DEF Good

-----------------------------------------------------------------------------
(* A field: blanks, sign and prefix, zeros and digits.                     *)
LEMMA Repeated ==
  ASSUME NEW c \in Letters, NEW n \in Int
  PROVE  /\ Rep(c, n) \in Seq(Letters) /\ Len(Rep(c, n)) = IF n > 0 THEN n ELSE 0
         /\ \A x \in 1 .. Len(Rep(c, n)) : Rep(c, n)[x] = c
<1>1. CASE n > 0
  BY <1>1 DEF Rep
<1>2. CASE ~(n > 0)
  <2>1. Rep(c, n) = <<>>
    BY <1>2 DEF Rep
  <2>. QED  BY <1>2, <2>1
<1>. QED  BY <1>1, <1>2

LEMMA OwnLetters == " " \in Letters /\ "0" \in Letters /\ "+" \in Letters /\ "X" \in Letters
                    /\ "0" # " " /\ HexDigits \subseteq Letters /\ STRING \subseteq Letters
BY ZeroDigit DEF Letters

Joined(C, w, s, t, u) ==
  /\ w \in Seq(C) /\ Len(w) = Len(s) + Len(t) + Len(u)
  /\ \A x \in 1 .. Len(w) :
       w[x] = IF x <= Len(s) THEN s[x]
              ELSE IF x <= Len(s) + Len(t) THEN t[x - Len(s)]
              ELSE u[x - (Len(s) + Len(t))]

LEMMA ThreeParts ==
  ASSUME NEW C, NEW s \in Seq(C), NEW t \in Seq(C), NEW u \in Seq(C)
  PROVE  Joined(C, s \o t \o u, s, t, u)
<1>. DEFINE w == s \o t \o u
<1>. DEFINE v == s \o t
<1>1. /\ v \in Seq(C) /\ Len(v) = Len(s) + Len(t)
      /\ \A x \in 1 .. Len(s) + Len(t) :
           v[x] = IF x <= Len(s) THEN s[x] ELSE t[x - Len(s)]
  BY ConcatProperties
<1>2. Len(s) \in Nat /\ Len(t) \in Nat /\ Len(u) \in Nat
  OBVIOUS
<1>. HIDE DEF v
<1>3. /\ w \in Seq(C) /\ Len(w) = Len(v) + Len(u)
      /\ \A x \in 1 .. Len(v) + Len(u) :
           w[x] = IF x <= Len(v) THEN v[x] ELSE u[x - Len(v)]
  <2>1. v \in Seq(C)
    BY <1>1
  <2>2. /\ v \o u \in Seq(C) /\ Len(v \o u) = Len(v) + Len(u)
        /\ \A x \in 1 .. Len(v) + Len(u) :
             (v \o u)[x] = IF x <= Len(v) THEN v[x] ELSE u[x - Len(v)]
    BY <2>1, ConcatProperties, Zenon
  <2>3. w = v \o u
    BY Zenon DEF v, w
  <2>. HIDE DEF w
  <2>. QED  BY <2>2, <2>3, Zenon
<1>. HIDE DEF w
<1>4. ASSUME NEW x \in 1 .. Len(w)
      PROVE  w[x] = IF x <= Len(s) THEN s[x]
                    ELSE IF x <= Len(s) + Len(t) THEN t[x - Len(s)]
                    ELSE u[x - (Len(s) + Len(t))]
  <2>1. x \in 1 .. Len(v) + Len(u)
    BY <1>3
  <2>2. CASE x <= Len(v)
    <3>1. w[x] = v[x] /\ x \in 1 .. Len(s) + Len(t)
      BY <1>1, <1>2, <1>3, <2>1, <2>2
    <3>. QED  BY <1>1, <1>2, <2>2, <3>1
  <2>3. CASE ~(x <= Len(v))
    <3>1. w[x] = u[x - Len(v)]
      BY <1>3, <2>1, <2>3
    <3>. QED  BY <1>1, <1>2, <2>3, <3>1
  <2>. QED  BY <2>2, <2>3
<1>5. Joined(C, w, s, t, u)
  BY <1>1, <1>3, <1>4 DEF Joined
<1>. QED  BY <1>5 DEF w

LEMMA OneLetter ==
  ASSUME NEW c \in Letters
  PROVE  <<c>> \in Seq(Letters) /\ Len(<<c>>) = 1 /\ <<c>>[1] = c
OBVIOUS

LEMMA TwoLetters ==
  ASSUME NEW c \in Letters, NEW d \in Letters
  PROVE  /\ <<c, d>> \in Seq(Letters) /\ Len(<<c, d>>) = 2
         /\ <<c, d>>[1] = c /\ <<c, d>>[2] = d
OBVIOUS

(* The letters of a field, by a name the provers take for any value.       *)
Space == " "
Nought == "0"
Minus == "-"

LEMMA MinusStands ==
  /\ Minus \notin HexDigits /\ Minus # "+" /\ Minus # "X" /\ Minus # "0" /\ Minus # " "
<1>1. \A d \in 1 .. 16 :
        DigitChars[d] \in {"0", "1", "2", "3", "4", "5", "6", "7", "8", "9",
                           "A", "B", "C", "D", "E", "F"}
  BY DigitNames
<1>2. Minus \notin HexDigits
  BY <1>1 DEF HexDigits, Minus
<1>3. Minus # "+" /\ Minus # "X" /\ Minus # "0"
  BY DEF Minus
<1>4. Minus # " "
  BY DEF Minus
<1>. QED  BY <1>2, <1>3, <1>4

HeadOf(base, flags) == Sign(flags) \o Prefix(base, flags)
HeadLength(base, flags) ==
  (IF flags \cap {"+", " "} # {} THEN 1 ELSE 0) + (IF "#" \in flags /\ base = 16 THEN 2 ELSE 0)

LEMMA Heads ==
  ASSUME NEW base \in {10, 16}, NEW flags
  PROVE  LET h == HeadOf(base, flags)
         IN  /\ h \in Seq(Letters) /\ Len(h) = HeadLength(base, flags)
             /\ Len(h) = Len(Sign(flags)) + Len(Prefix(base, flags))
             /\ \A x \in 1 .. Len(h) :
                  /\ h[x] \in HexDigits => h[x] = Nought
                  /\ h[x] = Space => x = 1 /\ Space \in flags
                  /\ h[x] # Minus
<1>. DEFINE s == Sign(flags)
            p == Prefix(base, flags)
            h == s \o p
<1>1. s \in Seq(Letters) /\ Len(s) = (IF flags \cap {"+", " "} # {} THEN 1 ELSE 0)
      /\ \A x \in 1 .. Len(s) : x = 1 /\ s[x] \notin HexDigits /\ (s[x] = " " => " " \in flags)
                              /\ s[x] # Minus
  <2>1. CASE "+" \in flags
    <3>1. s = <<"+">>
      BY <2>1 DEF Sign
    <3>. HIDE DEF s
    <3>2. s[1] = "+" /\ Len(s) = 1 /\ s \in Seq(Letters)
      BY <3>1, OneLetter, OwnLetters
    <3>3. s[1] \notin HexDigits /\ s[1] # " " /\ s[1] # Minus
      BY <3>2, Characters, MinusStands
    <3>4. flags \cap {"+", " "} # {}
      BY <2>1, Zenon
    <3>5. \A x \in 1 .. Len(s) : x = 1
      <4>1. \A x \in 1 .. 1 : x = 1
        OBVIOUS
      <4>. QED  BY <3>2, <4>1, Zenon
    <3>. QED  BY <3>2, <3>3, <3>4, <3>5
  <2>2. CASE "+" \notin flags /\ " " \in flags
    <3>1. s = <<" ">>
      BY <2>2 DEF Sign
    <3>. HIDE DEF s
    <3>2. s[1] = " " /\ Len(s) = 1 /\ s \in Seq(Letters)
      BY <3>1, OneLetter, OwnLetters
    <3>3. s[1] \notin HexDigits /\ s[1] # Minus
      BY <3>2, Characters, MinusStands
    <3>4. flags \cap {"+", " "} # {}
      BY <2>2, Zenon
    <3>5. \A x \in 1 .. Len(s) : x = 1
      <4>1. \A x \in 1 .. 1 : x = 1
        OBVIOUS
      <4>. QED  BY <3>2, <4>1, Zenon
    <3>. QED  BY <2>2, <3>2, <3>3, <3>4, <3>5
  <2>3. CASE "+" \notin flags /\ " " \notin flags
    <3>1. s = <<>>
      BY <2>3 DEF Sign
    <3>. HIDE DEF s
    <3>2. Len(s) = 0 /\ s \in Seq(Letters)
      BY <3>1
    <3>3. flags \cap {"+", " "} = {}
      BY <2>3
    <3>4. \A x \in 1 .. Len(s) : FALSE
      BY <3>2
    <3>. QED  BY <3>2, <3>3, <3>4
  <2>. QED  BY <2>1, <2>2, <2>3
<1>2. p \in Seq(Letters) /\ Len(p) = (IF "#" \in flags /\ base = 16 THEN 2 ELSE 0)
      /\ \A x \in 1 .. Len(p) : (p[x] \in HexDigits => p[x] = "0") /\ p[x] # " " /\ p[x] # Minus
  <2>1. CASE "#" \in flags /\ base = 16
    <3>1. p = <<"0", "X">>
      BY <2>1 DEF Prefix
    <3>. HIDE DEF p
    <3>2. p[1] = "0" /\ p[2] = "X" /\ Len(p) = 2 /\ p \in Seq(Letters)
      BY <3>1, TwoLetters, OwnLetters
    <3>3. p[2] \notin HexDigits /\ p[2] # " " /\ p[1] # " " /\ p[2] # Minus /\ p[1] # Minus
      BY <3>2, Characters, MinusStands
    <3>4. \A x \in 1 .. Len(p) : x = 1 \/ x = 2
      BY <3>2
    <3>. QED  BY <2>1, <3>2, <3>3, <3>4
  <2>2. CASE ~("#" \in flags /\ base = 16)
    <3>1. p = <<>>
      BY <2>2 DEF Prefix
    <3>. HIDE DEF p
    <3>. QED  BY <2>2, <3>1
  <2>. QED  BY <2>1, <2>2
<1>. HIDE DEF s, p
<1>3. /\ h \in Seq(Letters) /\ Len(h) = Len(s) + Len(p)
      /\ \A x \in 1 .. Len(s) + Len(p) : h[x] = IF x <= Len(s) THEN s[x] ELSE p[x - Len(s)]
  <2>1. s \in Seq(Letters) /\ p \in Seq(Letters)
    BY <1>1, <1>2
  <2>. QED  BY <2>1, ConcatProperties, Zenon
<1>4. Len(s) \in {0, 1} /\ Len(p) \in {0, 2}
  BY <1>1, <1>2
<1>. HIDE DEF h
<1>5. ASSUME NEW x \in 1 .. Len(h)
      PROVE  /\ h[x] \in HexDigits => h[x] = "0"
             /\ h[x] = " " => x = 1 /\ " " \in flags
             /\ h[x] # Minus
  <2>1. CASE x <= Len(s)
    <3>1. x \in 1 .. Len(s) /\ h[x] = s[x]
      BY <1>3, <1>4, <2>1
    <3>. QED  BY <1>1, <3>1
  <2>2. CASE ~(x <= Len(s))
    <3>1. x - Len(s) \in 1 .. Len(p) /\ h[x] = p[x - Len(s)]
      BY <1>3, <1>4, <2>2
    <3>. QED  BY <1>2, <3>1
  <2>. QED  BY <2>1, <2>2
<1>6. Len(h) = HeadLength(base, flags)
  BY <1>1, <1>2, <1>3 DEF HeadLength
<1>. QED  BY <1>3, <1>5, <1>6 DEF h, s, p, HeadOf, Space, Nought

BodyOf(num, base, precision) ==
  Rep("0", precision - Len(Numeral(num, base))) \o Numeral(num, base)

LEMMA Bodies ==
  ASSUME NEW base \in {10, 16}, NEW num \in Nat, NEW precision \in Int
  PROVE  LET b == BodyOf(num, base, precision)
             d == Len(Numeral(num, base))
         IN  /\ b \in Seq(Letters) /\ Len(b) = (IF precision > d THEN precision ELSE d)
             /\ Len(b) \in Nat \ {0} /\ d \in Nat
             /\ \A x \in 1 .. Len(b) : b[x] # Space /\ b[x] # Minus
             /\ ReadIn(base, b) = num
<1>. DEFINE g == Numeral(num, base)
            d == Len(g)
            z == Rep("0", precision - d)
            b == z \o g
<1>1. g \in Seq(HexDigits) /\ d \in Nat \ {0} /\ ReadIn(base, g) = num
  BY NumeralReads
<1>2. /\ g \in Seq(Letters)
      /\ \A x \in 1 .. d : g[x] # " " /\ g[x] # Minus
  <2>1. g \in Seq(Letters)
    BY <1>1, OwnLetters, SeqMonotonic
  <2>2. \A x \in 1 .. d : g[x] \in HexDigits
    BY <1>1, ElementOfSeq
  <2>. QED  BY <2>1, <2>2, Characters, MinusStands
<1>. HIDE DEF g
<1>3. /\ z \in Seq(Letters) /\ Len(z) = (IF precision - d > 0 THEN precision - d ELSE 0)
      /\ \A x \in 1 .. Len(z) : z[x] = "0"
  <2>1. precision - d \in Int
    <3>. HIDE DEF d
    <3>. QED  BY <1>1
  <2>2. "0" \in Letters
    BY OwnLetters
  <2>. QED  BY <2>1, <2>2, Repeated
<1>. HIDE DEF z
<1>4. /\ b \in Seq(Letters) /\ Len(b) = Len(z) + d
      /\ \A x \in 1 .. Len(z) + d : b[x] = IF x <= Len(z) THEN z[x] ELSE g[x - Len(z)]
  BY <1>2, <1>3, ConcatProperties
<1>5. ReadIn(base, b) = num
  <2>1. base \in Nat
    OBVIOUS
  <2>2. ReadIn(base, z) = 0
    BY <1>3, <2>1, ReadZeros
  <2>3. ReadIn(base, z \o g) = ReadIn(base, g)
    BY <1>2, <1>3, <2>1, <2>2, ReadSkip
  <2>. QED  BY <1>1, <2>3
<1>. HIDE DEF b, d
<1>6. Len(z) \in Nat
  BY <1>1, <1>3
<1>7. ASSUME NEW x \in 1 .. Len(b) PROVE b[x] # " " /\ b[x] # Minus
  <2>1. CASE x <= Len(z)
    <3>1. x \in 1 .. Len(z) /\ b[x] = z[x]
      BY <1>1, <1>4, <1>6, <2>1
    <3>. QED  BY <1>3, <3>1, OwnLetters, MinusStands
  <2>2. CASE ~(x <= Len(z))
    <3>1. x - Len(z) \in 1 .. d /\ b[x] = g[x - Len(z)]
      BY <1>1, <1>4, <1>6, <2>2
    <3>. QED  BY <1>2, <3>1
  <2>. QED  BY <2>1, <2>2
<1>8. Len(b) = (IF precision > d THEN precision ELSE d)
  BY <1>1, <1>3, <1>4
<1>9. Len(b) \in Nat \ {0}
  BY <1>1, <1>8
<1>10. b = BodyOf(num, base, precision) /\ d = Len(Numeral(num, base))
  BY DEF b, z, g, d, BodyOf
<1>. QED  BY <1>1, <1>4, <1>5, <1>7, <1>8, <1>9, <1>10 DEF Space

Positive(n) == IF n > 0 THEN n ELSE 0

LaidOut(w, n, flags, h, b) ==
  /\ n \in Nat /\ Len(h) \in Nat /\ Len(b) \in Nat
  /\ w \in Seq(Letters) /\ Len(w) = Len(h) + Len(b) + n
  /\ "-" \in flags =>
       \A x \in 1 .. Len(w) :
         w[x] = IF x <= Len(h) THEN h[x]
                ELSE IF x <= Len(h) + Len(b) THEN b[x - Len(h)] ELSE Space
  /\ "-" \notin flags /\ "0" \in flags =>
       \A x \in 1 .. Len(w) :
         w[x] = IF x <= Len(h) THEN h[x]
                ELSE IF x <= Len(h) + n THEN Nought ELSE b[x - (Len(h) + n)]
  /\ "-" \notin flags /\ "0" \notin flags =>
       \A x \in 1 .. Len(w) :
         w[x] = IF x <= n THEN Space
                ELSE IF x <= n + Len(h) THEN h[x - n] ELSE b[x - (n + Len(h))]

LEMMA Layouts ==
  ASSUME NEW flags, NEW r \in Int, NEW h \in Seq(Letters), NEW b \in Seq(Letters)
  PROVE  LaidOut(Layout(flags, r, h, b), Positive(r), flags, h, b)
<1>. DEFINE w == Layout(flags, r, h, b)
            n == Positive(r)
            y == Rep(" ", r)
            z == Rep("0", r)
<1>1. n \in Nat /\ Len(h) \in Nat /\ Len(b) \in Nat
  BY DEF Positive
<1>2. /\ y \in Seq(Letters) /\ Len(y) = n /\ \A x \in 1 .. Len(y) : y[x] = " "
      /\ z \in Seq(Letters) /\ Len(z) = n /\ \A x \in 1 .. Len(z) : z[x] = "0"
  BY OwnLetters, Repeated DEF Positive
<1>3. ASSUME "-" \in flags
      PROVE  /\ w \in Seq(Letters) /\ Len(w) = Len(h) + Len(b) + n
             /\ \A x \in 1 .. Len(w) :
                  w[x] = IF x <= Len(h) THEN h[x]
                         ELSE IF x <= Len(h) + Len(b) THEN b[x - Len(h)] ELSE " "
  <2>1. w = h \o b \o y
    BY <1>3 DEF Layout
  <2>. HIDE DEF w, y, z, n
  <2>2. /\ w \in Seq(Letters) /\ Len(w) = Len(h) + Len(b) + n
        /\ \A x \in 1 .. Len(w) :
             w[x] = IF x <= Len(h) THEN h[x]
                    ELSE IF x <= Len(h) + Len(b) THEN b[x - Len(h)]
                    ELSE y[x - (Len(h) + Len(b))]
    <3>1. y \in Seq(Letters) /\ Len(y) = n
      BY <1>2
    <3>2. /\ w \in Seq(Letters) /\ Len(w) = Len(h) + Len(b) + Len(y)
          /\ \A x \in 1 .. Len(w) :
               w[x] = IF x <= Len(h) THEN h[x]
                      ELSE IF x <= Len(h) + Len(b) THEN b[x - Len(h)]
                      ELSE y[x - (Len(h) + Len(b))]
      <4>1. Joined(Letters, w, h, b, y)
        BY <2>1, <3>1, ThreeParts
      <4>. QED  BY <4>1 DEF Joined
    <3>. QED  BY <3>1, <3>2, Zenon
  <2>3. ASSUME NEW x \in 1 .. Len(w), ~(x <= Len(h) + Len(b))
        PROVE  y[x - (Len(h) + Len(b))] = " "
    <3>1. x - (Len(h) + Len(b)) \in 1 .. n
      BY <1>1, <2>2, <2>3
    <3>. QED  BY <1>2, <3>1
  <2>. QED  BY <2>2, <2>3
<1>4. ASSUME "-" \notin flags, "0" \in flags
      PROVE  /\ w \in Seq(Letters) /\ Len(w) = Len(h) + Len(b) + n
             /\ \A x \in 1 .. Len(w) :
                  w[x] = IF x <= Len(h) THEN h[x]
                         ELSE IF x <= Len(h) + n THEN "0" ELSE b[x - (Len(h) + n)]
  <2>1. w = h \o z \o b
    BY <1>4 DEF Layout
  <2>. HIDE DEF w, y, z, n
  <2>2. /\ w \in Seq(Letters) /\ Len(w) = Len(h) + n + Len(b)
        /\ \A x \in 1 .. Len(w) :
             w[x] = IF x <= Len(h) THEN h[x]
                    ELSE IF x <= Len(h) + n THEN z[x - Len(h)]
                    ELSE b[x - (Len(h) + n)]
    <3>1. z \in Seq(Letters) /\ Len(z) = n
      BY <1>2
    <3>2. Joined(Letters, w, h, z, b)
      BY <2>1, <3>1, ThreeParts
    <3>. QED  BY <3>1, <3>2 DEF Joined
  <2>3. ASSUME NEW x \in 1 .. Len(w), ~(x <= Len(h)), x <= Len(h) + n
        PROVE  z[x - Len(h)] = "0"
    <3>1. x - Len(h) \in 1 .. n
      BY <1>1, <2>2, <2>3
    <3>. QED  BY <1>2, <3>1
  <2>4. Len(w) = Len(h) + Len(b) + n
    BY <1>1, <2>2
  <2>. QED  BY <2>2, <2>3, <2>4
<1>5. ASSUME "-" \notin flags, "0" \notin flags
      PROVE  /\ w \in Seq(Letters) /\ Len(w) = Len(h) + Len(b) + n
             /\ \A x \in 1 .. Len(w) :
                  w[x] = IF x <= n THEN " "
                         ELSE IF x <= n + Len(h) THEN h[x - n] ELSE b[x - (n + Len(h))]
  <2>1. w = y \o h \o b
    BY <1>5 DEF Layout
  <2>. HIDE DEF w, y, z, n
  <2>2. /\ w \in Seq(Letters) /\ Len(w) = n + Len(h) + Len(b)
        /\ \A x \in 1 .. Len(w) :
             w[x] = IF x <= n THEN y[x]
                    ELSE IF x <= n + Len(h) THEN h[x - n]
                    ELSE b[x - (n + Len(h))]
    <3>1. y \in Seq(Letters) /\ Len(y) = n
      BY <1>2
    <3>2. /\ w \in Seq(Letters) /\ Len(w) = Len(y) + Len(h) + Len(b)
          /\ \A x \in 1 .. Len(w) :
               w[x] = IF x <= Len(y) THEN y[x]
                      ELSE IF x <= Len(y) + Len(h) THEN h[x - Len(y)]
                      ELSE b[x - (Len(y) + Len(h))]
      <4>1. Joined(Letters, w, y, h, b)
        BY <2>1, <3>1, ThreeParts
      <4>. QED  BY <4>1 DEF Joined
    <3>. QED  BY <3>1, <3>2, Zenon
  <2>3. ASSUME NEW x \in 1 .. Len(w), x <= n
        PROVE  y[x] = " "
    <3>1. x \in 1 .. n
      BY <1>1, <2>2, <2>3
    <3>. QED  BY <1>2, <3>1
  <2>4. Len(w) = Len(h) + Len(b) + n
    BY <1>1, <2>2
  <2>. QED  BY <2>2, <2>3, <2>4
<1>. HIDE DEF w, n
<1>6. w \in Seq(Letters) /\ Len(w) = Len(h) + Len(b) + n
  BY <1>3, <1>4, <1>5
<1>7. LaidOut(w, n, flags, h, b)
  BY <1>1, <1>3, <1>4, <1>5, <1>6 DEF LaidOut, Space, Nought
<1>. QED  BY <1>7 DEF w, n

LEMMA LayoutReads ==
  ASSUME NEW flags, NEW r \in Int, NEW h \in Seq(Letters), NEW b \in Seq(Letters),
         NEW base \in Nat, \A x \in 1 .. Len(h) : h[x] \in HexDigits => h[x] = Nought
  PROVE  ReadIn(base, Layout(flags, r, h, b)) = ReadIn(base, b)
<1>. DEFINE u == Rep(" ", r)
            z == Rep("0", r)
<1>1. /\ u \in Seq(Letters) /\ \A x \in 1 .. Len(u) : u[x] \notin HexDigits
      /\ z \in Seq(Letters) /\ \A x \in 1 .. Len(z) : z[x] = "0"
  <2>1. " " \in Letters /\ "0" \in Letters
    BY OwnLetters
  <2>2. u \in Seq(Letters) /\ \A x \in 1 .. Len(u) : u[x] = " "
    BY <2>1, Repeated
  <2>3. z \in Seq(Letters) /\ \A x \in 1 .. Len(z) : z[x] = "0"
    BY <2>1, Repeated
  <2>. HIDE DEF u, z
  <2>. QED  BY <2>2, <2>3, Characters
<1>2. ReadIn(base, h) = 0 /\ ReadIn(base, u) = 0 /\ ReadIn(base, z) = 0
  <2>. HIDE DEF u, z
  <2>1. ReadIn(base, h) = 0
    BY ReadZeros DEF Nought
  <2>2. ReadIn(base, u) = 0
    BY <1>1, ReadZeros
  <2>3. ReadIn(base, z) = 0
    BY <1>1, ReadZeros
  <2>. QED  BY <2>1, <2>2, <2>3
<1>3. CASE "-" \in flags
  <2>1. Layout(flags, r, h, b) = (h \o b) \o u
    BY <1>3 DEF Layout
  <2>2. h \o b \in Seq(Letters)
    BY ConcatProperties
  <2>3. ReadIn(base, (h \o b) \o u) = ReadIn(base, h \o b)
    <3>. HIDE DEF u
    <3>. QED  BY <1>1, <2>2, ReadPlain
  <2>4. ReadIn(base, h \o b) = ReadIn(base, b)
    BY <1>2, ReadSkip
  <2>. QED  BY <2>1, <2>3, <2>4
<1>4. CASE "-" \notin flags /\ "0" \in flags
  <2>1. Layout(flags, r, h, b) = (h \o z) \o b
    BY <1>4 DEF Layout
  <2>. HIDE DEF z
  <2>2. h \o z \in Seq(Letters)
    BY <1>1, ConcatProperties
  <2>3. ReadIn(base, h \o z) = 0
    BY <1>1, <1>2, ReadSkip
  <2>4. ReadIn(base, (h \o z) \o b) = ReadIn(base, b)
    BY <2>2, <2>3, ReadSkip
  <2>. QED  BY <2>1, <2>4
<1>5. CASE "-" \notin flags /\ "0" \notin flags
  <2>1. Layout(flags, r, h, b) = (u \o h) \o b
    BY <1>5 DEF Layout
  <2>. HIDE DEF u
  <2>2. u \o h \in Seq(Letters)
    BY <1>1, ConcatProperties
  <2>3. ReadIn(base, u \o h) = 0
    BY <1>1, <1>2, ReadSkip
  <2>4. ReadIn(base, (u \o h) \o b) = ReadIn(base, b)
    BY <2>2, <2>3, ReadSkip
  <2>. QED  BY <2>1, <2>4
<1>. QED  BY <1>3, <1>4, <1>5


(* Where the blanks of a field stand.                                      *)
Standing(w, flags) ==
  /\ "-" \notin flags => w[Len(w)] # Space
  /\ "-" \in flags /\ Space \notin flags => w[1] # Space
  /\ \A x \in 1 .. Len(w), y \in 1 .. Len(w) :
       x < y /\ w[x] \notin {Space} /\ w[y] = Space => \A z \in y .. Len(w) : w[z] = Space
  /\ "-" \notin flags /\ "0" \in flags => \A x \in 2 .. Len(w) : w[x] # Space
  /\ \A x \in 1 .. Len(w) : w[x] # Minus

(* No letter of a field is a minus.                                        *)
LEMMA NoMinus ==
  ASSUME NEW flags, NEW h, NEW b, NEW w, NEW n, LaidOut(w, n, flags, h, b),
         \A x \in 1 .. Len(h) : h[x] # Minus, \A x \in 1 .. Len(b) : b[x] # Minus,
         NEW x \in 1 .. Len(w)
  PROVE  w[x] # Minus
<1>1. /\ Len(h) \in Nat /\ Len(b) \in Nat /\ n \in Nat
      /\ Len(w) = Len(h) + Len(b) + n
  BY DEF LaidOut
<1>2. Space # Minus /\ Nought # Minus
  BY MinusStands, Zenon DEF Space, Nought
<1>3. CASE "-" \in flags
  <2>1. w[x] = IF x <= Len(h) THEN h[x]
               ELSE IF x <= Len(h) + Len(b) THEN b[x - Len(h)] ELSE Space
    BY <1>3 DEF LaidOut
  <2>2. x > Len(h) /\ x <= Len(h) + Len(b) => x - Len(h) \in 1 .. Len(b)
    BY <1>1
  <2>. QED  BY <1>1, <1>2, <2>1, <2>2
<1>4. CASE "-" \notin flags /\ "0" \in flags
  <2>1. w[x] = IF x <= Len(h) THEN h[x]
               ELSE IF x <= Len(h) + n THEN Nought ELSE b[x - (Len(h) + n)]
    BY <1>4 DEF LaidOut
  <2>2. ~(x <= Len(h) + n) => x - (Len(h) + n) \in 1 .. Len(b)
    BY <1>1
  <2>. QED  BY <1>1, <1>2, <2>1, <2>2
<1>5. CASE "-" \notin flags /\ "0" \notin flags
  <2>1. w[x] = IF x <= n THEN Space
               ELSE IF x <= n + Len(h) THEN h[x - n] ELSE b[x - (n + Len(h))]
    BY <1>5 DEF LaidOut
  <2>2. /\ x > n /\ x <= n + Len(h) => x - n \in 1 .. Len(h)
        /\ ~(x <= n + Len(h)) => x - (n + Len(h)) \in 1 .. Len(b)
    BY <1>1
  <2>. QED  BY <1>1, <1>2, <2>1, <2>2
<1>. QED  BY <1>3, <1>4, <1>5

(* Zeros leave no blank behind the sign.                                   *)
LEMMA ZerosFill ==
  ASSUME NEW flags, NEW h, NEW b, NEW w, NEW n, LaidOut(w, n, flags, h, b),
         \A x \in 1 .. Len(h) : h[x] = Space => x = 1,
         \A x \in 1 .. Len(b) : b[x] # Space,
         "-" \notin flags, "0" \in flags, NEW x \in 2 .. Len(w)
  PROVE  w[x] # Space
<1>1. /\ Len(h) \in Nat /\ Len(b) \in Nat /\ n \in Nat
      /\ Len(w) = Len(h) + Len(b) + n
  BY DEF LaidOut
<1>2. Nought # Space
  BY OwnLetters, Zenon DEF Space, Nought
<1>3. w[x] = IF x <= Len(h) THEN h[x]
             ELSE IF x <= Len(h) + n THEN Nought ELSE b[x - (Len(h) + n)]
  BY <1>1 DEF LaidOut
<1>4. ~(x <= Len(h) + n) => x - (Len(h) + n) \in 1 .. Len(b)
  BY <1>1
<1>. QED  BY <1>1, <1>2, <1>3, <1>4

LEMMA LayoutStands ==
  ASSUME NEW flags, NEW h, NEW b, NEW w, NEW n, LaidOut(w, n, flags, h, b),
         \A x \in 1 .. Len(h) : h[x] = Space => x = 1 /\ Space \in flags,
         \A x \in 1 .. Len(h) : h[x] # Minus,
         Len(b) > 0, \A x \in 1 .. Len(b) : b[x] # Space /\ b[x] # Minus
  PROVE  Standing(w, flags)
<1>. DEFINE Filled == /\ "-" \notin flags /\ "0" \in flags => \A x \in 2 .. Len(w) : w[x] # Space
                      /\ \A x \in 1 .. Len(w) : w[x] # Minus
<1>0. Filled
  BY NoMinus, ZerosFill
<1>. HIDE DEF Filled
<1>1. /\ Len(h) \in Nat /\ Len(b) \in Nat \ {0} /\ n \in Nat
      /\ Len(w) = Len(h) + Len(b) + n
  BY DEF LaidOut
<1>2. CASE "-" \in flags
  <2>1. ASSUME NEW x \in 1 .. Len(w)
        PROVE  w[x] = Space => (x = 1 /\ Space \in flags) \/ x > Len(h) + Len(b)
    <3>1. w[x] = IF x <= Len(h) THEN h[x]
                 ELSE IF x <= Len(h) + Len(b) THEN b[x - Len(h)] ELSE Space
      BY <1>2 DEF LaidOut
    <3>2. CASE x <= Len(h)
      BY <1>1, <3>1, <3>2
    <3>3. CASE x > Len(h) /\ x <= Len(h) + Len(b)
      <4>1. x - Len(h) \in 1 .. Len(b) /\ w[x] = b[x - Len(h)]
        BY <1>1, <3>1, <3>3
      <4>. QED  BY <4>1
    <3>. QED  BY <1>1, <3>2, <3>3
  <2>2. \A x \in 1 .. Len(w) : x > Len(h) + Len(b) => w[x] = Space
    <3>1. ASSUME NEW x \in 1 .. Len(w), x > Len(h) + Len(b) PROVE w[x] = Space
      <4>1. w[x] = IF x <= Len(h) THEN h[x]
                   ELSE IF x <= Len(h) + Len(b) THEN b[x - Len(h)] ELSE Space
        BY <1>2 DEF LaidOut
      <4>. QED  BY <1>1, <3>1, <4>1
    <3>. QED  BY <3>1
  <2>3. Space \notin flags => w[1] # Space
    <3>1. 1 \in 1 .. Len(w) /\ ~(1 > Len(h) + Len(b))
      BY <1>1
    <3>. QED  BY <2>1, <3>1
  <2>4. ASSUME NEW x \in 1 .. Len(w), NEW y \in 1 .. Len(w), x < y, w[y] = Space,
               NEW z \in y .. Len(w)
        PROVE  w[z] = Space
    <3>1. y > Len(h) + Len(b)
      BY <2>1, <2>4
    <3>2. z \in 1 .. Len(w) /\ z > Len(h) + Len(b)
      BY <1>1, <2>4, <3>1
    <3>. QED  BY <2>2, <3>2
  <2>. QED  BY <1>0, <1>2, <2>3, <2>4 DEF Standing, Filled
<1>3. CASE "-" \notin flags
  <2>1. w[Len(w)] # Space
    <3>1. Len(w) \in 1 .. Len(w) /\ Len(w) - (Len(h) + n) = Len(b) /\ Len(b) \in 1 .. Len(b)
          /\ ~(Len(w) <= Len(h) + n) /\ ~(Len(w) <= Len(h)) /\ ~(Len(w) <= n)
          /\ Len(w) - (n + Len(h)) = Len(b) /\ ~(Len(w) <= n + Len(h))
      BY <1>1
    <3>2. w[Len(w)] = b[Len(b)]
      <4>1. CASE "0" \in flags
        <5>1. w[Len(w)] = IF Len(w) <= Len(h) THEN h[Len(w)]
                          ELSE IF Len(w) <= Len(h) + n THEN Nought ELSE b[Len(w) - (Len(h) + n)]
          BY <1>3, <3>1, <4>1 DEF LaidOut
        <5>. QED  BY <3>1, <5>1
      <4>2. CASE "0" \notin flags
        <5>1. w[Len(w)] = IF Len(w) <= n THEN Space
                          ELSE IF Len(w) <= n + Len(h) THEN h[Len(w) - n]
                          ELSE b[Len(w) - (n + Len(h))]
          BY <1>3, <3>1, <4>2 DEF LaidOut
        <5>. QED  BY <3>1, <5>1
      <4>. QED  BY <4>1, <4>2
    <3>. QED  BY <3>1, <3>2
  <2>2. ASSUME NEW x \in 1 .. Len(w), NEW y \in 1 .. Len(w), x < y, w[x] # Space, w[y] = Space
        PROVE  FALSE
    <3>1. CASE "0" \in flags
      <4>1. w[y] = IF y <= Len(h) THEN h[y]
                   ELSE IF y <= Len(h) + n THEN Nought ELSE b[y - (Len(h) + n)]
        BY <1>3, <3>1 DEF LaidOut
      <4>2. CASE y <= Len(h)
        <5>1. y \in 1 .. Len(h) /\ w[y] = h[y]
          BY <1>1, <4>1, <4>2
        <5>2. y = 1
          BY <2>2, <5>1
        <5>. QED  BY <1>1, <2>2, <5>2
      <4>3. CASE y > Len(h) /\ y <= Len(h) + n
        <5>1. w[y] = Nought
          BY <1>1, <4>1, <4>3
        <5>. QED  BY <2>2, <5>1, OwnLetters DEF Space, Nought
      <4>4. CASE y > Len(h) + n
        <5>1. y - (Len(h) + n) \in 1 .. Len(b) /\ w[y] = b[y - (Len(h) + n)]
          BY <1>1, <4>1, <4>4
        <5>. QED  BY <2>2, <5>1
      <4>. QED  BY <1>1, <4>2, <4>3, <4>4
    <3>2. CASE "0" \notin flags
      <4>1. \A v \in 1 .. Len(w) :
              w[v] = IF v <= n THEN Space
                     ELSE IF v <= n + Len(h) THEN h[v - n] ELSE b[v - (n + Len(h))]
        BY <1>3, <3>2 DEF LaidOut
      <4>2. x > n
        <5>1. w[x] = IF x <= n THEN Space
                     ELSE IF x <= n + Len(h) THEN h[x - n] ELSE b[x - (n + Len(h))]
          BY <2>2, <4>1, Zenon
        <5>2. ~(x <= n)
          BY <2>2, <5>1, Zenon
        <5>. QED  BY <1>1, <2>2, <5>2
      <4>3. CASE y <= n + Len(h)
        <5>1. y - n \in 1 .. Len(h) /\ y - n # 1 /\ ~(y <= n)
          BY <1>1, <2>2, <4>2, <4>3
        <5>3. w[y] = IF y <= n THEN Space
                     ELSE IF y <= n + Len(h) THEN h[y - n] ELSE b[y - (n + Len(h))]
          BY <2>2, <4>1, Zenon
        <5>4. w[y] = h[y - n]
          BY <4>3, <5>1, <5>3, Zenon
        <5>. QED  BY <2>2, <5>1, <5>4
      <4>4. CASE y > n + Len(h)
        <5>1. y - (n + Len(h)) \in 1 .. Len(b) /\ w[y] = b[y - (n + Len(h))]
          BY <1>1, <2>2, <4>1, <4>2, <4>4
        <5>. QED  BY <2>2, <5>1
      <4>. QED  BY <1>1, <4>3, <4>4
    <3>. QED  BY <3>1, <3>2
  <2>. QED  BY <1>0, <1>3, <2>1, <2>2 DEF Standing, Filled
<1>. QED  BY <1>2, <1>3

(* What a number needs, and how long its field becomes.                    *)
Needed(num, base, precision, flags) ==
  LET d == Len(Numeral(num, base))
  IN  (IF precision > d THEN precision ELSE d) + HeadLength(base, flags)

LEMMA Fields ==
  ASSUME NEW base \in {10, 16}, NEW num \in Nat, NEW size \in Int,
         NEW precision \in Int, NEW flags
  PROVE  LET w == Number(num, base, size, precision, flags)
             least == Needed(num, base, precision, flags)
         IN  /\ w \in Seq(Letters) /\ ReadIn(base, w) = num
             /\ Len(w) = IF size > least THEN size ELSE least
             /\ Standing(w, flags)
<1>. DEFINE h == HeadOf(base, flags)
            b == BodyOf(num, base, precision)
            r == size - Len(Sign(flags)) - Len(Prefix(base, flags)) - Len(b)
            w == Layout(flags, r, h, b)
            n == Positive(r)
            least == Needed(num, base, precision, flags)
<1>1. /\ h \in Seq(Letters) /\ Len(h) = HeadLength(base, flags)
      /\ Len(h) = Len(Sign(flags)) + Len(Prefix(base, flags))
      /\ \A x \in 1 .. Len(h) :
           /\ h[x] \in HexDigits => h[x] = Nought
           /\ h[x] = Space => x = 1 /\ Space \in flags
           /\ h[x] # Minus
  BY Heads
<1>. HIDE DEF h
<1>2. /\ b \in Seq(Letters) /\ Len(b) + Len(h) = Needed(num, base, precision, flags)
      /\ Len(b) \in Nat \ {0} /\ ReadIn(base, b) = num
      /\ \A x \in 1 .. Len(b) : b[x] # Space /\ b[x] # Minus
  BY <1>1, Bodies DEF Needed
<1>. HIDE DEF b
<1>3. r \in Int /\ r = size - Len(h) - Len(b)
  <2>1. Len(Sign(flags)) \in Nat /\ Len(Prefix(base, flags)) \in Nat
    BY DEF Sign, Prefix
  <2>. QED  BY <1>1, <1>2, <2>1
<1>4. Number(num, base, size, precision, flags) = Layout(flags, r, h, b)
  BY DEF Number, Room, HeadOf, BodyOf, h, b
<1>. HIDE DEF r
<1>5. LaidOut(w, n, flags, h, b)
  BY <1>1, <1>2, <1>3, Layouts
<1>6. ReadIn(base, w) = num
  <2>1. base \in Nat
    OBVIOUS
  <2>. QED  BY <1>1, <1>2, <1>3, <2>1, LayoutReads
<1>. HIDE DEF w
<1>7. Standing(w, flags)
  <2>1. Len(b) > 0
    BY <1>2
  <2>. QED  BY <1>1, <1>2, <1>5, <2>1, LayoutStands
<1>8. Len(w) = IF size > Len(b) + Len(h) THEN size ELSE Len(b) + Len(h)
  <2>1. Len(h) \in Nat /\ Len(b) \in Nat
    BY <1>1, <1>2
  <2>2. Len(w) = Len(h) + Len(b) + n
    BY <1>5 DEF LaidOut
  <2>3. n = IF r > 0 THEN r ELSE 0
    BY Zenon DEF Positive
  <2>. HIDE DEF n, least
  <2>4. PICK y \in Nat, j \in Nat : y = Len(h) /\ j = Len(b)
    BY <2>1
  <2>5. PICK a \in Int : a = r
    BY <1>3
  <2>6. a = size - y - j /\ n = (IF a > 0 THEN a ELSE 0) /\ Len(w) = y + j + n
    BY <1>3, <2>2, <2>3, <2>4, <2>5
  <2>7. Len(w) = IF size > j + y THEN size ELSE j + y
    BY <2>6
  <2>. QED  BY <2>4, <2>7
<1>. QED  BY <1>2, <1>4, <1>5, <1>6, <1>7, <1>8 DEF LaidOut, w

-----------------------------------------------------------------------------
(* The fields a call writes.                                               *)
LEMMA ReadInNat ==
  ASSUME NEW b \in Nat, NEW s, Len(s) \in Nat
  PROVE  ReadIn(b, s) \in Nat
<1>1. PICK h : IsReading(h, Len(s), b, s) /\ ReadIn(b, s) = h[Len(s)]
  BY ReadingDef
<1>2. Len(s) \in 0 .. Len(s)
  OBVIOUS
<1>. QED  BY <1>1, <1>2 DEF IsReading

LEMMA SkipAtoiNat ==
  ASSUME NEW f \in Seq(STRING), NEW j \in 1 .. Len(f) + 1
  PROVE  SkipAtoi(f, j) \in Nat
<1>. DEFINE e == Past(f, j, Digits)
            s == SubSeq(f, j, e - 1)
<1>1. Len(f) \in Nat /\ "EOS" \notin Digits
  BY DEF Digits, DigitChars
<1>2. e \in j .. Len(f) + 1
  BY <1>1, PastPlace
<1>. HIDE DEF e
<1>3. Len(s) \in Nat
  <2>1. \A y \in j .. e - 1 : f[y] \in STRING
    BY <1>1, <1>2
  <2>2. Len(s) = IF j <= e - 1 THEN (e - 1) - j + 1 ELSE 0
    BY <1>1, <1>2, <2>1, SubSeqProperties
  <2>. QED  BY <1>1, <1>2, <2>2
<1>. HIDE DEF s
<1>4. ReadIn(10, s) \in Nat
  BY <1>3, ReadInNat
<1>. QED  BY <1>4 DEF SkipAtoi, s, e

LEMMA ConversionNumbers ==
  ASSUME NEW f \in Seq(STRING), NEW x \in 1 .. Len(f)
  PROVE  ConversionAt(f, x).width \in Nat \cup {-1} /\ ConversionAt(f, x).precision \in Nat \cup {-1}
<1>. DEFINE w == Past(f, x + 1, FlagChars)
            p == Past(f, w, Digits)
            q == IF At(f, p) = "." THEN Past(f, p + 1, Digits) ELSE p
<1>1. /\ ConversionAt(f, x).width = IF p = w THEN -1 ELSE SkipAtoi(f, w)
      /\ ConversionAt(f, x).precision = IF q = p THEN -1 ELSE SkipAtoi(f, p + 1)
  BY DEF ConversionAt
<1>2. Len(f) \in Nat /\ "EOS" \notin FlagChars /\ "EOS" \notin Digits
  BY DEF FlagChars, Digits, DigitChars
<1>3. w \in 1 .. Len(f) + 1
  <2>1. x + 1 \in 1 .. Len(f) + 1
    BY <1>2
  <2>2. w \in x + 1 .. Len(f) + 1
    BY <1>2, <2>1, PastPlace
  <2>. HIDE DEF w
  <2>. QED  BY <1>2, <2>2
<1>. HIDE DEF w
<1>4. p \in w .. Len(f) + 1
  BY <1>2, <1>3, PastPlace
<1>. HIDE DEF p
<1>5. SkipAtoi(f, w) \in Nat
  BY <1>3, SkipAtoiNat
<1>6. q # p => SkipAtoi(f, p + 1) \in Nat
  <2>. SUFFICES ASSUME At(f, p) = "." PROVE SkipAtoi(f, p + 1) \in Nat
    OBVIOUS
  <2>1. p # Len(f) + 1
    BY <1>2, AtTheEnd
  <2>2. p + 1 \in 1 .. Len(f) + 1
    BY <1>2, <1>3, <1>4, <2>1
  <2>. QED  BY <2>2, SkipAtoiNat
<1>. HIDE DEF q
<1>. QED  BY <1>1, <1>5, <1>6

LEMMA Wide ==
  ASSUME NEW c \in Letters, NEW width \in Int, NEW flags
  PROVE  /\ CharText(c, width, flags) \in Seq(Letters)
         /\ Len(CharText(c, width, flags)) = IF width > 1 THEN width ELSE 1
<1>. DEFINE b == Rep(Space, width - 1)
            o == <<c>>
<1>1. b \in Seq(Letters) /\ Len(b) = IF width - 1 > 0 THEN width - 1 ELSE 0
  <2>1. Space \in Letters
    BY OwnLetters, Zenon DEF Space
  <2>2. width - 1 \in Int
    OBVIOUS
  <2>. QED  BY <2>1, <2>2, Repeated
<1>2. o \in Seq(Letters) /\ Len(o) = 1
  BY OneLetter
<1>3. CharText(c, width, flags) = IF "-" \in flags THEN o \o b ELSE b \o o
  BY Zenon DEF CharText, Space
<1>. HIDE DEF b, o
<1>4. /\ o \o b \in Seq(Letters) /\ Len(o \o b) = Len(o) + Len(b)
      /\ b \o o \in Seq(Letters) /\ Len(b \o o) = Len(b) + Len(o)
  BY <1>1, <1>2, ConcatProperties
<1>. DEFINE w == CharText(c, width, flags)
<1>5. w \in Seq(Letters) /\ Len(w) = 1 + Len(b)
  <2>1. w = o \o b \/ w = b \o o
    BY <1>3
  <2>. HIDE DEF w
  <2>2. Len(o) + Len(b) = 1 + Len(b) /\ Len(b) + Len(o) = 1 + Len(b)
    BY <1>1, <1>2
  <2>. QED  BY <1>4, <2>1, <2>2
<1>. HIDE DEF w
<1>6. Len(w) = IF width > 1 THEN width ELSE 1
  BY <1>1, <1>5
<1>. QED  BY <1>5, <1>6 DEF w

(* A string among blanks.                                                  *)
Amid(t, s, width, flags) ==
  LET n == Len(s)
      lead == IF "-" \notin flags /\ width > n + 1 THEN width - 1 - n ELSE 0
      trail == IF "-" \in flags THEN width - 1 ELSE IF lead > 0 THEN n - 1 ELSE width - 2
  IN  /\ Len(t) = lead + n + (IF trail > 0 THEN trail ELSE 0)
      /\ \A x \in 1 .. Len(t) : t[x] = IF x \in lead + 1 .. lead + n THEN s[x - lead] ELSE Space

LEMMA Strung ==
  ASSUME NEW s \in Seq(STRING), NEW width \in Int, NEW flags
  PROVE  /\ StringText(s, width, flags) \in Seq(Letters)
         /\ Amid(StringText(s, width, flags), s, width, flags)
<1>. DEFINE front == IF "-" \in flags THEN 0 ELSE width - 1 - Len(s)
            left == IF "-" \in flags THEN width
                    ELSE IF front > 0 THEN Len(s) ELSE width - 1
            b == Rep(Space, front)
            a == Rep(Space, left - 1)
            n == Len(s)
            lead == IF "-" \notin flags /\ width > n + 1 THEN width - 1 - n ELSE 0
            trail == IF "-" \in flags THEN width - 1 ELSE IF lead > 0 THEN n - 1 ELSE width - 2
<1>1. /\ n \in Nat /\ front \in Int /\ left - 1 \in Int /\ lead \in Nat
      /\ lead = (IF front > 0 THEN front ELSE 0) /\ trail = left - 1
  OBVIOUS
<1>2. StringText(s, width, flags) = b \o s \o a
  BY Zenon DEF StringText, Space
<1>3. /\ Amid(StringText(s, width, flags), s, width, flags) <=>
           /\ Len(StringText(s, width, flags)) = lead + n + (IF trail > 0 THEN trail ELSE 0)
           /\ \A x \in 1 .. Len(StringText(s, width, flags)) :
                StringText(s, width, flags)[x]
                  = IF x \in lead + 1 .. lead + n THEN s[x - lead] ELSE Space
  BY Zenon DEF Amid
<1>. HIDE DEF front, left, lead, trail
<1>4. /\ b \in Seq(Letters) /\ a \in Seq(Letters)
      /\ Len(b) = lead /\ Len(a) = (IF trail > 0 THEN trail ELSE 0)
      /\ \A x \in 1 .. Len(b) : b[x] = Space
      /\ \A x \in 1 .. Len(a) : a[x] = Space
  <2>1. Space \in Letters
    BY OwnLetters, Zenon DEF Space
  <2>. QED  BY <1>1, <2>1, Repeated
<1>5. s \in Seq(Letters)
  BY OwnLetters, SeqMonotonic
<1>. HIDE DEF a, b
<1>. DEFINE w == b \o s \o a
<1>6. Joined(Letters, w, b, s, a)
  BY <1>4, <1>5, ThreeParts
<1>. HIDE DEF w
<1>7. /\ w \in Seq(Letters) /\ Len(w) = lead + n + Len(a) /\ Len(a) \in Nat
  BY <1>4, <1>5, <1>6 DEF Joined
<1>8. ASSUME NEW x \in 1 .. Len(w)
      PROVE  w[x] = IF x \in lead + 1 .. lead + n THEN s[x - lead] ELSE Space
  <2>1. w[x] = IF x <= lead THEN b[x] ELSE IF x <= lead + n THEN s[x - lead]
               ELSE a[x - (lead + n)]
    BY <1>4, <1>6 DEF Joined
  <2>2. CASE x <= lead
    BY <1>1, <1>4, <2>1, <2>2
  <2>3. CASE ~(x <= lead) /\ x <= lead + n
    BY <1>1, <2>1, <2>3
  <2>4. CASE ~(x <= lead + n)
    <3>1. x - (lead + n) \in 1 .. Len(a) /\ ~(x <= lead)
      BY <1>1, <1>7, <2>4
    <3>2. w[x] = a[x - (lead + n)]
      BY <2>1, <2>4, <3>1
    <3>. QED  BY <1>1, <1>4, <2>4, <3>1, <3>2
  <2>. QED  BY <2>2, <2>3, <2>4
<1>9. StringText(s, width, flags) = w
  BY <1>2 DEF w
<1>. QED  BY <1>3, <1>4, <1>7, <1>8, <1>9

(* What is true of a field: its numbers, its argument, its text.           *)
FieldOK(sp, arg, t) ==
  /\ sp.width \in Int /\ sp.width >= -1 /\ sp.precision \in Int /\ sp.precision >= -1
  /\ sp.type = "c" => Len(t) = IF sp.width > 1 THEN sp.width ELSE 1
  /\ sp.type = "s" => Amid(t, arg, sp.width, sp.flags)
  /\ sp.type \in {"x", "d", "u"} =>
       /\ arg \in Int
       /\ t = Number(arg % WORD, IF sp.type = "x" THEN 16 ELSE 10,
                     sp.width, sp.precision, sp.flags)

FieldInv ==
  /\ ScanInv /\ FieldOK(last.spec, last.arg, last.text)
  /\ str \in Seq(Letters) /\ vret \in 0 .. Len(str)

LEMMA FieldStarts == FormatInit => FieldInv
<1>. SUFFICES ASSUME FormatInit PROVE FieldInv
  OBVIOUS
<1>1. ScanInv
  BY ScanStarts
<1>2. str = <<>> /\ vret = 0 /\ last = NoField
  BY DEF FormatInit
<1>3. str \in Seq(Letters) /\ vret \in 0 .. Len(str)
  BY <1>2
<1>4. /\ NoField.spec.width = -1 /\ NoField.spec.precision = -1
      /\ NoField.spec.type \notin {"c", "s", "x", "d", "u"}
  BY DEF NoField
<1>5. FieldOK(last.spec, last.arg, last.text)
  BY <1>2, <1>4 DEF FieldOK
<1>. QED  BY <1>1, <1>3, <1>5 DEF FieldInv

LEMMA Written ==
  ASSUME FieldInv, NEW w \in Seq(Letters), str' = str \o w, vret' = vret
  PROVE  (str \in Seq(Letters) /\ vret \in 0 .. Len(str))'
<1>1. str \in Seq(Letters) /\ vret \in 0 .. Len(str)
  BY DEF FieldInv
<1>2. str \o w \in Seq(Letters) /\ Len(str \o w) = Len(str) + Len(w)
  BY <1>1, ConcatProperties
<1>3. str' \in Seq(Letters) /\ Len(str') = Len(str) + Len(w)
  BY <1>2, Zenon
<1>4. vret \in 0 .. Len(str) + Len(w)
  BY <1>1
<1>. QED  BY <1>3, <1>4

LEMMA Emitted ==
  ASSUME FieldInv, NEW w \in Seq(Letters), Emit(w), ScanInv',
         FieldOK(Conversion, Head(args), w)
  PROVE  FieldInv'
<1>1. /\ last' = [spec |-> Conversion, arg |-> Head(args), text |-> w]
      /\ str' = str \o w /\ vret' = vret
  BY DEF Emit
<1>2. FieldOK(last'.spec, last'.arg, last'.text)
  <2>1. last'.spec = Conversion /\ last'.arg = Head(args) /\ last'.text = w
    BY <1>1
  <2>. QED  BY <2>1
<1>. QED  BY <1>1, <1>2, Written DEF FieldInv

LEMMA FieldKept ==
  ASSUME FieldInv, [FormatNext]_fvars
  PROVE  FieldInv'
<1>1. ScanInv /\ ScanInv'
  BY ScanKept DEF FieldInv
<1>2. PICK c \in Calls : fmt = c.fmt
  BY <1>1 DEF ScanInv
<1>3. fmt \in Seq(STRING) /\ k \in 1 .. Len(fmt) + 1
  BY <1>1, <1>2, FormatAssumption DEF WellCalled, ScanInv
<1>4. CASE Ordinary
  <2>1. fmt[k] \in Letters
    <3>1. k # Len(fmt) + 1
      BY <1>3, <1>4, AtTheEnd DEF Ordinary
    <3>2. fmt[k] \in STRING
      BY <1>3, <3>1, ElementOfSeq, AtTheEnd
    <3>. QED  BY <3>2, OwnLetters
  <2>2. /\ str' = Append(str, fmt[k]) /\ UNCHANGED <<vret, last>>
    BY <1>4 DEF Ordinary
  <2>3. str \in Seq(Letters) /\ vret \in 0 .. Len(str)
    BY DEF FieldInv
  <2>4. Append(str, fmt[k]) \in Seq(Letters) /\ Len(Append(str, fmt[k])) = Len(str) + 1
    BY <2>1, <2>3, AppendElements
  <2>5. (str \in Seq(Letters) /\ vret \in 0 .. Len(str))'
    BY <2>2, <2>3, <2>4
  <2>. QED  BY <1>1, <2>2, <2>5 DEF FieldInv
<1>5. ASSUME InSpec, ~Conversion.star
      PROVE  /\ Conversion.width \in Int /\ Conversion.width >= -1
             /\ Conversion.precision \in Int /\ Conversion.precision >= -1
             /\ Conversion.type \in Types =>
                  /\ Conversion.type = "c" => Head(args) \in STRING
                  /\ Conversion.type = "s" => Head(args) \in Seq(STRING)
                  /\ Conversion.type \in {"x", "d", "u"} => Head(args) \in Int
  <2>1. /\ k \in 1 .. Len(fmt)
        /\ Conversion.type \in Types =>
             /\ Conversion.type = "c" => Head(args) \in STRING
             /\ Conversion.type = "s" => Head(args) \in Seq(STRING)
             /\ Conversion.type \in {"x", "d", "u"} => Head(args) \in Int
    BY <1>1, <1>5, ConversionFinds
  <2>2. Conversion.width \in Nat \cup {-1} /\ Conversion.precision \in Nat \cup {-1}
    BY <1>3, <2>1, ConversionNumbers DEF Conversion
  <2>. QED  BY <2>1, <2>2
<1>6. CASE FormatChar
  <2>. DEFINE w == CharText(Head(args), Conversion.width, Conversion.flags)
  <2>1. InSpec /\ ~Conversion.star /\ Conversion.type = "c" /\ Emit(w)
    BY <1>6 DEF FormatChar
  <2>2. Head(args) \in Letters
    BY <1>5, <2>1, OwnLetters DEF Types
  <2>3. w \in Seq(Letters) /\ Len(w) = IF Conversion.width > 1 THEN Conversion.width ELSE 1
    BY <1>5, <2>1, <2>2, Wide
  <2>. HIDE DEF w
  <2>4. FieldOK(Conversion, Head(args), w)
    BY <1>5, <2>1, <2>3 DEF FieldOK
  <2>. QED  BY <1>1, <2>1, <2>3, <2>4, Emitted
<1>7. CASE FormatString
  <2>. DEFINE w == StringText(Head(args), Conversion.width, Conversion.flags)
  <2>1. InSpec /\ ~Conversion.star /\ Conversion.type = "s" /\ Emit(w)
    BY <1>7 DEF FormatString
  <2>2. w \in Seq(Letters) /\ Amid(w, Head(args), Conversion.width, Conversion.flags)
    BY <1>5, <2>1, Strung DEF Types
  <2>. HIDE DEF w
  <2>3. FieldOK(Conversion, Head(args), w)
    BY <1>5, <2>1, <2>2 DEF FieldOK
  <2>. QED  BY <1>1, <2>1, <2>2, <2>3, Emitted
<1>8. CASE FormatNumber
  <2>. DEFINE m == Head(args) % WORD
              base == IF Conversion.type = "x" THEN 16 ELSE 10
              w == Number(m, base, Conversion.width, Conversion.precision, Conversion.flags)
  <2>1. InSpec /\ ~Conversion.star /\ Conversion.type \in {"x", "d", "u"} /\ Emit(w)
    BY <1>8 DEF FormatNumber
  <2>2. Head(args) \in Int
    BY <1>5, <2>1 DEF Types
  <2>3. m \in Nat /\ base \in {10, 16}
    BY <2>2, FormatAssumption
  <2>. HIDE DEF m, base
  <2>4. w \in Seq(Letters)
    BY <1>5, <2>1, <2>3, Fields
  <2>. HIDE DEF w
  <2>5. FieldOK(Conversion, Head(args), w)
    BY <1>5, <2>1, <2>2 DEF FieldOK, w, m, base
  <2>. QED  BY <1>1, <2>1, <2>4, <2>5, Emitted
<1>9. CASE FormatUnknown \/ GiveUp \/ Finish \/ UNCHANGED fvars
  <2>1. UNCHANGED <<str, last>> /\ vret' \in {vret, 0, Len(str)}
    BY <1>9 DEF FormatUnknown, GiveUp, Finish, fvars
  <2>2. str \in Seq(Letters) /\ vret \in 0 .. Len(str) /\ Len(str) \in Nat
    BY DEF FieldInv
  <2>. QED  BY <1>1, <2>1, <2>2 DEF FieldInv
<1>. QED  BY <1>4, <1>6, <1>7, <1>8, <1>9 DEF FormatNext

LEMMA FieldsGood ==
  ASSUME FieldInv
  PROVE  FieldLaws
<1>1. FieldOK(spec, last.arg, text)
  BY DEF FieldInv, spec, text
<1>2. FormatTypeOK
  BY <1>1 DEF FieldInv, ScanInv, FieldOK, FormatTypeOK, spec
<1>3. spec.type = "c" => Len(text) = IF spec.width > 1 THEN spec.width ELSE 1
  BY <1>1 DEF FieldOK
<1>6. StringField
  <2>1. spec.type = "s" => Amid(text, last.arg, spec.width, spec.flags)
    BY <1>1 DEF FieldOK
  <2>. QED  BY <2>1, Zenon DEF StringField, Amid, Space
<1>4. ASSUME IsNumber
      PROVE  ReadsBack /\ FieldWidth /\ Justified
  <2>. DEFINE m == last.arg % WORD
              base == IF spec.type = "x" THEN 16 ELSE 10
              least == Needed(m, base, spec.precision, spec.flags)
  <2>1. /\ last.arg \in Int /\ spec.width \in Int /\ spec.precision \in Int
        /\ text = Number(m, base, spec.width, spec.precision, spec.flags)
    BY <1>1, <1>4 DEF FieldOK, IsNumber
  <2>2. m \in Nat /\ base \in {10, 16}
    BY <2>1, FormatAssumption
  <2>. HIDE DEF m, base
  <2>3. /\ ReadIn(base, text) = m
        /\ Len(text) = IF spec.width > least THEN spec.width ELSE least
        /\ Standing(text, spec.flags)
    BY <2>1, <2>2, Fields
  <2>4. ReadsBack
    BY <2>3 DEF ReadsBack, m, base
  <2>5. Justified
    BY <2>3, Zenon DEF Justified, Standing, Space, Minus
  <2>6. HeadLength(base, spec.flags)
          = (IF spec.flags \cap {"+", " "} # {} THEN 1 ELSE 0)
            + (IF "#" \in spec.flags /\ spec.type = "x" THEN 2 ELSE 0)
    <3>1. base = 16 <=> spec.type = "x"
      BY DEF base
    <3>2. (IF "#" \in spec.flags /\ base = 16 THEN 2 ELSE 0)
          = (IF "#" \in spec.flags /\ spec.type = "x" THEN 2 ELSE 0)
      BY <3>1
    <3>. QED  BY <3>2, Zenon DEF HeadLength
  <2>7. FieldWidth
    <3>. DEFINE d == Len(Numeral(m, base))
                need == (IF spec.precision > d THEN spec.precision ELSE d)
                        + HeadLength(base, spec.flags)
    <3>1. Len(text) = IF spec.width > need THEN spec.width ELSE need
      BY <2>3 DEF Needed
    <3>. DEFINE y == IF spec.precision > d THEN spec.precision ELSE d
                a == IF spec.flags \cap {"+", " "} # {} THEN 1 ELSE 0
                z == IF "#" \in spec.flags /\ spec.type = "x" THEN 2 ELSE 0
                long == y + a + z
    <3>2. need = y + (a + z)
      BY <2>6, Zenon
    <3>3. need = long
      <4>1. d \in Nat
        BY <2>2, NumeralReads
      <4>. HIDE DEF d
      <4>2. y \in Int
        BY <2>1, <4>1
      <4>3. a \in Int
        <5>1. 0 \in Int /\ 1 \in Int
          OBVIOUS
        <5>. QED  BY <5>1, Zenon
      <4>4. z \in Int
        OBVIOUS
      <4>. HIDE DEF y, a, z, need
      <4>. QED  BY <3>2, <4>2, <4>3, <4>4
    <3>4. Len(text) = IF spec.width > long THEN spec.width ELSE long
      BY <3>1, <3>3, Zenon
    <3>. QED  BY <1>3, <3>4, Zenon DEF FieldWidth, m, base
  <2>. QED  BY <2>4, <2>5, <2>7
<1>5. ~IsNumber => ReadsBack /\ FieldWidth /\ Justified
  BY <1>3, Zenon DEF ReadsBack, FieldWidth, Justified
<1>. QED  BY <1>2, <1>4, <1>5, <1>6 DEF FieldLaws

(* What each field shows, how wide it is and what fills it, departures     *)
(* from docs/024-printk.md included, for every format, width and argument. *)
THEOREM FieldsKeepLaws == FormatSpec => []FieldLaws
<1>1. FormatInit => FieldInv
  BY FieldStarts
<1>2. FieldInv /\ [FormatNext]_fvars => FieldInv'
  BY FieldKept
<1>3. FieldInv => FieldLaws
  BY FieldsGood
<1>. QED  BY <1>1, <1>2, <1>3, PTL DEF FormatSpec

-----------------------------------------------------------------------------
(***************************************************************************)
(* The clock is read as it was at one moment, and no alarm is lost, for    *)
(* every length of minute and day and however late the interrupt is.  The  *)
(* invariant says which function may be at which step (StepInv), what was  *)
(* read so far (ReadInv, ReadDone), what was written of the next alarm     *)
(* (AlarmInv), and how the flag and the line go together (LineInv).        *)
(***************************************************************************)

Reading == {"sec", "min", "hour", "day", "again", "mode"}
Setting == {"alarm sec", "alarm min", "alarm hour", "set handler", "flag"}

StepInv ==
  /\ code = "time_init" => step \in Reading
  /\ code = "rtc_init" => step \in Reading \cup (Setting \ {"flag"}) \cup {"regb"}
  /\ code = "handler" => step \in Reading \cup (Setting \ {"set handler"})
  /\ code = "idle" => step = "none"
  /\ code \in {"handler", "idle"} \/ (code = "rtc_init" /\ step # "regb") => ~binary /\ aie

(* Either what was read is what the clock shows, or the second was read    *)
(* before the one tick there can be, which reading it again will show.     *)
ReadInv ==
  step \in {"min", "hour", "day", "again"} =>
    \/ /\ tm.sec = Byte(now.sec)
       /\ step \in {"hour", "day", "again"} => tm.min = Byte(now.min)
       /\ step \in {"day", "again"} => tm.hour = Byte(now.hour)
       /\ step = "again" => tm.day = now.day
    \/ tm.sec # Byte(now.sec) /\ slow > 0

Near(t) == now = t \/ (now = Tick(t) /\ slow > 0)

ReadDone ==
  step = "mode" =>
    \E t \in Times : /\ tm.sec = Byte(t.sec) /\ tm.min = Byte(t.min) /\ tm.hour = Byte(t.hour)
                     /\ tm.day = t.day /\ Near(t)

Ring(t) == AlarmFor(Tick(Tick(t)))

AlarmInv ==
  step \in Setting =>
    \E t \in Times :
      /\ tm.sec = t.sec /\ tm.min = t.min /\ tm.hour = t.hour /\ Near(t)
      /\ step # "alarm sec" => alarm.sec = Ring(t).sec
      /\ step \notin {"alarm sec", "alarm min"} => alarm.min = Ring(t).min
      /\ step \notin {"alarm sec", "alarm min", "alarm hour"} => alarm.hour = Ring(t).hour

LineInv ==
  /\ code # "handler" /\ aie /\ af => irq
  /\ code = "handler" => af /\ ~irq
  /\ irq => af

RInv ==
  /\ RtcTypeOK /\ StepInv /\ ReadInv /\ ReadDone /\ AlarmInv /\ LineInv /\ AlarmNeverLost

-----------------------------------------------------------------------------
(* Numbers, and times.                                                     *)
LEMMA Limits ==
  /\ SIXTY \in 3 .. 60 /\ HOURS \in 1 .. 24 /\ SLOW \in Nat /\ SLOW < 2
  /\ Len(Dates) \in Nat \ {0}
BY RtcAssumption DEF ALARM

LEMMA Integral == SIXTY \in Int /\ HOURS \in Int
<1>1. SIXTY \in 3 .. 60 /\ HOURS \in 1 .. 24
  BY RtcAssumption
<1>. QED  BY <1>1

LEMMA Bcd ==
  ASSUME NEW a \in 0 .. 59
  PROVE  /\ BinToBcd(a) \in 0 .. 255 /\ BcdToBin(BinToBcd(a)) = a
         /\ \A b \in 0 .. 59 : BinToBcd(a) = BinToBcd(b) => a = b
BY DEF BinToBcd, BcdToBin

LEMMA BcdType ==
  ASSUME NEW a \in 0 .. 255
  PROVE  BcdToBin(a) \in 0 .. 255
BY DEF BcdToBin

LEMMA TimeFields ==
  ASSUME NEW t \in Times
  PROVE  /\ t.sec \in 0 .. SIXTY - 1 /\ t.min \in 0 .. SIXTY - 1 /\ t.hour \in 0 .. HOURS - 1
         /\ t.day \in 1 .. Len(Dates)
         /\ t.sec \in 0 .. 59 /\ t.min \in 0 .. 59 /\ t.hour \in 0 .. 59
<1>1. /\ t.sec \in 0 .. SIXTY - 1 /\ t.min \in 0 .. SIXTY - 1 /\ t.hour \in 0 .. HOURS - 1
      /\ t.day \in 1 .. Len(Dates)
  BY DEF Times
<1>2. SIXTY \in 3 .. 60 /\ HOURS \in 1 .. 24
  BY Limits
<1>3. 0 .. SIXTY - 1 \subseteq 0 .. 59 /\ 0 .. HOURS - 1 \subseteq 0 .. 59
  BY <1>2
<1>. QED  BY <1>1, <1>3

LEMMA ByteType ==
  ASSUME NEW a \in 0 .. 59
  PROVE  /\ Byte(a) \in Bytes8 /\ (~binary => BcdToBin(Byte(a)) = a)
         /\ \A b \in 0 .. 59 : Byte(a) = Byte(b) => a = b
<1>1. CASE binary
  BY <1>1 DEF Byte, Bytes8
<1>2. CASE ~binary
  <2>1. \A b \in 0 .. 59 : Byte(b) = BinToBcd(b)
    BY <1>2 DEF Byte
  <2>2. \A b \in 0 .. 59 : BinToBcd(b) \in Bytes8 /\ BcdToBin(BinToBcd(b)) = b
    <3>1. ASSUME NEW b \in 0 .. 59 PROVE BinToBcd(b) \in Bytes8 /\ BcdToBin(BinToBcd(b)) = b
      <4>1. BinToBcd(b) \in 0 .. 255 /\ BcdToBin(BinToBcd(b)) = b
        BY Bcd
      <4>. QED  BY <4>1 DEF Bytes8
    <3>. QED  BY <3>1
  <2>3. \A b \in 0 .. 59 : Byte(a) = Byte(b) => a = b
    <3>. SUFFICES ASSUME NEW b \in 0 .. 59, Byte(a) = Byte(b) PROVE a = b
      OBVIOUS
    <3>1. BinToBcd(a) = BinToBcd(b)
      BY <2>1
    <3>2. a = BcdToBin(BinToBcd(a)) /\ b = BcdToBin(BinToBcd(b))
      BY <2>2
    <3>. QED  BY <3>1, <3>2
  <2>. QED  BY <1>2, <2>1, <2>2, <2>3
<1>. QED  BY <1>1, <1>2

LEMMA Small ==
  ASSUME NEW n \in Nat, NEW a \in Nat, a < n
  PROVE  a % n = a /\ a \div n = 0
OBVIOUS

LEMMA Wrap ==
  ASSUME NEW n \in Nat \ {0}, NEW a \in 0 .. n - 1
  PROVE  (a + 1) % n = IF a + 1 = n THEN 0 ELSE a + 1
<1>1. CASE a + 1 = n
  BY <1>1
<1>2. CASE a + 1 # n
  BY <1>2
<1>. QED  BY <1>1, <1>2

LEMMA TickIs ==
  ASSUME NEW t \in Times
  PROVE  /\ Tick(t) \in Times
         /\ Tick(t).sec = IF t.sec + 1 = SIXTY THEN 0 ELSE t.sec + 1
         /\ Tick(t).min = IF t.sec + 1 # SIXTY THEN t.min
                          ELSE IF t.min + 1 = SIXTY THEN 0 ELSE t.min + 1
         /\ Tick(t).hour = IF t.sec + 1 # SIXTY \/ t.min + 1 # SIXTY THEN t.hour
                           ELSE IF t.hour + 1 = HOURS THEN 0 ELSE t.hour + 1
<1>. DEFINE sec == (t.sec + 1) % SIXTY
            min == (t.min + 1) % SIXTY
            hour == (t.hour + 1) % HOURS
            day == (t.day % Len(Dates)) + 1
<1>1. sec = IF t.sec + 1 = SIXTY THEN 0 ELSE t.sec + 1
  <2>1. SIXTY \in Nat \ {0} /\ t.sec \in 0 .. SIXTY - 1
    BY TimeFields, Limits
  <2>. QED  BY <2>1, Wrap
<1>2. min = IF t.min + 1 = SIXTY THEN 0 ELSE t.min + 1
  <2>1. SIXTY \in Nat \ {0} /\ t.min \in 0 .. SIXTY - 1
    BY TimeFields, Limits
  <2>. QED  BY <2>1, Wrap
<1>3. hour = IF t.hour + 1 = HOURS THEN 0 ELSE t.hour + 1
  <2>1. HOURS \in Nat \ {0} /\ t.hour \in 0 .. HOURS - 1
    BY TimeFields, Limits
  <2>. QED  BY <2>1, Wrap
<1>4. day \in 1 .. Len(Dates)
  BY TimeFields, Limits
<1>5. Tick(t) = [sec |-> sec,
                 min |-> IF sec = 0 THEN min ELSE t.min,
                 hour |-> IF sec = 0 /\ (IF sec = 0 THEN min ELSE t.min) = 0
                          THEN hour ELSE t.hour,
                 day |-> IF sec = 0 /\ (IF sec = 0 THEN min ELSE t.min) = 0
                              /\ (IF sec = 0 /\ (IF sec = 0 THEN min ELSE t.min) = 0
                                  THEN hour ELSE t.hour) = 0
                         THEN day ELSE t.day]
  BY DEF Tick
<1>. HIDE DEF sec, min, hour, day
<1>6. /\ (sec = 0 <=> t.sec + 1 = SIXTY)
      /\ (min = 0 <=> t.min + 1 = SIXTY)
      /\ sec \in 0 .. SIXTY - 1 /\ min \in 0 .. SIXTY - 1 /\ hour \in 0 .. HOURS - 1
  <2>1. /\ t.sec \in 0 .. SIXTY - 1 /\ t.min \in 0 .. SIXTY - 1 /\ t.hour \in 0 .. HOURS - 1
        /\ SIXTY \in 3 .. 60 /\ HOURS \in 1 .. 24
    BY TimeFields, Limits
  <2>2. sec \in 0 .. SIXTY - 1 /\ (sec = 0 <=> t.sec + 1 = SIXTY)
    BY <1>1, <2>1
  <2>3. min \in 0 .. SIXTY - 1 /\ (min = 0 <=> t.min + 1 = SIXTY)
    BY <1>2, <2>1
  <2>4. hour \in 0 .. HOURS - 1
    BY <1>3, <2>1
  <2>. QED  BY <2>2, <2>3, <2>4
<1>7. Tick(t) \in Times
  BY <1>4, <1>5, <1>6, TimeFields DEF Times
<1>. QED  BY <1>1, <1>2, <1>3, <1>5, <1>6, <1>7

LEMMA TickMoves ==
  ASSUME NEW t \in Times
  PROVE  Byte(Tick(t).sec) # Byte(t.sec)
<1>1. Tick(t).sec # t.sec /\ Tick(t).sec \in 0 .. 59 /\ t.sec \in 0 .. 59
  BY TickIs, TimeFields, Limits
<1>. QED  BY <1>1, ByteType

(* set_alarm_sec's carries do what the chip's clock will do.               *)
LEMMA AlarmTime ==
  ASSUME NEW t \in Times, NEW r, r.sec = t.sec, r.min = t.min, r.hour = t.hour
  PROVE  /\ TimeAfter(r, ALARM).sec = Tick(Tick(t)).sec
         /\ TimeAfter(r, ALARM).min = Tick(Tick(t)).min
         /\ TimeAfter(r, ALARM).hour = Tick(Tick(t)).hour
<1>1. 2 % SIXTY = 2 /\ 2 \div SIXTY = 0 /\ 0 % SIXTY = 0 /\ 0 \div SIXTY = 0
  BY Limits, Small
<1>2. /\ TimeAfter(r, ALARM).sec = (t.sec + 2) - SIXTY * Carry(t.sec + 2, SIXTY)
      /\ TimeAfter(r, ALARM).min =
           LET m == t.min + 0 + Carry(t.sec + 2, SIXTY) IN m - SIXTY * Carry(m, SIXTY)
      /\ TimeAfter(r, ALARM).hour =
           LET m == t.min + 0 + Carry(t.sec + 2, SIXTY)
               h == t.hour + 0 + Carry(m, SIXTY)
           IN  h - HOURS * Carry(h, HOURS)
  <2> DEFINE s == r.sec + (ALARM % SIXTY)
             m == r.min + ((ALARM \div SIXTY) % SIXTY) + Carry(s, SIXTY)
             h == r.hour + ((ALARM \div SIXTY) \div SIXTY) + Carry(m, SIXTY)
  <2>1. /\ TimeAfter(r, ALARM).sec = s - SIXTY * Carry(s, SIXTY)
        /\ TimeAfter(r, ALARM).min = m - SIXTY * Carry(m, SIXTY)
        /\ TimeAfter(r, ALARM).hour = h - HOURS * Carry(h, HOURS)
    BY DEF TimeAfter
  <2>2. s = t.sec + 2
    BY <1>1 DEF ALARM
  <2>3. m = t.min + 0 + Carry(t.sec + 2, SIXTY)
    BY <1>1, <2>2, Zenon DEF ALARM
  <2>4. h = t.hour + 0 + Carry(m, SIXTY)
    BY <1>1, Zenon DEF ALARM
  <2> HIDE DEF s, m, h
  <2>5. m - SIXTY * Carry(m, SIXTY) =
          LET v == t.min + 0 + Carry(t.sec + 2, SIXTY) IN v - SIXTY * Carry(v, SIXTY)
    BY <2>3
  <2>6. h = t.hour + 0 + Carry(t.min + 0 + Carry(t.sec + 2, SIXTY), SIXTY)
    BY <2>3, <2>4
  <2>7. h - HOURS * Carry(h, HOURS) =
          LET j == t.min + 0 + Carry(t.sec + 2, SIXTY)
              v == t.hour + 0 + Carry(j, SIXTY)
          IN  v - HOURS * Carry(v, HOURS)
    BY <2>6
  <2>8. TimeAfter(r, ALARM).sec = (t.sec + 2) - SIXTY * Carry(t.sec + 2, SIXTY)
    <3>1. s - SIXTY * Carry(s, SIXTY) =
            LET v == t.sec + 2 IN v - SIXTY * Carry(v, SIXTY)
      BY <2>2
    <3>. QED  BY <2>1, <3>1, Zenon
  <2>9. TimeAfter(r, ALARM).min =
          LET v == t.min + 0 + Carry(t.sec + 2, SIXTY) IN v - SIXTY * Carry(v, SIXTY)
    BY <2>1, <2>5, Zenon
  <2>10. TimeAfter(r, ALARM).hour =
           LET j == t.min + 0 + Carry(t.sec + 2, SIXTY)
               v == t.hour + 0 + Carry(j, SIXTY)
           IN  v - HOURS * Carry(v, HOURS)
    BY <2>1, <2>7, Zenon
  <2>. QED  BY <2>8, <2>9, <2>10
<1> DEFINE u == Tick(t)
<1>3. u \in Times
  BY TickIs
<1>4. /\ t.sec \in 0 .. SIXTY - 1 /\ t.min \in 0 .. SIXTY - 1 /\ t.hour \in 0 .. HOURS - 1
      /\ u.sec = IF t.sec + 1 = SIXTY THEN 0 ELSE t.sec + 1
      /\ u.min = IF t.sec + 1 # SIXTY THEN t.min
                 ELSE IF t.min + 1 = SIXTY THEN 0 ELSE t.min + 1
      /\ u.hour = IF t.sec + 1 # SIXTY \/ t.min + 1 # SIXTY THEN t.hour
                  ELSE IF t.hour + 1 = HOURS THEN 0 ELSE t.hour + 1
  BY TickIs, TimeFields
<1> HIDE DEF u
<1>5. /\ Tick(u).sec = IF u.sec + 1 = SIXTY THEN 0 ELSE u.sec + 1
      /\ Tick(u).min = IF u.sec + 1 # SIXTY THEN u.min
                       ELSE IF u.min + 1 = SIXTY THEN 0 ELSE u.min + 1
      /\ Tick(u).hour = IF u.sec + 1 # SIXTY \/ u.min + 1 # SIXTY THEN u.hour
                        ELSE IF u.hour + 1 = HOURS THEN 0 ELSE u.hour + 1
  BY <1>3, TickIs
<1>6. CASE t.sec + 2 < SIXTY
  BY <1>2, <1>4, <1>5, <1>6, Limits DEF Carry, u
<1>7. CASE t.sec + 2 >= SIXTY
  <2>1. Carry(t.sec + 2, SIXTY) = 1
    BY <1>7 DEF Carry
  <2>2. /\ u.sec + 1 = SIXTY \/ (t.sec + 1 = SIXTY /\ u.sec = 0)
        /\ t.sec + 1 = SIXTY \/ (t.sec + 2 = SIXTY /\ u.sec = t.sec + 1)
    <3>1. SIXTY \in Int /\ t.sec \in Int /\ t.sec <= SIXTY - 1
      <4>1. SIXTY \in Int
        BY Integral
      <4>. QED  BY <1>4, <4>1
    <3>2. t.sec + 1 = SIXTY \/ (t.sec + 2 = SIXTY /\ t.sec + 1 # SIXTY)
      BY <1>7, <3>1
    <3>3. (t.sec + 1) + 1 = t.sec + 2
      BY <3>1
    <3>. QED  BY <1>4, <3>2, <3>3, Zenon
  <2>3. Tick(u).sec = t.sec + 2 - SIXTY
    BY <1>4, <1>5, <2>2, Limits
  <2>4. /\ Tick(u).min = IF t.min + 1 = SIXTY THEN 0 ELSE t.min + 1
        /\ Tick(u).hour = IF t.min + 1 # SIXTY THEN t.hour
                          ELSE IF t.hour + 1 = HOURS THEN 0 ELSE t.hour + 1
    <3>1. CASE t.sec + 1 = SIXTY
      <4>1. u.sec + 1 # SIXTY
        BY <1>4, <3>1, Limits
      <4>. QED  BY <1>4, <1>5, <3>1, <4>1
    <3>2. CASE t.sec + 1 # SIXTY
      <4>1. u.sec + 1 = SIXTY /\ u.min = t.min /\ u.hour = t.hour
        BY <1>4, <2>2, <3>2
      <4>. QED  BY <1>5, <4>1
    <3>. QED  BY <3>1, <3>2
  <2>5. /\ TimeAfter(r, ALARM).sec = t.sec + 2 - SIXTY
        /\ TimeAfter(r, ALARM).min = (t.min + 1) - SIXTY * Carry(t.min + 1, SIXTY)
        /\ TimeAfter(r, ALARM).hour =
             LET h == t.hour + Carry(t.min + 1, SIXTY) IN h - HOURS * Carry(h, HOURS)
    <3>1. t.min + 0 + 1 = t.min + 1 /\ t.hour + 0 = t.hour /\ SIXTY * 1 = SIXTY
      BY <1>4, Limits
    <3>2. TimeAfter(r, ALARM).sec = t.sec + 2 - SIXTY
      <4>1. TimeAfter(r, ALARM).sec = (t.sec + 2) - SIXTY * 1
        BY <1>2, <2>1, Zenon
      <4>2. (t.sec + 2) - SIXTY * 1 = t.sec + 2 - SIXTY
        <5>1. SIXTY \in Int
          BY Integral
        <5>2. t.sec \in Int
          BY <1>4, <5>1
        <5>. QED  BY <5>1, <5>2
      <4>. QED  BY <4>1, <4>2, Zenon
    <3>. QED  BY <1>2, <2>1, <3>1, <3>2, Zenon
  <2>6. CASE t.min + 1 = SIXTY
    <3>1. Carry(t.min + 1, SIXTY) = 1
      BY <1>4, <2>6, Limits DEF Carry
    <3>2. TimeAfter(r, ALARM).min = 0
      BY <2>5, <2>6, <3>1, Limits
    <3>3. TimeAfter(r, ALARM).hour = (t.hour + 1) - HOURS * Carry(t.hour + 1, HOURS)
      BY <2>5, <3>1, Zenon
    <3>4. TimeAfter(r, ALARM).hour = IF t.hour + 1 = HOURS THEN 0 ELSE t.hour + 1
      BY <1>4, <3>3, Limits DEF Carry
    <3>. QED  BY <2>3, <2>4, <2>5, <2>6, <3>2, <3>4 DEF u
  <2>7. CASE t.min + 1 # SIXTY
    <3>1. Carry(t.min + 1, SIXTY) = 0
      BY <1>4, <2>7, Limits DEF Carry
    <3>2. TimeAfter(r, ALARM).min = t.min + 1
      BY <1>4, <2>5, <3>1, Limits
    <3>3. TimeAfter(r, ALARM).hour = (t.hour + 0) - HOURS * Carry(t.hour + 0, HOURS)
      BY <2>5, <3>1, Zenon
    <3>4. TimeAfter(r, ALARM).hour = t.hour
      BY <1>4, <3>3, Limits DEF Carry
    <3>. QED  BY <2>3, <2>4, <2>5, <2>7, <3>2, <3>4 DEF u
  <2>. QED  BY <2>6, <2>7
<1>. QED  BY <1>4, <1>6, <1>7, Limits

LEMMA MonthType == \A m \in 1 .. 12 : month[m] \in 0 .. 335
BY DEF month

LEMMA YdayType ==
  ASSUME NEW d \in 1 .. Len(Dates)
  PROVE  Yday(Dates[d]) \in 0 .. 366
<1> DEFINE R == [year : 0 .. 99, mon : 1 .. 12, mday : 1 .. 31]
<1>1. Dates \in Seq(R)
  BY RtcAssumption
<1>2. \A r \in R : r.year \in 0 .. 99 /\ r.mon \in 1 .. 12 /\ r.mday \in 1 .. 31
  OBVIOUS
<1> HIDE DEF R
<1>3. Dates[d] \in R
  BY <1>1
<1> DEFINE mon == Dates[d].mon
            days == month[mon] + Dates[d].mday
            year == IF Dates[d].year >= 70 THEN Dates[d].year - 70
                                           ELSE Dates[d].year - 70 + 100
<1>5. Yday(Dates[d]) = IF year % 4 # 0 /\ mon > 2 THEN days - 1 ELSE days
  BY DEF Yday
<1>6. mon \in 1 .. 12 /\ Dates[d].mday \in 1 .. 31
  BY <1>2, <1>3
<1>7. month[mon] \in 0 .. 335
  <2> HIDE DEF mon
  <2>. QED  BY <1>6, MonthType
<1>8. days \in 1 .. 366
  <2>1. \A a \in 0 .. 335, b \in 1 .. 31 : a + b \in 1 .. 366
    OBVIOUS
  <2>. QED  BY <1>6, <1>7, <2>1, Zenon
<1>. HIDE DEF days, year
<1>. QED  BY <1>5, <1>8

-----------------------------------------------------------------------------
(* The actions.                                                            *)
LEMMA RtcInitInv == RtcInit => RInv
<1>1. SUFFICES ASSUME RtcInit PROVE RInv
  OBVIOUS
<1>2. RtcTypeOK
  <2>1. 1 \in 1 .. Len(Dates) /\ 0 \in Bytes8 /\ 0 \in 0 .. 366
    BY Limits DEF Bytes8
  <2>2. NoTime \in TmType /\ alarm \in [sec : Bytes8, min : Bytes8, hour : Bytes8]
    BY <1>1, <2>1 DEF RtcInit, NoTime, TmType
  <2>. QED  BY <1>1, <2>2 DEF RtcInit, RtcTypeOK
<1>. QED  BY <1>1, <1>2
             DEF RtcInit, RInv, StepInv, ReadInv, ReadDone, AlarmInv, LineInv, AlarmNeverLost,
                 Reading, Setting

LEMMA SecondInv == RInv /\ Second => RInv'
<1>1. SUFFICES ASSUME RInv, Second PROVE RInv'
  OBVIOUS
<1>2. /\ now \in Times /\ now' = Tick(now) /\ Tick(now) \in Times
      /\ UNCHANGED <<binary, aie, alarm, code, step, tm>> /\ slow \in Nat
      /\ code # "idle" => slow = 0 /\ slow' = 1
      /\ Byte(Tick(now).sec) # Byte(now.sec)
  <2>1. now \in Times /\ slow \in Nat
    BY <1>1 DEF RInv, RtcTypeOK
  <2>2. code # "idle" => slow = 0 /\ slow' = 1
    BY <1>1, <2>1, Limits DEF Second
  <2>. QED  BY <1>1, <2>1, <2>2, TickIs, TickMoves DEF Second
<1>3. /\ \/ alarm = AlarmFor(now') /\ af' = TRUE /\ irq' = (irq \/ (aie /\ ~af))
         \/ alarm # AlarmFor(now') /\ UNCHANGED <<af, irq>>
      /\ af \in BOOLEAN /\ irq \in BOOLEAN /\ aie \in BOOLEAN
  BY <1>1 DEF Second, RInv, RtcTypeOK
<1>4. slow' \in Nat
  BY <1>1, <1>2 DEF Second
<1>5. RtcTypeOK'
  <2>1. af' \in BOOLEAN /\ irq' \in BOOLEAN
    BY <1>3
  <2>. QED  BY <1>1, <1>2, <1>4, <2>1 DEF RInv, RtcTypeOK
<1>6. StepInv'
  BY <1>1, <1>2 DEF RInv, StepInv
<1>7. step # "none" => code # "idle"
  BY <1>1 DEF RInv, StepInv
<1>8. ReadInv'
  BY <1>1, <1>2, <1>7 DEF RInv, ReadInv, Byte
<1>9. ReadDone' /\ AlarmInv'
  <2>1. ASSUME NEW t \in Times, code # "idle" PROVE Near(t) => Near(t)'
    BY <1>2, <2>1 DEF Near, Tick
  <2>2. ReadDone'
    BY <1>1, <1>2, <1>7, <2>1 DEF RInv, ReadDone, Byte
  <2>3. AlarmInv'
    <3>1. SUFFICES ASSUME step \in Setting PROVE AlarmInv'
      BY <1>2 DEF AlarmInv
    <3>2. PICK t \in Times :
            /\ tm.sec = t.sec /\ tm.min = t.min /\ tm.hour = t.hour /\ Near(t)
            /\ step # "alarm sec" => alarm.sec = Ring(t).sec
            /\ step \notin {"alarm sec", "alarm min"} => alarm.min = Ring(t).min
            /\ step \notin {"alarm sec", "alarm min", "alarm hour"} =>
                 alarm.hour = Ring(t).hour
      BY <1>1, <3>1 DEF RInv, AlarmInv
    <3>3. Near(t)' /\ Ring(t)' = Ring(t)
      BY <1>2, <1>7, <2>1, <3>1, <3>2 DEF Setting, Ring, AlarmFor, Byte, Tick
    <3>. QED  BY <1>2, <3>2, <3>3 DEF AlarmInv
  <2>. QED  BY <2>2, <2>3
<1>10. LineInv'
  BY <1>1, <1>2, <1>3 DEF RInv, LineInv
<1>11. AlarmNeverLost'
  <2>1. SUFFICES ASSUME code = "idle", ~af'
                 PROVE  \E t \in {Tick(now'), Tick(Tick(now'))} : alarm = AlarmFor(t)'
    <3>1. ASSUME af' PROVE code = "idle" => irq'
      <4>1. code = "idle" => aie /\ (af => irq)
        BY <1>1 DEF RInv, LineInv, StepInv
      <4>2. code = "idle" /\ alarm = AlarmFor(now') => irq'
        BY <1>3, <4>1
      <4>3. alarm # AlarmFor(now') => af /\ irq' = irq
        BY <1>3, <3>1
      <4>. QED  BY <4>1, <4>2, <4>3
    <3>. QED  BY <1>2, <3>1 DEF AlarmNeverLost
  <2>2. ~af /\ alarm # AlarmFor(Tick(now))
    BY <1>2, <1>3, <2>1 DEF AlarmFor, Byte
  <2>3. alarm = AlarmFor(Tick(Tick(now)))
    BY <1>1, <2>1, <2>2 DEF RInv, AlarmNeverLost
  <2>. QED  BY <1>2, <2>3 DEF AlarmFor, Byte
<1>. QED  BY <1>5, <1>6, <1>8, <1>9, <1>10, <1>11 DEF RInv

(* What a step of time_read, or of what follows it, leaves alone.          *)
LEMMA CodeTypes ==
  ASSUME RInv, code # "idle"
  PROVE  /\ now \in Times /\ binary \in BOOLEAN /\ aie \in BOOLEAN /\ af \in BOOLEAN
         /\ irq \in BOOLEAN /\ slow \in Nat /\ tm \in TmType
         /\ alarm \in [sec : Bytes8, min : Bytes8, hour : Bytes8]
         /\ code \in {"time_init", "rtc_init", "handler"}
         /\ Byte(now.sec) \in Bytes8 /\ Byte(now.min) \in Bytes8 /\ Byte(now.hour) \in Bytes8
         /\ now.day \in 1 .. Len(Dates)
<1>1. /\ now \in Times /\ binary \in BOOLEAN /\ aie \in BOOLEAN /\ af \in BOOLEAN
      /\ irq \in BOOLEAN /\ slow \in Nat /\ tm \in TmType
      /\ alarm \in [sec : Bytes8, min : Bytes8, hour : Bytes8]
      /\ code \in {"time_init", "rtc_init", "handler"}
  BY DEF RInv, RtcTypeOK
<1>. QED  BY <1>1, TimeFields, ByteType

LEMMA ReadStepsInv ==
  RInv /\ (ReadSecond \/ ReadMinute \/ ReadHour \/ ReadDay \/ ReadAgain) => RInv'
<1>1. SUFFICES ASSUME RInv, ReadSecond \/ ReadMinute \/ ReadHour \/ ReadDay \/ ReadAgain
               PROVE  RInv'
  OBVIOUS
<1>2. /\ UNCHANGED chip /\ UNCHANGED <<code, slow>>
      /\ step \in Reading /\ step' \in Reading \ {"none"}
  BY <1>1 DEF ReadSecond, ReadMinute, ReadHour, ReadDay, ReadAgain, Goes, Reading
<1>3. code # "idle"
  BY <1>1, <1>2 DEF RInv, StepInv, Reading
<1>4. tm' \in TmType
  <2>1. tm \in TmType /\ now.day \in 1 .. Len(Dates)
        /\ Byte(now.sec) \in Bytes8 /\ Byte(now.min) \in Bytes8 /\ Byte(now.hour) \in Bytes8
    BY <1>1, <1>3, CodeTypes
  <2>2. ReadSecond => tm' \in TmType
    <3>1. PICK b \in Bytes8 : b = Byte(now.sec)
      BY <2>1
    <3>2. [tm EXCEPT !.sec = b] \in TmType
      BY <2>1 DEF TmType
    <3>. QED  BY <3>1, <3>2, Zenon DEF ReadSecond
  <2>3. ReadMinute => tm' \in TmType
    <3>1. PICK b \in Bytes8 : b = Byte(now.min)
      BY <2>1
    <3>2. [tm EXCEPT !.min = b] \in TmType
      BY <2>1 DEF TmType
    <3>. QED  BY <3>1, <3>2, Zenon DEF ReadMinute
  <2>4. ReadHour => tm' \in TmType
    <3>1. PICK b \in Bytes8 : b = Byte(now.hour)
      BY <2>1
    <3>2. [tm EXCEPT !.hour = b] \in TmType
      BY <2>1 DEF TmType
    <3>. QED  BY <3>1, <3>2, Zenon DEF ReadHour
  <2>5. ReadDay => tm' \in TmType
    <3>1. [tm EXCEPT !.day = now.day] \in TmType
      BY <2>1 DEF TmType
    <3>. QED  BY <3>1, Zenon DEF ReadDay
  <2>6. ReadAgain => tm' \in TmType
    BY <2>1 DEF ReadAgain
  <2>. QED  BY <1>1, <2>2, <2>3, <2>4, <2>5, <2>6
<1>5. RtcTypeOK'
  <2>1. step' \in {"sec", "min", "hour", "day", "again", "mode"}
    BY <1>2 DEF Reading
  <2>. QED  BY <1>1, <1>2, <1>4, <2>1 DEF RInv, RtcTypeOK, chip
<1>6. StepInv'
  <2>1. step # "regb"
    BY <1>2 DEF Reading
  <2>. QED  BY <1>1, <1>2, <1>3, <2>1 DEF RInv, StepInv, Reading, chip
<1>7. \A n : Byte(n)' = Byte(n)
  BY <1>2 DEF Byte, chip
<1>8. ReadInv' /\ ReadDone'
  <2>0. now' = now /\ slow' = slow /\ tm \in TmType /\ now \in Times
    BY <1>1, <1>2, <1>3, CodeTypes DEF chip
  <2>1. CASE ReadSecond
    BY <1>7, <2>0, <2>1 DEF ReadSecond, Goes, ReadInv, ReadDone, TmType
  <2>2. CASE ReadMinute
    <3>1. tm.sec = Byte(now.sec) \/ (tm.sec # Byte(now.sec) /\ slow > 0)
      BY <1>1, <2>2 DEF RInv, ReadInv, ReadMinute
    <3>2. tm'.sec = tm.sec /\ tm'.min = Byte(now.min) /\ step' = "hour"
      BY <2>0, <2>2 DEF ReadMinute, Goes, TmType
    <3>. QED  BY <1>7, <2>0, <3>1, <3>2 DEF ReadInv, ReadDone
  <2>3. CASE ReadHour
    <3>1. \/ tm.sec = Byte(now.sec) /\ tm.min = Byte(now.min)
          \/ tm.sec # Byte(now.sec) /\ slow > 0
      BY <1>1, <2>3 DEF RInv, ReadInv, ReadHour
    <3>2. /\ tm'.sec = tm.sec /\ tm'.min = tm.min /\ tm'.hour = Byte(now.hour)
          /\ step' = "day"
      BY <2>0, <2>3 DEF ReadHour, Goes, TmType
    <3>. QED  BY <1>7, <2>0, <3>1, <3>2 DEF ReadInv, ReadDone
  <2>4. CASE ReadDay
    <3>1. \/ tm.sec = Byte(now.sec) /\ tm.min = Byte(now.min) /\ tm.hour = Byte(now.hour)
          \/ tm.sec # Byte(now.sec) /\ slow > 0
      BY <1>1, <2>4 DEF RInv, ReadInv, ReadDay
    <3>2. /\ tm'.sec = tm.sec /\ tm'.min = tm.min /\ tm'.hour = tm.hour
          /\ tm'.day = now.day /\ step' = "again"
      BY <2>0, <2>4 DEF ReadDay, Goes, TmType
    <3>. QED  BY <1>7, <2>0, <3>1, <3>2 DEF ReadInv, ReadDone
  <2>5. CASE ReadAgain
    <3>1. CASE tm.sec = Byte(now.sec)
      <4>1. /\ tm.sec = Byte(now.sec) /\ tm.min = Byte(now.min)
            /\ tm.hour = Byte(now.hour) /\ tm.day = now.day
        BY <1>1, <2>5, <3>1 DEF RInv, ReadInv, ReadAgain
      <4>2. tm' = tm /\ step' = "mode"
        BY <2>5, <3>1 DEF ReadAgain, Goes
      <4>3. Near(now)'
        BY <2>0 DEF Near
      <4>. QED  BY <1>7, <2>0, <4>1, <4>2, <4>3 DEF ReadInv, ReadDone
    <3>2. CASE tm.sec # Byte(now.sec)
      BY <2>5, <3>2 DEF ReadAgain, Goes, ReadInv, ReadDone
    <3>. QED  BY <3>1, <3>2
  <2>. QED  BY <1>1, <2>1, <2>2, <2>3, <2>4, <2>5
<1>9. AlarmInv'
  BY <1>2 DEF AlarmInv, Setting, Reading
<1>10. LineInv' /\ AlarmNeverLost'
  BY <1>1, <1>2, <1>3 DEF RInv, LineInv, AlarmNeverLost, chip
<1>. QED  BY <1>5, <1>6, <1>8, <1>9, <1>10 DEF RInv

LEMMA ConvertInv == RInv /\ Convert => RInv'
<1>1. SUFFICES ASSUME RInv, Convert PROVE RInv'
  OBVIOUS
<1>2. UNCHANGED chip /\ step = "mode" /\ step' = AfterRead
  BY <1>1 DEF Convert
<1>3. code # "idle" /\ code' # "idle" /\ code' # "time_init"
      /\ (code' = "handler" <=> code = "handler")
  BY <1>1, <1>2 DEF RInv, RtcTypeOK, StepInv, Convert
<1>4. tm \in TmType /\ now \in Times /\ slow \in Nat /\ binary \in BOOLEAN
  BY <1>1, <1>3, CodeTypes
<1>5. tm.sec \in 0 .. 255 /\ tm.min \in 0 .. 255 /\ tm.hour \in 0 .. 255
      /\ tm.day \in 1 .. Len(Dates)
  BY <1>4 DEF TmType, Bytes8
<1>6. tm' \in TmType
  <2>1. /\ BcdToBin(tm.sec) \in Bytes8 /\ BcdToBin(tm.min) \in Bytes8
        /\ BcdToBin(tm.hour) \in Bytes8 /\ Yday(Dates[tm.day]) \in 0 .. 366
    BY <1>5, BcdType, YdayType DEF Bytes8
  <2>. QED  BY <1>1, <1>4, <2>1 DEF Convert, TmType
<1>7. RtcTypeOK' /\ StepInv' /\ ReadInv' /\ ReadDone' /\ LineInv' /\ AlarmNeverLost'
  <2>1. \/ code = "time_init" /\ step' = "regb" /\ code' = "rtc_init" /\ slow' = 0
        \/ code # "time_init" /\ step' = "alarm sec" /\ code' = code /\ slow' = slow
    BY <1>1 DEF Convert, AfterRead
  <2>2. RtcTypeOK'
    <3>1. /\ slow' \in Nat /\ code' \in {"rtc_init", "handler"}
          /\ step' \in {"regb", "alarm sec"}
      <4>1. code \in {"time_init", "rtc_init", "handler"}
        BY <1>1, <1>3, CodeTypes
      <4>2. slow' \in Nat
        <5>1. 0 \in Nat
          OBVIOUS
        <5>. QED  BY <1>4, <2>1, <5>1, Zenon
      <4>3. code' \in {"rtc_init", "handler"}
        BY <2>1, <4>1
      <4>. QED  BY <2>1, <4>2, <4>3
    <3>. QED  BY <1>1, <1>2, <1>6, <3>1 DEF RInv, RtcTypeOK, chip
  <2>3. StepInv'
    BY <1>1, <1>2, <1>3, <2>1 DEF RInv, StepInv, Setting, Reading, chip
  <2>4. LineInv' /\ AlarmNeverLost'
    BY <1>1, <1>2, <1>3 DEF RInv, LineInv, AlarmNeverLost, chip
  <2>. QED  BY <2>1, <2>2, <2>3, <2>4 DEF ReadInv, ReadDone
<1>8. AlarmInv'
  <2>1. CASE code = "time_init"
    BY <1>2, <2>1 DEF AlarmInv, Setting, AfterRead
  <2>2. CASE code # "time_init"
    <3>1. ~binary /\ step' = "alarm sec" /\ slow' = slow /\ now' = now
      BY <1>1, <1>2, <1>3, <2>2
         DEF RInv, RtcTypeOK, StepInv, Convert, AfterRead, chip
    <3>2. PICK t \in Times :
            /\ tm.sec = Byte(t.sec) /\ tm.min = Byte(t.min) /\ tm.hour = Byte(t.hour)
            /\ Near(t)
      BY <1>1, <1>2 DEF RInv, ReadDone
    <3>3. BcdToBin(tm.sec) = t.sec /\ BcdToBin(tm.min) = t.min /\ BcdToBin(tm.hour) = t.hour
      <4>1. t.sec \in 0 .. 59 /\ t.min \in 0 .. 59 /\ t.hour \in 0 .. 59
        BY TimeFields
      <4>. QED  BY <3>1, <3>2, <4>1, ByteType
    <3>4. tm'.sec = t.sec /\ tm'.min = t.min /\ tm'.hour = t.hour
      BY <1>1, <1>4, <3>1, <3>3 DEF Convert, TmType
    <3>5. Near(t)'
      BY <3>1, <3>2 DEF Near, Tick
    <3>. QED  BY <3>1, <3>4, <3>5 DEF AlarmInv
  <2>. QED  BY <2>1, <2>2
<1>. QED  BY <1>7, <1>8 DEF RInv

(* One register of the alarm is written, as the clock will show it.        *)
LEMMA WriteInv ==
  ASSUME RInv, NEW field \in {"sec", "min", "hour"}, NEW from \in Setting,
         NEW to \in Setting \ {"alarm sec"}, WriteAlarm(field, from, to),
         to # "flag" \/ code = "handler", to # "set handler" \/ code = "rtc_init"
  PROVE  /\ RtcTypeOK' /\ StepInv' /\ ReadInv' /\ ReadDone' /\ LineInv' /\ AlarmNeverLost'
         /\ \E t \in Times :
              /\ tm'.sec = t.sec /\ tm'.min = t.min /\ tm'.hour = t.hour /\ Near(t)'
              /\ from # "alarm sec" => alarm.sec = Ring(t)'.sec
              /\ from \notin {"alarm sec", "alarm min"} => alarm.min = Ring(t)'.min
              /\ alarm' = [alarm EXCEPT ![field] = Ring(t)'[field]]
<1>1. /\ step = from /\ step' = to /\ UNCHANGED <<now, binary, aie, af, irq, tm, code, slow>>
      /\ alarm' = [alarm EXCEPT ![field] = BinToBcd(TimeAfter(tm, ALARM)[field])]
  BY DEF WriteAlarm, Goes
<1>2. code \in {"rtc_init", "handler"} /\ ~binary
  BY <1>1 DEF RInv, RtcTypeOK, StepInv, Setting, Reading
<1>3. PICK t \in Times :
        /\ tm.sec = t.sec /\ tm.min = t.min /\ tm.hour = t.hour /\ Near(t)
        /\ from # "alarm sec" => alarm.sec = Ring(t).sec
        /\ from \notin {"alarm sec", "alarm min"} => alarm.min = Ring(t).min
  BY <1>1 DEF RInv, AlarmInv
<1>4. Tick(Tick(t)) \in Times
  BY TickIs
<1>5. TimeAfter(tm, ALARM)[field] = Tick(Tick(t))[field]
  <2>1. /\ TimeAfter(tm, ALARM).sec = Tick(Tick(t)).sec
        /\ TimeAfter(tm, ALARM).min = Tick(Tick(t)).min
        /\ TimeAfter(tm, ALARM).hour = Tick(Tick(t)).hour
    BY <1>3, AlarmTime
  <2>. QED  BY <2>1
<1>6. Tick(Tick(t))[field] \in 0 .. 59
  BY <1>4, TimeFields
<1>7. Ring(t)[field] = BinToBcd(TimeAfter(tm, ALARM)[field]) /\ Ring(t)' = Ring(t)
  <2>1. Ring(t)[field] = BinToBcd(Tick(Tick(t))[field])
    <3>1. /\ Ring(t).sec = BinToBcd(Tick(Tick(t)).sec)
          /\ Ring(t).min = BinToBcd(Tick(Tick(t)).min)
          /\ Ring(t).hour = BinToBcd(Tick(Tick(t)).hour)
      BY <1>2 DEF Ring, AlarmFor, Byte
    <3>. QED  BY <3>1
  <2>2. Ring(t)' = Ring(t)
    BY <1>1 DEF Ring, AlarmFor, Byte, Tick
  <2>. QED  BY <1>5, <2>1, <2>2
<1>8. RtcTypeOK'
  <2>1. BinToBcd(TimeAfter(tm, ALARM)[field]) \in Bytes8
    <3>1. BinToBcd(Tick(Tick(t))[field]) \in 0 .. 255
      BY <1>6, Bcd
    <3>. QED  BY <1>5, <3>1 DEF Bytes8
  <2>2. alarm \in [sec : Bytes8, min : Bytes8, hour : Bytes8]
    BY DEF RInv, RtcTypeOK
  <2>3. alarm' \in [sec : Bytes8, min : Bytes8, hour : Bytes8]
    BY <1>1, <2>1, <2>2
  <2>4. step' \in {"alarm sec", "alarm min", "alarm hour", "set handler", "flag"}
    BY <1>1 DEF Setting
  <2>. QED  BY <1>1, <2>3, <2>4 DEF RInv, RtcTypeOK
<1>9. StepInv'
  BY <1>1, <1>2 DEF RInv, StepInv, Setting, Reading
<1>10. ReadInv' /\ ReadDone' /\ LineInv' /\ AlarmNeverLost'
  BY <1>1, <1>2 DEF ReadInv, ReadDone, RInv, LineInv, AlarmNeverLost, Setting
<1>11. Near(t)'
  BY <1>1, <1>3 DEF Near, Tick
<1>. QED  BY <1>1, <1>3, <1>7, <1>8, <1>9, <1>10, <1>11

LEMMA SetAlarmInv == RInv /\ SetAlarmSec => RInv'
<1>1. SUFFICES ASSUME RInv, SetAlarmSec PROVE RInv'
  OBVIOUS
<1>2. alarm \in [sec : Bytes8, min : Bytes8, hour : Bytes8]
  BY <1>1 DEF RInv, RtcTypeOK
<1>3. CASE WriteAlarm("sec", "alarm sec", "alarm min")
  <2>1. RtcTypeOK' /\ StepInv' /\ ReadInv' /\ ReadDone' /\ LineInv' /\ AlarmNeverLost'
    BY <1>1, <1>3, WriteInv DEF Setting
  <2>2. PICK t \in Times :
          /\ tm'.sec = t.sec /\ tm'.min = t.min /\ tm'.hour = t.hour /\ Near(t)'
          /\ alarm' = [alarm EXCEPT !["sec"] = Ring(t)'["sec"]]
    BY <1>1, <1>3, WriteInv DEF Setting
  <2>3. step' = "alarm min" /\ alarm'.sec = Ring(t)'.sec
    BY <1>2, <1>3, <2>2 DEF WriteAlarm, Goes
  <2>. QED  BY <2>1, <2>2, <2>3 DEF RInv, AlarmInv
<1>4. CASE WriteAlarm("min", "alarm min", "alarm hour")
  <2>1. RtcTypeOK' /\ StepInv' /\ ReadInv' /\ ReadDone' /\ LineInv' /\ AlarmNeverLost'
    BY <1>1, <1>4, WriteInv DEF Setting
  <2>2. PICK t \in Times :
          /\ tm'.sec = t.sec /\ tm'.min = t.min /\ tm'.hour = t.hour /\ Near(t)'
          /\ alarm.sec = Ring(t)'.sec
          /\ alarm' = [alarm EXCEPT !["min"] = Ring(t)'["min"]]
    BY <1>1, <1>4, WriteInv DEF Setting
  <2>3. step' = "alarm hour" /\ alarm'.sec = alarm.sec /\ alarm'.min = Ring(t)'.min
    BY <1>2, <1>4, <2>2 DEF WriteAlarm, Goes
  <2>. QED  BY <2>1, <2>2, <2>3 DEF RInv, AlarmInv
<1>5. CASE WriteAlarm("hour", "alarm hour", IF code = "rtc_init" THEN "set handler" ELSE "flag")
  <2> DEFINE to == IF code = "rtc_init" THEN "set handler" ELSE "flag"
  <2>0. /\ to \in Setting \ {"alarm sec"} /\ "alarm hour" \in Setting
        /\ to # "flag" \/ code = "handler"
        /\ to # "set handler" \/ code = "rtc_init"
        /\ WriteAlarm("hour", "alarm hour", to)
    BY <1>1, <1>5 DEF RInv, StepInv, RtcTypeOK, WriteAlarm, Setting, Reading
  <2> HIDE DEF to
  <2>1. RtcTypeOK' /\ StepInv' /\ ReadInv' /\ ReadDone' /\ LineInv' /\ AlarmNeverLost'
    BY <1>1, <2>0, WriteInv
  <2>2. PICK t \in Times :
          /\ tm'.sec = t.sec /\ tm'.min = t.min /\ tm'.hour = t.hour /\ Near(t)'
          /\ alarm.sec = Ring(t)'.sec /\ alarm.min = Ring(t)'.min
          /\ alarm' = [alarm EXCEPT !["hour"] = Ring(t)'["hour"]]
    BY <1>1, <2>0, WriteInv
  <2>3. alarm'.sec = alarm.sec /\ alarm'.min = alarm.min /\ alarm'.hour = Ring(t)'.hour
    BY <1>2, <2>2
  <2>. QED  BY <2>1, <2>2, <2>3 DEF RInv, AlarmInv
<1>. QED  BY <1>1, <1>3, <1>4, <1>5 DEF SetAlarmSec

LEMMA RegBInv == RInv /\ RtcInitRegB => RInv'
<1>1. SUFFICES ASSUME RInv, RtcInitRegB PROVE RInv'
  OBVIOUS
<1>2. code = "rtc_init" /\ step' = "sec"
  BY <1>1 DEF RInv, RtcTypeOK, StepInv, RtcInitRegB, Goes, Reading, Setting
<1>3. irq' \in BOOLEAN
  BY <1>1 DEF RInv, RtcTypeOK, RtcInitRegB
<1>4. RtcTypeOK'
  BY <1>1, <1>2, <1>3 DEF RInv, RtcTypeOK, RtcInitRegB, Goes
<1>5. LineInv'
  BY <1>1, <1>2 DEF RInv, RtcTypeOK, LineInv, RtcInitRegB, Goes
<1>. QED  BY <1>1, <1>2, <1>4, <1>5
             DEF RInv, StepInv, ReadInv, ReadDone, AlarmInv, AlarmNeverLost, RtcInitRegB, Goes,
                 Reading, Setting

(* When the function leaves, the next alarm is set, at most two seconds    *)
(* from now.                                                               *)
LEMMA AlarmSet ==
  ASSUME RInv, step \in {"set handler", "flag"}
  PROVE  \E t \in {Tick(now), Tick(Tick(now))} : alarm = AlarmFor(t)
<1>1. PICK t \in Times :
        /\ Near(t) /\ alarm.sec = Ring(t).sec /\ alarm.min = Ring(t).min
        /\ alarm.hour = Ring(t).hour
  BY DEF RInv, AlarmInv, Setting
<1>2. alarm = Ring(t)
  <2>1. alarm \in [sec : Bytes8, min : Bytes8, hour : Bytes8]
    BY DEF RInv, RtcTypeOK
  <2>2. alarm = [sec |-> alarm.sec, min |-> alarm.min, hour |-> alarm.hour]
    BY <2>1
  <2>3. Ring(t) = [sec |-> Ring(t).sec, min |-> Ring(t).min, hour |-> Ring(t).hour]
    BY DEF Ring, AlarmFor
  <2>. QED  BY <1>1, <2>2, <2>3, Zenon
<1>3. Tick(Tick(t)) \in {Tick(now), Tick(Tick(now))}
  BY <1>1, Zenon DEF Near
<1>. QED  BY <1>2, <1>3, Zenon DEF Ring

LEMMA LeaveInv == RInv /\ (SetHandler \/ FlagClear) => RInv'
<1>1. SUFFICES ASSUME RInv, SetHandler \/ FlagClear PROVE RInv'
  OBVIOUS
<1>2. /\ step' = "none" /\ code' = "idle" /\ slow' = 0 /\ tm' = NoTime
      /\ UNCHANGED <<now, binary, aie, alarm, irq>>
      /\ af' \in BOOLEAN
      /\ step \in {"set handler", "flag"}
  BY <1>1 DEF SetHandler, FlagClear, Leaves, chip, RInv, RtcTypeOK
<1>3. code \in {"rtc_init", "handler"} /\ ~binary /\ aie
  BY <1>1, <1>2 DEF RInv, RtcTypeOK, StepInv, Reading, Setting
<1>4. RtcTypeOK'
  <2>1. NoTime \in TmType
    <3>1. 1 \in 1 .. Len(Dates) /\ 0 \in Bytes8 /\ 0 \in 0 .. 366
      BY Limits DEF Bytes8
    <3>. QED  BY <3>1 DEF NoTime, TmType
  <2>. QED  BY <1>1, <1>2, <2>1 DEF RInv, RtcTypeOK
<1>5. LineInv'
  <2>1. CASE SetHandler
    <3>1. code = "rtc_init"
      BY <1>1, <1>3, <2>1 DEF RInv, StepInv, SetHandler, Reading, Setting
    <3>2. (aie /\ af => irq) /\ (irq => af)
      BY <1>1, <3>1 DEF RInv, LineInv
    <3>3. af' = af /\ irq' = irq /\ aie' = aie
      BY <2>1 DEF SetHandler, chip
    <3>4. (aie' /\ af' => irq') /\ (irq' => af')
      BY <3>2, <3>3
    <3>. QED  BY <1>2, <3>4 DEF LineInv
  <2>2. CASE FlagClear
    <3>1. code = "handler"
      BY <1>1, <1>3, <2>2 DEF RInv, StepInv, FlagClear, Reading, Setting
    <3>. QED  BY <1>1, <1>2, <2>2, <3>1 DEF RInv, LineInv, FlagClear
  <2>. QED  BY <1>1, <2>1, <2>2
<1>6. AlarmNeverLost'
  <2>1. af' => irq'
    BY <1>2, <1>3, <1>5 DEF LineInv
  <2>2. PICK t \in {Tick(now), Tick(Tick(now))} : alarm = AlarmFor(t)
    BY <1>1, <1>2, AlarmSet
  <2>3. alarm' = AlarmFor(t)' /\ t \in {Tick(now'), Tick(Tick(now'))}
    BY <1>2, <2>2 DEF AlarmFor, Byte
  <2>. QED  BY <1>2, <2>1, <2>3 DEF AlarmNeverLost
<1>. QED  BY <1>2, <1>3, <1>4, <1>5, <1>6
             DEF RInv, StepInv, ReadInv, ReadDone, AlarmInv, Setting, Reading

LEMMA InterruptInv == RInv /\ AlarmInterrupt => RInv'
<1>1. SUFFICES ASSUME RInv, AlarmInterrupt PROVE RInv'
  OBVIOUS
<1>2. /\ code = "idle" /\ irq /\ ~irq' /\ code' = "handler" /\ step' = "sec" /\ slow' = 0
      /\ UNCHANGED <<now, binary, aie, af, alarm, tm>>
  BY <1>1 DEF AlarmInterrupt
<1>3. RtcTypeOK'
  <2>1. irq' \in BOOLEAN
    BY <1>1 DEF AlarmInterrupt
  <2>. QED  BY <1>1, <1>2, <2>1 DEF RInv, RtcTypeOK
<1>4. StepInv' /\ LineInv'
  BY <1>1, <1>2 DEF RInv, StepInv, LineInv, Reading
<1>. QED  BY <1>2, <1>3, <1>4 DEF RInv, ReadInv, ReadDone, AlarmInv, AlarmNeverLost, Setting

-----------------------------------------------------------------------------
LEMMA RtcInvariance == RtcSpec => []RInv
<1>1. RInv /\ [RtcNext]_rvars => RInv'
  <2>1. RInv /\ UNCHANGED rvars => RInv'
    <3>1. SUFFICES ASSUME RInv, UNCHANGED rvars PROVE RInv'
      OBVIOUS
    <3>2. UNCHANGED <<now, binary, aie, af, alarm, irq, code, step, tm, slow>>
      BY <3>1 DEF rvars, chip
    <3>3. RtcTypeOK' /\ StepInv'
      BY <3>1, <3>2 DEF RInv, RtcTypeOK, StepInv
    <3>4. ReadInv'
      BY <3>1, <3>2 DEF RInv, ReadInv, Byte
    <3>5. ReadDone'
      BY <3>1, <3>2 DEF RInv, ReadDone, Byte, Near, Tick
    <3>6. AlarmInv'
      <4>1. ASSUME NEW t PROVE Ring(t)' = Ring(t)
        BY <3>2 DEF Ring, AlarmFor, Byte, Tick
      <4>2. ASSUME NEW t, Near(t) PROVE Near(t)'
        BY <3>2, <4>2 DEF Near, Tick
      <4>. QED  BY <3>1, <3>2, <4>1, <4>2 DEF RInv, AlarmInv
    <3>7. LineInv'
      BY <3>1, <3>2 DEF RInv, LineInv
    <3>8. AlarmNeverLost'
      <4>1. ASSUME NEW t PROVE AlarmFor(t)' = AlarmFor(t)
        BY <3>2 DEF AlarmFor, Byte
      <4>. QED  BY <3>1, <3>2, <4>1 DEF RInv, AlarmNeverLost
    <3>. QED  BY <3>3, <3>4, <3>5, <3>6, <3>7, <3>8 DEF RInv
  <2>. QED  BY <2>1, SecondInv, ReadStepsInv, ConvertInv, SetAlarmInv, RegBInv, LeaveInv,
               InterruptInv
            DEF RtcNext, RtcCode
<1>. QED  BY <1>1, RtcInitInv, PTL DEF RtcSpec

(* A time that time_read returns was the clock's at one moment of the      *)
(* call, although the clock runs between the registers it reads.           *)
THEOREM ReadAtOneMoment == RtcSpec => []ReadsOneMoment
<1>1. RInv => ReadsOneMoment
  BY DEF RInv, ReadDone, Near, ReadsOneMoment
<1>. QED  BY <1>1, RtcInvariance, PTL

(* While no function of the clock runs, the alarm waits at the 8259 or is  *)
(* set for one of the next two seconds.                                    *)
THEOREM AlarmKept == RtcSpec => []AlarmNeverLost
<1>1. RInv => AlarmNeverLost
  BY DEF RInv
<1>. QED  BY <1>1, RtcInvariance, PTL

=============================================================================
