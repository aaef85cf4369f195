------------------------------- MODULE Strings -------------------------------
(***************************************************************************)
(* The functions of l_string.c, one turn of their loops at a time, on a    *)
(* small memory.  A call is chosen with pointers its contract allows; the  *)
(* laws say what it leaves and returns, which is what its comment promises *)
(* except where a law says otherwise.  A char is signed; i counts turns,   *)
(* ptr and ans are the code's pointers.                                    *)
(***************************************************************************)
EXTENDS Integers

CONSTANTS
  SIZE,            \* bound: bytes of memory a caller may point into
  Chars,           \* bound: values of a char, 0 among them
  Arguments,       \* values of the int argument ch
  MaxCount         \* bound: values of count

ASSUME StringsAssumption ==
  /\ SIZE \in Nat /\ MaxCount \in Nat
  /\ Chars \subseteq -128 .. 127 /\ 0 \in Chars /\ Arguments \subseteq Int

EOS == 0
NULL == -1

(* The caller's bytes, and the one behind them.                            *)
Owned == 0 .. SIZE - 1
Cells == 0 .. SIZE

StringOps == {"copy", "ncopy", "cat", "compare", "first", "last", "len"}
MemoryOps == {"mset", "mcopy", "mcompare", "mfind"}

VARIABLES
  pc,              \* "seek" (the end of dest, in strint_cat), "loop" or "done"
  call,            \* the function and its arguments
  mem, i, ptr,     \* memory, turns taken, where dest is written
  ans,             \* string_find_char_last's candidate
  ret,
  before           \* history: memory when the call was made

vars == <<pc, call, mem, i, ptr, ans, ret, before>>

dest == call.dest
src == call.src
count == call.count

IsString(m, p) == \E e \in p .. SIZE - 1 : m[e] = EOS
EndOf(m, p) == CHOOSE e \in p .. SIZE - 1 :
                 m[e] = EOS /\ \A k \in p .. e - 1 : m[k] # EOS
Length(m, p) == EndOf(m, p) - p
Apart(p, n, q, k) == p + n <= q \/ q + k <= p

(* The lhs and rhs of memory_compare run to a difference or a common end.  *)
Settles(m, p, q) ==
  \E k \in 0 .. SIZE : /\ p + k < SIZE /\ q + k < SIZE
                       /\ m[p + k] # m[q + k] \/ m[p + k] = EOS

(* What a caller owes each function: room for what its comment says is     *)
(* written, and no overlap but the one of the console's move of its        *)
(* window.  A count of 0 is allowed; so is a memory_compare of few bytes,  *)
(* as long as the bytes behind them end somewhere.                         *)
Legal(m, c) ==
  CASE c.op = "copy" -> /\ IsString(m, c.src)
                        /\ c.dest + Length(m, c.src) < SIZE
                        /\ Apart(c.dest, Length(m, c.src) + 1, c.src, Length(m, c.src) + 1)
    [] c.op = "ncopy" -> /\ IsString(m, c.src) /\ c.dest + c.count > 0
                         /\ c.dest + c.count <= SIZE
                         /\ Apart(c.dest, c.count, c.src, Length(m, c.src) + 1)
    [] c.op = "cat" -> /\ IsString(m, c.src) /\ IsString(m, c.dest)
                       /\ EndOf(m, c.dest) + Length(m, c.src) < SIZE
                       /\ Apart(c.dest, Length(m, c.dest) + Length(m, c.src) + 1,
                                c.src, Length(m, c.src) + 1)
    [] c.op = "compare" -> IsString(m, c.src) /\ IsString(m, c.dest)
    [] c.op \in {"first", "last", "len"} -> IsString(m, c.src) /\ c.dest = c.src
    [] c.op = "mset" -> c.dest + c.count <= SIZE /\ c.dest = c.src
    [] c.op = "mcopy" -> /\ c.dest + c.count <= SIZE /\ c.src + c.count <= SIZE
                         /\ c.dest <= c.src \/ Apart(c.dest, c.count, c.src, c.count)
    [] c.op = "mcompare" -> /\ Settles(m, c.dest, c.src)
                            /\ c.dest + c.count <= SIZE /\ c.src + c.count <= SIZE
    [] c.op = "mfind" -> c.src + c.count <= SIZE /\ c.dest = c.src

(* Arguments a function does not have are given one value.                 *)
TakesCh == {"first", "last", "mset", "mfind"}
TakesCount == {"ncopy"} \cup MemoryOps

Init ==
  /\ mem \in [Cells -> Chars] /\ before = mem
  /\ \E op \in StringOps \cup MemoryOps, d \in Owned, s \in Owned :
     \E ch \in IF op \in TakesCh THEN Arguments ELSE {EOS},
        n \in IF op \in TakesCount THEN 0 .. MaxCount ELSE {0} :
       call = [op |-> op, dest |-> d, src |-> s, ch |-> ch, count |-> n]
  /\ Legal(mem, call)
  /\ pc = IF call.op = "cat" THEN "seek" ELSE "loop"
  /\ i = 0 /\ ptr = call.dest /\ ans = NULL /\ ret = NULL

In(op) == pc = "loop" /\ call.op = op
Again == pc' = pc /\ i' = i + 1 /\ UNCHANGED <<call, ans, ret, before>>
Return(r) == pc' = "done" /\ ret' = r /\ UNCHANGED <<call, i, ans, before>>
Write(p, c) == mem' = [mem EXCEPT ![p] = c]

StringCopy ==
  /\ In("copy")
  /\ mem' = [mem EXCEPT ![ptr] = mem[src + i], ![ptr + 1] = mem[src + i]]
  /\ ptr' = ptr + 1
  /\ IF mem[src + i] = EOS THEN Return(dest) ELSE Again

(* Mutant: a string that does not fit is not terminated. *)
StringNCopyOpen ==
  /\ In("ncopy")
  /\ IF i < count
     THEN /\ Write(ptr, mem[src + i]) /\ ptr' = ptr + 1
          /\ IF mem[src + i] = EOS THEN Return(dest) ELSE Again
     ELSE Return(dest) /\ UNCHANGED <<mem, ptr>>

(* The last byte is made an EOS when count runs out before the string.     *)
StringNCopy ==
  /\ In("ncopy")
  /\ IF i < count
     THEN /\ Write(ptr, mem[src + i]) /\ ptr' = ptr + 1
          /\ IF mem[src + i] = EOS THEN Return(dest) ELSE Again
     ELSE Write(dest + i - 1, EOS) /\ Return(dest) /\ UNCHANGED ptr

(* Mutant: the pointer does not move. *)
CatSeekStuck ==
  /\ pc = "seek" /\ UNCHANGED <<mem, call, i, ans, ret, before, ptr>>
  /\ IF mem[ptr] = EOS THEN pc' = "loop" ELSE UNCHANGED pc

CatSeek ==
  /\ pc = "seek" /\ UNCHANGED <<mem, call, i, ans, ret, before>>
  /\ IF mem[ptr] = EOS THEN pc' = "loop" /\ UNCHANGED ptr
                       ELSE ptr' = ptr + 1 /\ UNCHANGED pc

Cat ==
  /\ In("cat") /\ Write(ptr, mem[src + i]) /\ ptr' = ptr + 1
  /\ IF mem[src + i] = EOS THEN Return(dest) ELSE Again

Order(a, b) == IF a > b THEN 1 ELSE -1

(* string_compare and memory_compare: count is compared with a counter     *)
(* that memory_compare never advances, so that it only matters as zero.    *)
Compare ==
  /\ In("compare") \/ (In("mcompare") /\ count > 0)
  /\ UNCHANGED <<mem, ptr>>
  /\ IF mem[dest + i] # mem[src + i] THEN Return(Order(mem[dest + i], mem[src + i]))
     ELSE IF mem[dest + i] = EOS THEN Return(0) ELSE Again

CompareNothing ==
  /\ In("mcompare") /\ count = 0 /\ Return(0) /\ UNCHANGED <<mem, ptr>>

(* A char is compared with the int ch as it is, without a conversion.      *)
FindFirst ==
  /\ In("first") /\ UNCHANGED <<mem, ptr>>
  /\ IF mem[src + i] = call.ch THEN Return(src + i)
     ELSE IF mem[src + i] = EOS THEN Return(NULL) ELSE Again

FindLast ==
  /\ In("last") /\ UNCHANGED <<mem, ptr, call, before>>
  /\ ans' = IF mem[src + i] = call.ch THEN src + i ELSE ans
  /\ IF mem[src + i] = EOS THEN pc' = "done" /\ ret' = ans' /\ UNCHANGED i
     ELSE i' = i + 1 /\ UNCHANGED <<pc, ret>>

StringLen ==
  /\ In("len") /\ UNCHANGED <<mem, ptr>>
  /\ IF mem[src + i] = EOS THEN Return(i) ELSE Again

(* A byte takes the low eight bits of the int ch.                          *)
AsChar(ch) == ((ch + 128) % 256) - 128

MemorySet ==
  /\ In("mset")
  /\ IF i < count THEN Write(ptr, AsChar(call.ch)) /\ ptr' = ptr + 1 /\ Again
                  ELSE Return(dest) /\ UNCHANGED <<mem, ptr>>

MemoryCopy ==
  /\ In("mcopy")
  /\ IF i < count THEN Write(ptr, mem[src + i]) /\ ptr' = ptr + 1 /\ Again
                  ELSE Return(dest) /\ UNCHANGED <<mem, ptr>>

(* When count runs out no return statement is reached: whatever the return *)
(* register holds is the result.                                           *)
MemoryFind ==
  /\ In("mfind") /\ UNCHANGED <<mem, ptr>>
  /\ IF i = count THEN \E r \in Cells \cup {NULL} : Return(r)
     ELSE IF mem[src + i] = call.ch THEN Return(src + i)
     ELSE IF mem[src + i] = EOS THEN Return(NULL) ELSE Again

Next ==
  \/ StringCopy \/ StringNCopy \/ CatSeek \/ Cat \/ Compare \/ CompareNothing
  \/ FindFirst \/ FindLast \/ StringLen
  \/ MemorySet \/ MemoryCopy \/ MemoryFind

Spec == Init /\ [][Next]_vars

(* A call runs until it returns.                                           *)
FairSpec == Spec /\ WF_vars(Next)

TypeOK ==
  /\ pc \in {"seek", "loop", "done"} /\ call.op \in StringOps \cup MemoryOps
  /\ mem \in [Cells -> -128 .. 127]
  /\ i \in Nat /\ ptr \in 0 .. SIZE /\ ans \in Cells \cup {NULL} /\ ret \in Int

Done(op) == pc = "done" /\ call.op = op

(* Memory is the text of length n copied from q to p and else unchanged,   *)
(* but for the bytes of "spoilt".                                          *)
Copied(p, q, n, spoilt) ==
  \A a \in Cells \ spoilt :
    mem[a] = IF a \in p .. p + n - 1 THEN before[q + a - p] ELSE before[a]

(* A copy or concatenation leaves the text at its place, terminated, and   *)
(* everything else alone, also when the source is next to the destination  *)
(* or too long for the count.  Against its comment string_copy ends the    *)
(* text twice: the byte behind the terminator, perhaps not the caller's,   *)
(* becomes 0 as well (l_string.c:15); and string_n_copy with a count of 0  *)
(* makes the byte before dest 0 (l_string.c:43).                           *)
CopiesText ==
  /\ Done("copy") => LET n == Length(before, src) + 1
                     IN  Copied(dest, src, n, {dest + n}) /\ mem[dest + n] = EOS
  /\ Done("ncopy") => LET n == Length(before, src) + 1 IN
       IF n <= count THEN Copied(dest, src, n, {})
       ELSE Copied(dest, src, count - 1, {dest + count - 1}) /\ mem[dest + count - 1] = EOS
  /\ Done("cat") => Copied(EndOf(before, dest), src, Length(before, src) + 1, {})

(* memory_copy copies what the source held at the call although the two    *)
(* may overlap the way the console moves its window down; memory_set and   *)
(* memory_copy touch nothing else.                                         *)
MovesBytes ==
  /\ Done("mcopy") => Copied(dest, src, count, {})
  /\ Done("mset") => \A a \in Cells :
       mem[a] = IF a \in dest .. dest + count - 1 THEN AsChar(call.ch) ELSE before[a]

Occurs(m, p, c) == {a \in p .. EndOf(m, p) : m[a] = c}

(* Searches in a string return the first or last occurrence of (char)ch,   *)
(* the terminator included, and NULL without one.  memory_find_char_first  *)
(* returns the first occurrence that no 0 precedes, and NULL without one   *)
(* when there is a 0 among the count bytes; when there is none either it   *)
(* has no return statement and may return anything (l_string.c:222).       *)
(* Against their comments none of them converts ch: one that is not the    *)
(* value of a char is never found (l_string.c:101, 119, 214), and what is  *)
(* behind a 0 is not searched by memory_find_char_first (l_string.c:218).  *)
FindsChar ==
  LET c == AsChar(call.ch) IN
  /\ Done("len") => ret = Length(mem, src)
  /\ \A op \in {"first", "last"} : Done(op) =>
       IF c # call.ch \/ Occurs(mem, src, c) = {} THEN ret = NULL
       ELSE /\ ret \in Occurs(mem, src, c)
            /\ \A a \in Occurs(mem, src, c) : IF op = "first" THEN ret <= a ELSE a <= ret
  /\ Done("mfind") =>
       LET S == {a \in src .. src + count - 1 : mem[a] = c}
       IN  IF c = call.ch /\ \E a \in S : \A b \in src .. a - 1 : mem[b] # EOS
           THEN ret \in S /\ \A a \in S : ret <= a
           ELSE (\E a \in src .. src + count - 1 : mem[a] = EOS) => ret = NULL

(* The first difference between two ranges of n bytes decides, with the    *)
(* terminator smaller or larger than what stands against it.               *)
Lexicographic(p, q, n) ==
  LET D == {k \in 0 .. n - 1 : mem[p + k] # mem[q + k]}
      k == CHOOSE k \in D : \A j \in D : k <= j
  IN  IF D = {} THEN 0 ELSE Order(mem[p + k], mem[q + k])

(* string_compare is the lexicographic order of the two strings.           *)
ComparesStrings ==
  Done("compare") =>
    LET a == Length(mem, dest) + 1
        b == Length(mem, src) + 1
    IN  ret = Lexicographic(dest, src, IF a < b THEN a ELSE b)

(* memory_compare is not bounded by its count: with any count but 0 the    *)
(* first difference decides, even one behind the count bytes its comment   *)
(* speaks of, and a 0 common to both ends the comparison before it         *)
(* (l_string.c:189-200).                                                   *)
ComparesMemory ==
  Done("mcompare") =>
    IF count = 0 THEN ret = 0
    ELSE \E n \in Owned :
           /\ dest + n < SIZE /\ src + n < SIZE
           /\ \A j \in 0 .. n - 1 : mem[dest + j] = mem[src + j] /\ mem[dest + j] # EOS
           /\ IF mem[dest + n] # mem[src + n] THEN ret = Order(mem[dest + n], mem[src + n])
              ELSE mem[dest + n] = EOS /\ ret = 0

(* What every function of l_string.c writes, finds and compares, with the  *)
(* places where it is not what its comment promises.                       *)
StringLaws ==
  /\ TypeOK
  /\ CopiesText /\ MovesBytes
  /\ FindsChar
  /\ ComparesStrings /\ ComparesMemory

(* Every call with legal arguments returns, also memory_copy and strint_cat *)
(* on neighbouring buffers: no loop eats its own terminator.               *)
Returns == <>(pc = "done")
=============================================================================
