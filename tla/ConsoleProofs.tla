---------------------------- MODULE ConsoleProofs ----------------------------
(***************************************************************************)
(* The console's cursor and window are right for every size of the screen  *)
(* and of the text memory that the assumption allows.  The helpers work on *)
(* a record, so the lemmas about them say what they make of a good record  *)
(* (Good); the actions only add the CRT's registers.                       *)
(***************************************************************************)
EXTENDS Console, TLAPS

Records == [vga : [Cells -> BOOLEAN], screen : Cells, cursor : Cells,
            x : 0 .. W, y : 0 .. H - 1]

BlankIn(c) ==
  \A a \in c.screen + W * (c.y + 1) .. c.screen + SCREEN_SIZE - 1 : ~c.vga[a]

Good(c) ==
  /\ c \in Records
  /\ c.cursor = c.screen + W * c.y + c.x
  /\ c.screen % W = 0 /\ c.screen + SCREEN_SIZE <= MEM_ADDR_SIZE
  /\ BlankIn(c)

-----------------------------------------------------------------------------
(* Lines, and positions cut into bytes.                                    *)
LEMMA Sizes ==
  /\ W \in Nat \ {0} /\ H \in Nat \ {0} /\ W * H \in Nat /\ W <= W * H
  /\ SCREEN_SIZE = W * H + W * H
  /\ MEM_ADDR_SIZE \in Nat /\ SCREEN_SIZE + SCREEN_SIZE + W <= MEM_ADDR_SIZE
<1>1. W \in Nat \ {0} /\ H \in Nat \ {0} /\ MEM_ADDR_SIZE \in Nat
  BY ConsoleAssumption
<1>2. W * H \in Nat /\ W <= W * H
  BY <1>1
<1>3. 2 * H * W = W * H + W * H
  BY <1>1
<1>. QED  BY <1>1, <1>2, <1>3, ConsoleAssumption DEF SCREEN_SIZE

LEMMA LineFits ==
  ASSUME NEW y \in 0 .. H - 1
  PROVE  /\ W * y \in Nat /\ W * (y + 1) = W * y + W
         /\ W * (y + 1) <= W * H
         /\ y < H - 1 => W * (y + 1) + W <= W * H
         /\ y = H - 1 => W * (y + 1) = W * H
<1>1. W \in Nat \ {0} /\ H \in Nat \ {0} /\ y \in Nat
  BY Sizes
<1>2. W * y \in Nat /\ W * (y + 1) = W * y + W
  BY <1>1
<1>3. \A a \in Nat, b \in Nat : a <= b => W * a <= W * b
  BY <1>1
<1>4. y < H - 1 => W * (y + 2) <= W * H
  BY <1>1, <1>3
<1>5. W * (y + 2) = W * (y + 1) + W
  BY <1>1
<1>6. W * (y + 1) <= W * H
  BY <1>1, <1>3
<1>. QED  BY <1>1, <1>2, <1>4, <1>5, <1>6

(* Quotient and remainder are the only ones.                               *)
LEMMA DivMod ==
  ASSUME NEW p \in Nat, NEW b \in Nat, b > 0, NEW q \in Nat, NEW r \in 0 .. b - 1,
         p = b * q + r
  PROVE  p % b = r /\ p \div b = q
<1>1. PICK s \in Nat : s = p \div b /\ p = b * s + (p % b)
  OBVIOUS
<1>2. p % b \in 0 .. b - 1
  OBVIOUS
<1>3. CASE s < q
  <2>1. b * (s + 1) <= b * q /\ b * (s + 1) = b * s + b
    BY <1>1, <1>3
  <2>. QED  BY <1>1, <1>2, <2>1
<1>4. CASE q < s
  <2>1. b * (q + 1) <= b * s /\ b * (q + 1) = b * q + b
    BY <1>1, <1>4
  <2>. QED  BY <1>1, <1>2, <2>1
<1>5. CASE q = s
  BY <1>1, <1>2, <1>5
<1>. QED  BY <1>1, <1>3, <1>4, <1>5

LEMMA NextLineStart ==
  ASSUME NEW a \in Nat, a % W = 0
  PROVE  (a + W) % W = 0
<1>1. W \in Nat /\ W > 0
  BY Sizes
<1>2. PICK k \in Nat : a = W * k + (a % W)
  BY <1>1
<1>3. a + W = W * (k + 1) + 0 /\ a + W \in Nat /\ k + 1 \in Nat /\ 0 \in 0 .. W - 1
  BY <1>1, <1>2
<1>. QED  BY <1>1, <1>3, DivMod

LEMMA PairShown ==
  ASSUME NEW pos \in Cells
  PROVE  Shown(Pair(pos)) = pos
<1>1. BYTE \in Nat /\ BYTE > 0 /\ pos \in Nat /\ pos < BYTE * BYTE
  BY ConsoleAssumption DEF Cells
<1>2. PICK high \in Nat : high = pos \div BYTE /\ pos = BYTE * high + (pos % BYTE)
  BY <1>1
<1>3. pos % BYTE \in Nat
  BY <1>1
<1>4. high < BYTE
  BY <1>1, <1>2, <1>3
<1>5. high % BYTE = high
  BY <1>1, <1>2, <1>4
<1>. QED  BY <1>1, <1>2, <1>3, <1>5 DEF Shown, Pair

LEMMA PairType ==
  ASSUME NEW pos \in Nat
  PROVE  Pair(pos) \in (0 .. BYTE - 1) \X (0 .. BYTE - 1)
BY ConsoleAssumption DEF Pair

-----------------------------------------------------------------------------
(* What the helpers make of a good record.                                 *)

(* Sliding, the line that becomes the last of the two screens was cleared; *)
(* copying, what is below the cursor comes along.                          *)
LEMMA ScrollUpGood ==
  ASSUME NEW c, Good(c), c.y = H - 1
  PROVE  Good(ScrollUp(c)) /\ ScrollUp(c).x = c.x /\ ScrollUp(c).y = c.y
<1>1. /\ c \in Records /\ c.cursor = c.screen + W * c.y + c.x
      /\ c.screen + SCREEN_SIZE <= MEM_ADDR_SIZE /\ c.screen % W = 0
      /\ c.screen \in Nat /\ c.x \in Nat /\ c.y \in 0 .. H - 1 /\ c.x <= W
  BY Sizes DEF Good, Records, Cells
<1>2. W * c.y \in Nat /\ W * (c.y + 1) = W * c.y + W /\ W * (c.y + 1) = W * H
  BY <1>1, LineFits
<1>3. CASE c.screen + SCREEN_SIZE + W < MEM_ADDR_SIZE
  <2> DEFINE v == [a \in Cells |-> IF a - c.screen \in SCREEN_SIZE .. SCREEN_SIZE + W - 1
                                   THEN FALSE ELSE c.vga[a]]
             d == [c EXCEPT !.vga = v, !.screen = c.screen + W, !.cursor = c.cursor + W]
  <2>1. ScrollUp(c) = d
    BY <1>3 DEF ScrollUp
  <2>2. v \in [Cells -> BOOLEAN]
    BY <1>1 DEF Records
  <2>3. d.vga = v /\ d.screen = c.screen + W /\ d.cursor = c.cursor + W /\ d.x = c.x /\ d.y = c.y
    BY <1>1 DEF Records
  <2>4. c.screen + W \in Cells /\ c.cursor + W \in Cells
    <3>1. c.cursor + W = c.screen + W * H + c.x
      BY <1>1, <1>2, Sizes
    <3>2. c.cursor + W \in Nat /\ c.cursor + W < MEM_ADDR_SIZE
      BY <1>1, <1>3, <3>1, Sizes
    <3>3. c.screen + W \in Nat /\ c.screen + W < MEM_ADDR_SIZE
      BY <1>1, <1>3, Sizes
    <3>. QED  BY <3>2, <3>3, Sizes DEF Cells
  <2>5. d \in Records
    <3> HIDE DEF v
    <3>. QED  BY <1>1, <2>2, <2>4 DEF Records
  <2>6. (c.screen + W) % W = 0
    BY <1>1, NextLineStart
  <2>7. BlankIn(d)
    <3>1. SUFFICES ASSUME NEW a \in d.screen + W * (d.y + 1) .. d.screen + SCREEN_SIZE - 1
                   PROVE  ~d.vga[a]
      BY DEF BlankIn
    <3>2. a \in c.screen + W + W * H .. c.screen + W + SCREEN_SIZE - 1 /\ a \in Cells
      BY <1>1, <1>2, <1>3, <2>3, <3>1, Sizes DEF Cells
    <3>3. CASE a - c.screen \in SCREEN_SIZE .. SCREEN_SIZE + W - 1
      BY <2>3, <3>2, <3>3
    <3>4. CASE a - c.screen \notin SCREEN_SIZE .. SCREEN_SIZE + W - 1
      <4>1. a \in c.screen + W * (c.y + 1) .. c.screen + SCREEN_SIZE - 1
        BY <1>1, <1>2, <3>2, <3>4, Sizes
      <4>2. ~c.vga[a]
        BY <4>1 DEF Good, BlankIn
      <4>. QED  BY <2>3, <3>2, <3>4, <4>2
    <3>. QED  BY <3>3, <3>4
  <2> HIDE DEF d
  <2>8. d.cursor = d.screen + W * d.y + d.x /\ d.screen + SCREEN_SIZE <= MEM_ADDR_SIZE
    BY <1>1, <1>2, <1>3, <2>3, Sizes
  <2>. QED  BY <2>1, <2>3, <2>5, <2>6, <2>7, <2>8 DEF Good
<1>4. CASE ~(c.screen + SCREEN_SIZE + W < MEM_ADDR_SIZE)
  <2> DEFINE v == [a \in Cells |-> IF a < SCREEN_SIZE THEN c.vga[c.screen + a] ELSE c.vga[a]]
             d == [c EXCEPT !.vga = v, !.cursor = c.cursor - c.screen, !.screen = 0]
  <2>1. ScrollUp(c) = d
    BY <1>4 DEF ScrollUp
  <2>2. v \in [Cells -> BOOLEAN]
    <3>1. \A a \in Cells : a < SCREEN_SIZE => c.screen + a \in Cells
      BY <1>1, Sizes DEF Cells
    <3>. QED  BY <1>1, <3>1 DEF Records
  <2>3. d.vga = v /\ d.screen = 0 /\ d.cursor = c.cursor - c.screen /\ d.x = c.x /\ d.y = c.y
    BY <1>1 DEF Records
  <2>4. 0 \in Cells /\ c.cursor - c.screen \in Cells
    BY <1>1, <1>2, Sizes DEF Cells
  <2>5. d \in Records
    <3> HIDE DEF v
    <3>. QED  BY <1>1, <2>2, <2>4 DEF Records
  <2>6. 0 % W = 0
    BY Sizes
  <2>7. BlankIn(d)
    <3>1. SUFFICES ASSUME NEW a \in d.screen + W * (d.y + 1) .. d.screen + SCREEN_SIZE - 1
                   PROVE  ~d.vga[a]
      BY DEF BlankIn
    <3>2. a \in W * H .. SCREEN_SIZE - 1 /\ a \in Cells
      BY <1>1, <1>2, <2>3, <3>1, Sizes DEF Cells
    <3>3. c.screen + a \in c.screen + W * (c.y + 1) .. c.screen + SCREEN_SIZE - 1
      BY <1>1, <1>2, <3>2, Sizes
    <3>4. ~c.vga[c.screen + a]
      BY <3>3 DEF Good, BlankIn
    <3>. QED  BY <2>3, <3>2, <3>4, Sizes
  <2> HIDE DEF d
  <2>8. d.cursor = d.screen + W * d.y + d.x /\ d.screen + SCREEN_SIZE <= MEM_ADDR_SIZE
    BY <1>1, <1>2, <2>3, Sizes
  <2>. QED  BY <2>1, <2>3, <2>5, <2>6, <2>7, <2>8 DEF Good
<1>. QED  BY <1>3, <1>4

LEMMA LfGood ==
  ASSUME NEW c, Good(c)
  PROVE  /\ Good(ConsoleLf(c)) /\ ConsoleLf(c).x = c.x
         /\ ConsoleLf(c).y = IF c.y < H - 1 THEN c.y + 1 ELSE c.y
<1>1. /\ c \in Records /\ c.cursor = c.screen + W * c.y + c.x
      /\ c.screen + SCREEN_SIZE <= MEM_ADDR_SIZE /\ c.screen % W = 0
      /\ c.screen \in Nat /\ c.x \in Nat /\ c.y \in 0 .. H - 1 /\ c.x <= W
  BY Sizes DEF Good, Records, Cells
<1>2. CASE c.y < H - 1
  <2> DEFINE d == [c EXCEPT !.cursor = c.cursor + W, !.y = c.y + 1]
  <2>1. ConsoleLf(c) = d
    BY <1>2 DEF ConsoleLf
  <2>2. /\ d.vga = c.vga /\ d.screen = c.screen /\ d.cursor = c.cursor + W
        /\ d.x = c.x /\ d.y = c.y + 1
    BY <1>1 DEF Records
  <2>3. c.y + 1 \in 0 .. H - 1
    BY <1>1, <1>2, Sizes
  <2>4. /\ W * c.y \in Nat /\ W * (c.y + 1) = W * c.y + W /\ W * (c.y + 1) + W <= W * H
        /\ W * (c.y + 1 + 1) = W * (c.y + 1) + W
    BY <1>1, <1>2, <2>3, LineFits
  <2>5. c.cursor + W \in Cells
    BY <1>1, <2>4, Sizes DEF Cells
  <2>6. d \in Records
    BY <1>1, <2>3, <2>5 DEF Records
  <2>7. BlankIn(d)
    <3>1. \A a : a \in d.screen + W * (d.y + 1) .. d.screen + SCREEN_SIZE - 1
                   => a \in c.screen + W * (c.y + 1) .. c.screen + SCREEN_SIZE - 1
      BY <1>1, <2>2, <2>4, Sizes
    <3>. QED  BY <2>2, <3>1 DEF Good, BlankIn
  <2> HIDE DEF d
  <2>8. d.cursor = d.screen + W * d.y + d.x
    BY <1>1, <2>2, <2>4, Sizes
  <2>. QED  BY <1>1, <1>2, <2>1, <2>2, <2>6, <2>7, <2>8 DEF Good
<1>3. CASE ~(c.y < H - 1)
  <2>1. c.y = H - 1
    BY <1>1, <1>3, Sizes
  <2>. QED  BY <1>3, <2>1, ScrollUpGood DEF ConsoleLf
<1>. QED  BY <1>2, <1>3

LEMMA CrGood ==
  ASSUME NEW c, Good(c)
  PROVE  Good(ConsoleCr(c)) /\ ConsoleCr(c).x = 0 /\ ConsoleCr(c).y = c.y
<1>1. /\ c \in Records /\ c.cursor = c.screen + W * c.y + c.x
      /\ c.screen + SCREEN_SIZE <= MEM_ADDR_SIZE /\ c.screen % W = 0
      /\ c.screen \in Nat /\ c.x \in Nat /\ c.y \in 0 .. H - 1 /\ c.cursor \in Nat
      /\ c.cursor < MEM_ADDR_SIZE
  BY Sizes DEF Good, Records, Cells
<1> DEFINE d == [c EXCEPT !.cursor = c.cursor - c.x, !.x = 0]
<1>2. ConsoleCr(c) = d
  BY DEF ConsoleCr
<1>3. /\ d.vga = c.vga /\ d.screen = c.screen /\ d.cursor = c.cursor - c.x
      /\ d.x = 0 /\ d.y = c.y
  BY <1>1 DEF Records
<1>4. W * c.y \in Nat
  BY <1>1, LineFits
<1>5. c.cursor - c.x \in Cells /\ 0 \in 0 .. W
  BY <1>1, <1>4, Sizes DEF Cells
<1>6. d \in Records
  BY <1>1, <1>5 DEF Records
<1>7. BlankIn(d)
  BY <1>3 DEF Good, BlankIn
<1> HIDE DEF d
<1>8. d.cursor = d.screen + W * d.y + d.x
  BY <1>1, <1>3, <1>4
<1>. QED  BY <1>1, <1>2, <1>3, <1>6, <1>7, <1>8 DEF Good

LEMMA BsGood ==
  ASSUME NEW c, Good(c)
  PROVE  Good(ConsoleBs(c))
<1>1. /\ c \in Records /\ c.cursor = c.screen + W * c.y + c.x
      /\ c.screen + SCREEN_SIZE <= MEM_ADDR_SIZE /\ c.screen % W = 0
      /\ c.screen \in Nat /\ c.x \in 0 .. W /\ c.y \in 0 .. H - 1 /\ c.cursor \in Cells
  BY Sizes DEF Good, Records, Cells
<1>2. CASE c.x > 0
  <2> DEFINE v == [c.vga EXCEPT ![c.cursor - 1] = FALSE]
             d == [c EXCEPT !.cursor = c.cursor - 1, !.x = c.x - 1, !.vga = v]
  <2>1. ConsoleBs(c) = d
    BY <1>1, <1>2 DEF ConsoleBs, Records
  <2>2. v \in [Cells -> BOOLEAN]
    BY <1>1 DEF Records
  <2>3. /\ d.vga = v /\ d.screen = c.screen /\ d.cursor = c.cursor - 1
        /\ d.x = c.x - 1 /\ d.y = c.y
    BY <1>1 DEF Records
  <2>4. W * c.y \in Nat
    BY <1>1, LineFits
  <2>5. c.cursor - 1 \in Cells /\ c.x - 1 \in 0 .. W
    BY <1>1, <1>2, <2>4, Sizes DEF Cells
  <2>6. d \in Records
    <3> HIDE DEF v
    <3>. QED  BY <1>1, <2>2, <2>5 DEF Records
  <2>7. BlankIn(d)
    <3>1. SUFFICES ASSUME NEW a \in c.screen + W * (c.y + 1) .. c.screen + SCREEN_SIZE - 1
                   PROVE  ~v[a]
      BY <2>3 DEF BlankIn
    <3>2. ~c.vga[a]
      BY DEF Good, BlankIn
    <3>3. c.vga \in [Cells -> BOOLEAN] /\ a \in Cells
      <4>1. W * (c.y + 1) \in Nat
        BY <1>1, Sizes
      <4>2. a \in Nat /\ a < MEM_ADDR_SIZE
        BY <1>1, <3>1, <4>1, Sizes
      <4>. QED  BY <1>1, <4>2, Sizes DEF Records, Cells
    <3>. QED  BY <3>2, <3>3
  <2> HIDE DEF d
  <2>8. d.cursor = d.screen + W * d.y + d.x
    BY <1>1, <2>3, <2>4, Sizes
  <2>. QED  BY <1>1, <2>1, <2>3, <2>6, <2>7, <2>8 DEF Good
<1>3. CASE ~(c.x > 0)
  BY <1>3 DEF ConsoleBs
<1>. QED  BY <1>2, <1>3

(* A character on a line that is not full.                                 *)
PutAt(c) == [c EXCEPT !.vga[c.cursor] = TRUE, !.cursor = @ + 1, !.x = @ + 1]

LEMMA PutGood ==
  ASSUME NEW c, Good(c), c.x < W
  PROVE  Good(PutAt(c)) /\ PutAt(c).cursor > 0
<1>1. /\ c \in Records /\ c.cursor = c.screen + W * c.y + c.x
      /\ c.screen + SCREEN_SIZE <= MEM_ADDR_SIZE /\ c.screen % W = 0
      /\ c.screen \in Nat /\ c.x \in 0 .. W /\ c.y \in 0 .. H - 1 /\ c.cursor \in Cells
  BY Sizes DEF Good, Records, Cells
<1> DEFINE v == [c.vga EXCEPT ![c.cursor] = TRUE]
           d == [c EXCEPT !.vga = v, !.cursor = c.cursor + 1, !.x = c.x + 1]
<1>2. PutAt(c) = d
  BY <1>1 DEF PutAt, Records
<1>3. v \in [Cells -> BOOLEAN]
  BY <1>1 DEF Records
<1>4. /\ d.vga = v /\ d.screen = c.screen /\ d.cursor = c.cursor + 1
      /\ d.x = c.x + 1 /\ d.y = c.y
  BY <1>1 DEF Records
<1>5. W * c.y \in Nat /\ W * (c.y + 1) = W * c.y + W /\ W * (c.y + 1) <= W * H
  BY <1>1, LineFits
<1>6. c.cursor + 1 \in Cells /\ c.x + 1 \in 0 .. W
  BY <1>1, <1>5, Sizes DEF Cells
<1>7. d \in Records
  <2> HIDE DEF v
  <2>. QED  BY <1>1, <1>3, <1>6 DEF Records
<1>8. BlankIn(d)
  <2>1. SUFFICES ASSUME NEW a \in c.screen + W * (c.y + 1) .. c.screen + SCREEN_SIZE - 1
                 PROVE  ~v[a]
    BY <1>4 DEF BlankIn
  <2>2. ~c.vga[a]
    BY DEF Good, BlankIn
  <2>3. a # c.cursor /\ a \in Cells
    BY <1>1, <1>5, <2>1, Sizes DEF Cells
  <2>. QED  BY <1>1, <2>2, <2>3 DEF Records
<1> HIDE DEF d
<1>9. d.cursor = d.screen + W * d.y + d.x /\ d.cursor > 0
  BY <1>1, <1>4, <1>5, Sizes DEF Cells
<1>. QED  BY <1>1, <1>2, <1>4, <1>7, <1>8, <1>9 DEF Good

LEMMA DefaultGood ==
  ASSUME NEW c, Good(c)
  PROVE  Good(ConsoleDefault(c)) /\ ConsoleDefault(c).cursor > 0
<1> DEFINE d == IF c.x >= W THEN ConsoleLf(ConsoleCr(c)) ELSE c
<1>1. Good(d) /\ d.x < W
  <2>1. CASE c.x >= W
    BY <2>1, CrGood, LfGood, Sizes
  <2>2. CASE ~(c.x >= W)
    BY <2>2, Sizes DEF Good, Records
  <2>. QED  BY <2>1, <2>2
<1>2. ConsoleDefault(c) = PutAt(d)
  BY DEF ConsoleDefault, PutAt
<1> HIDE DEF d
<1>. QED  BY <1>1, <1>2, PutGood

-----------------------------------------------------------------------------
(* The actions.  CursorConsistent and BlankBelow together are inductive.   *)
IInv == CursorConsistent /\ BlankBelow

LEMMA ConRecord ==
  /\ TypeOK => Con \in Records
  /\ Con.vga = vga /\ Con.screen = screen_pos /\ Con.cursor = cursor_pos
  /\ Con.x = cursor_x /\ Con.y = cursor_y
BY DEF TypeOK, Con, Records

LEMMA ConGood == IInv => Good(Con)
<1>1. SUFFICES ASSUME IInv PROVE Good(Con)
  OBVIOUS
<1>2. Con \in Records
  BY <1>1, ConRecord DEF IInv, CursorConsistent
<1>3. BlankIn(Con)
  BY <1>1, ConRecord DEF IInv, BlankBelow, BlankIn
<1>. QED  BY <1>1, <1>2, <1>3, ConRecord DEF IInv, CursorConsistent, Good

(* What is left to say of an action that leaves a good record behind.      *)
LEMMA BecomesInv ==
  ASSUME NEW c, Good(c), Becomes(c),
         crt_start' \in (0 .. BYTE - 1) \X (0 .. BYTE - 1),
         crt_cursor' \in (0 .. BYTE - 1) \X (0 .. BYTE - 1),
         pc' = "write", Shown(crt_start)' = screen_pos'
  PROVE  IInv'
<1>1. /\ c.vga \in [Cells -> BOOLEAN] /\ c.screen \in Cells /\ c.cursor \in Cells
      /\ c.x \in 0 .. W /\ c.y \in 0 .. H - 1
  BY DEF Good, Records
<1>2. TypeOK'
  BY <1>1 DEF Becomes, TypeOK
<1>3. CursorConsistent'
  BY <1>2 DEF Good, Becomes, CursorConsistent
<1>4. BlankBelow'
  BY DEF Good, BlankIn, Becomes, BlankBelow
<1>. QED  BY <1>3, <1>4 DEF IInv

LEMMA InitInv == Init => IInv
<1>1. SUFFICES ASSUME Init PROVE IInv
  OBVIOUS
<1>2. 0 \in Cells /\ 0 \in 0 .. W /\ 0 \in 0 .. H - 1 /\ 0 % W = 0 /\ W * 0 = 0
  BY Sizes DEF Cells
<1>3. TypeOK
  BY <1>1, <1>2, PairType DEF Init, TypeOK
<1>4. CursorConsistent
  BY <1>1, <1>2, <1>3, PairShown, Sizes DEF Init, CursorConsistent
<1>5. BlankBelow
  <2>1. W * (0 + 1) \in Nat
    BY Sizes
  <2>2. W * (0 + 1) .. SCREEN_SIZE - 1 \subseteq Cells
    BY <2>1, Sizes DEF Cells
  <2>. QED  BY <1>1, <2>1, <2>2, Sizes DEF Init, BlankBelow
<1>. QED  BY <1>4, <1>5 DEF IInv

LEMMA WriteCallInv == IInv /\ WriteCall => IInv'
BY DEF IInv, WriteCall, console, CursorConsistent, TypeOK, BlankBelow, Shown

LEMMA WriteBsInv == IInv /\ WriteBs => IInv'
<1>1. SUFFICES ASSUME IInv, WriteBs PROVE IInv'
  OBVIOUS
<1>2. Good(ConsoleBs(Con))
  BY <1>1, ConGood, BsGood
<1>3. cursor_pos' \in Nat
  BY <1>1, <1>2, Sizes DEF WriteBs, Becomes, Good, Records, Cells
<1>4. crt_cursor' \in (0 .. BYTE - 1) \X (0 .. BYTE - 1)
  BY <1>1, <1>3, PairType DEF WriteBs, IInv, CursorConsistent, TypeOK
<1>5. crt_start' \in (0 .. BYTE - 1) \X (0 .. BYTE - 1)
  BY <1>1 DEF WriteBs, IInv, CursorConsistent, TypeOK
<1>6. Shown(crt_start)' = screen_pos'
  BY <1>1 DEF WriteBs, Becomes, ConsoleBs, Con, IInv, CursorConsistent, Shown
<1>. QED  BY <1>1, <1>2, <1>4, <1>5, <1>6, BecomesInv DEF WriteBs

(* The window moves only when the line feed meets the last line, and then  *)
(* the start address is written.                                           *)
LEMMA LfStart ==
  ASSUME NEW c, Good(c), c.y < H - 1
  PROVE  ConsoleLf(c).screen = c.screen
BY DEF ConsoleLf, Good, Records

LEMMA WriteLfInv == IInv /\ WriteLf => IInv'
<1>1. SUFFICES ASSUME IInv, WriteLf PROVE IInv'
  OBVIOUS
<1> DEFINE d == ConsoleCr(ConsoleLf(Con))
<1>2. Good(d)
  BY <1>1, ConGood, LfGood, CrGood
<1>3. Good(Con) /\ Good(ConsoleLf(Con)) /\ Becomes(d)
  BY <1>1, ConGood, LfGood DEF WriteLf
<1>4. d.screen = ConsoleLf(Con).screen
  BY <1>3 DEF ConsoleCr, Good, Records
<1> HIDE DEF d
<1>5. screen_pos' \in Cells /\ cursor_pos' \in Nat /\ screen_pos' \in Nat
  BY <1>2, <1>3, Sizes DEF Becomes, Good, Records, Cells
<1>6. crt_cursor' \in (0 .. BYTE - 1) \X (0 .. BYTE - 1)
  BY <1>1, <1>5, PairType DEF WriteLf
<1>7. /\ crt_start' \in (0 .. BYTE - 1) \X (0 .. BYTE - 1)
      /\ Shown(crt_start)' = screen_pos'
  <2>1. CASE cursor_y < H - 1
    <3>1. screen_pos' = screen_pos /\ crt_start' = crt_start
      BY <1>1, <1>3, <1>4, <2>1, ConRecord, LfStart DEF WriteLf, Becomes
    <3>. QED  BY <1>1, <3>1 DEF IInv, CursorConsistent, TypeOK, Shown
  <2>2. CASE ~(cursor_y < H - 1)
    <3>1. crt_start' = Pair(screen_pos')
      BY <1>1, <2>2 DEF WriteLf
    <3>. QED  BY <1>5, <3>1, PairType, PairShown DEF Shown
  <2>. QED  BY <2>1, <2>2
<1>. QED  BY <1>1, <1>2, <1>3, <1>6, <1>7, BecomesInv DEF WriteLf

LEMMA WriteDefaultInv == IInv /\ WriteDefault => IInv'
<1>1. SUFFICES ASSUME IInv, WriteDefault PROVE IInv'
  OBVIOUS
<1>2. Good(Con) /\ Good(ConsoleDefault(Con)) /\ ConsoleDefault(Con).cursor > 0
  BY <1>1, ConGood, DefaultGood
<1>3. /\ cursor_pos' \in Nat /\ cursor_pos' > 0 /\ screen_pos' \in Nat /\ screen_pos' \in Cells
      /\ cursor_x \in Nat
  BY <1>1, <1>2, Sizes
     DEF WriteDefault, Becomes, Good, Records, Cells, IInv, CursorConsistent, TypeOK
<1>4. /\ crt_cursor' \in (0 .. BYTE - 1) \X (0 .. BYTE - 1)
      /\ crt_start' \in (0 .. BYTE - 1) \X (0 .. BYTE - 1)
      /\ Shown(crt_start)' = screen_pos'
  <2>1. CASE cursor_x < W
    <3>1. ConsoleDefault(Con).screen = screen_pos
      BY <1>2, <1>3, <2>1, ConRecord, Sizes DEF ConsoleDefault, Good, Records
    <3>2. screen_pos' = screen_pos /\ crt_start' = crt_start /\ crt_cursor' = crt_cursor
      BY <1>1, <2>1, <3>1 DEF WriteDefault, Becomes
    <3>. QED  BY <1>1, <3>2 DEF IInv, CursorConsistent, TypeOK, Shown
  <2>2. CASE ~(cursor_x < W) /\ cursor_y < H - 1
    <3> DEFINE c == ConsoleCr(Con)
    <3>1. Good(c) /\ c.y = cursor_y /\ c.screen = screen_pos
      <4>1. Good(c) /\ c.y = cursor_y
        BY <1>2, CrGood, ConRecord
      <4>. QED  BY <1>2, <4>1, ConRecord DEF ConsoleCr, Good, Records
    <3>2. Good(ConsoleLf(c)) /\ ConsoleLf(c).screen = screen_pos
      BY <2>2, <3>1, LfGood, LfStart
    <3>3. ConsoleDefault(Con) = PutAt(ConsoleLf(c))
      <4>1. Con.x >= W
        BY <1>3, <2>2, ConRecord, Sizes
      <4>. QED  BY <4>1 DEF ConsoleDefault, PutAt
    <3> HIDE DEF c
    <3>4. PutAt(ConsoleLf(c)).screen = screen_pos
      BY <3>2 DEF PutAt, Good, Records
    <3>5. /\ screen_pos' = screen_pos /\ crt_start' = crt_start
          /\ crt_cursor' = Pair(cursor_pos' - 1)
      BY <1>1, <2>2, <3>3, <3>4 DEF WriteDefault, Becomes
    <3>. QED  BY <1>1, <1>3, <3>5, PairType DEF IInv, CursorConsistent, TypeOK, Shown
  <2>3. CASE ~(cursor_x < W) /\ ~(cursor_y < H - 1)
    <3>1. crt_start' = Pair(screen_pos') /\ crt_cursor' = Pair(cursor_pos' - 1)
      BY <1>1, <2>3 DEF WriteDefault
    <3>. QED  BY <1>3, <3>1, PairType, PairShown DEF Shown
  <2>. QED  BY <2>1, <2>2, <2>3
<1>. QED  BY <1>1, <1>2, <1>4, BecomesInv DEF WriteDefault

LEMMA WriteReturnInv == IInv /\ WriteReturn => IInv'
<1>1. SUFFICES ASSUME IInv, WriteReturn PROVE IInv'
  OBVIOUS
<1>2. cursor_pos \in Nat
  BY <1>1, Sizes DEF IInv, CursorConsistent, TypeOK, Cells
<1>3. /\ Shown(crt_cursor)' = cursor_pos'
      /\ crt_cursor' \in (0 .. BYTE - 1) \X (0 .. BYTE - 1)
  BY <1>1, <1>2, PairShown, PairType
     DEF WriteReturn, IInv, CursorConsistent, TypeOK, console, Shown
<1>4. TypeOK'
  BY <1>1, <1>3 DEF WriteReturn, IInv, CursorConsistent, TypeOK, console
<1>5. BlankBelow'
  BY <1>1 DEF WriteReturn, IInv, BlankBelow, console
<1>. QED  BY <1>1, <1>3, <1>4, <1>5
             DEF WriteReturn, IInv, CursorConsistent, console, Shown

LEMMA NextInv == IInv /\ [Next]_vars => IInv'
<1>1. SUFFICES ASSUME IInv, [Next]_vars PROVE IInv'
  OBVIOUS
<1>2. CASE UNCHANGED vars
  BY <1>1, <1>2 DEF vars, console, IInv, CursorConsistent, TypeOK, BlankBelow, Shown
<1>. QED  BY <1>1, <1>2, WriteCallInv, WriteBsInv, WriteLfInv, WriteDefaultInv, WriteReturnInv
             DEF Next

LEMMA Invariance == Spec => []IInv
BY InitInv, NextInv, PTL DEF Spec

-----------------------------------------------------------------------------
(* The three forms of the cursor, the window and the CRT's registers agree *)
(* after every character, for every size of screen and memory.             *)
THEOREM CursorAgrees == Spec => []CursorConsistent
<1>1. IInv => CursorConsistent
  BY DEF IInv
<1>. QED  BY <1>1, Invariance, PTL

(* Nothing from an earlier pass over the text memory is below the cursor.  *)
THEOREM NothingBelow == Spec => []BlankBelow
<1>1. IInv => BlankBelow
  BY DEF IInv
<1>. QED  BY <1>1, Invariance, PTL

-----------------------------------------------------------------------------
(* What a reader of the screen sees of a record, and what the helpers make *)
(* of it: a console is a terminal.                                         *)
Rows == 0 .. H - 1
Columns == 0 .. W - 1
View(c) == [r \in Rows |-> [k \in Columns |-> c.vga[c.screen + r * W + k]]]

(* A cell of the window is in the two screens, and is no other cell.       *)
LEMMA Offset ==
  ASSUME NEW r \in Rows, NEW k \in Columns
  PROVE  /\ r * W \in Nat /\ r * W = W * r /\ r * W + k \in Nat
         /\ r * W + k < W * r + W /\ W * r + W <= W * H
<1>1. W * r \in Nat /\ W * (r + 1) = W * r + W /\ W * (r + 1) <= W * H
  BY LineFits DEF Rows
<1>2. r * W = W * r
  BY Sizes DEF Rows
<1>3. k \in Nat /\ k < W
  BY Sizes DEF Columns
<1>. QED  BY <1>1, <1>2, <1>3, Sizes

LEMMA SameCell ==
  ASSUME NEW r \in Rows, NEW k \in Columns, NEW y \in Rows, NEW x \in Columns,
         r * W + k = W * y + x
  PROVE  r = y /\ k = x
<1>1. W \in Nat /\ W > 0 /\ r \in Nat /\ y \in Nat /\ k \in 0 .. W - 1 /\ x \in 0 .. W - 1
  BY Sizes DEF Rows, Columns
<1>2. W * r + k = W * y + x /\ W * r + k \in Nat
  BY Offset
<1>3. (W * r + k) % W = k /\ (W * r + k) \div W = r
  BY <1>1, <1>2, DivMod
<1>4. (W * y + x) % W = x /\ (W * y + x) \div W = y
  BY <1>1, <1>2, DivMod
<1>. QED  BY <1>2, <1>3, <1>4

LEMMA ViewCells ==
  ASSUME NEW c, Good(c), NEW r \in Rows, NEW k \in Columns
  PROVE  /\ c.screen + r * W + k \in Cells
         /\ c.screen \in Nat /\ c.screen + r * W + k < c.screen + SCREEN_SIZE
<1>1. c.screen \in Nat /\ c.screen + SCREEN_SIZE <= MEM_ADDR_SIZE
  BY Sizes DEF Good, Records, Cells
<1>2. r * W \in Nat /\ k \in Nat /\ r * W + k < W * H
  BY Offset, Sizes DEF Columns
<1>. QED  BY <1>1, <1>2, Sizes DEF Cells

LEMMA CrView ==
  ASSUME NEW c, Good(c)
  PROVE  View(ConsoleCr(c)) = View(c)
<1>1. ConsoleCr(c).vga = c.vga /\ ConsoleCr(c).screen = c.screen
  BY DEF ConsoleCr, Good, Records
<1>. QED  BY <1>1 DEF View

(* Setting the cell of column x on the cursor's line sets it in the view.  *)
LEMMA SetView ==
  ASSUME NEW c, Good(c), NEW d, NEW x \in Columns, NEW b,
         d.screen = c.screen, d.vga = [c.vga EXCEPT ![c.screen + W * c.y + x] = b]
  PROVE  View(d) = [View(c) EXCEPT ![c.y][x] = b]
<1>1. c.y \in Rows /\ c.vga \in [Cells -> BOOLEAN]
  BY DEF Good, Records, Rows
<1> DEFINE e == [View(c) EXCEPT ![c.y][x] = b]
<1>2. ASSUME NEW r \in Rows, NEW k \in Columns
      PROVE  d.vga[d.screen + r * W + k] = e[r][k]
  <2>1. c.screen + r * W + k \in Cells /\ c.screen \in Nat
    BY ViewCells
  <2>2. /\ r * W + k \in Nat /\ W * c.y \in Nat /\ x \in Nat /\ k \in Nat /\ r * W \in Nat
        /\ r * W = W * r
    BY <1>1, Offset, Sizes DEF Columns
  <2>3. c.screen + r * W + k = c.screen + W * c.y + x <=> r = c.y /\ k = x
    <3>1. c.screen + r * W + k = c.screen + W * c.y + x <=> r * W + k = W * c.y + x
      BY <2>1, <2>2
    <3>. QED  BY <1>1, <2>2, <3>1, SameCell
  <2>4. d.vga[d.screen + r * W + k]
          = IF r = c.y /\ k = x THEN b ELSE c.vga[c.screen + r * W + k]
    BY <1>1, <2>1, <2>3
  <2>5. e[r][k] = IF r = c.y /\ k = x THEN b ELSE c.vga[c.screen + r * W + k]
    BY <1>1 DEF View
  <2>. QED  BY <2>4, <2>5
<1>3. \A r \in Rows : e[r] = [k \in Columns |-> e[r][k]]
  BY <1>1 DEF View
<1>4. e = [r \in Rows |-> e[r]]
  BY DEF View
<1> HIDE DEF e
<1>5. \A r \in Rows : [k \in Columns |-> d.vga[d.screen + r * W + k]] = e[r]
  BY <1>2, <1>3
<1>6. View(d) = [r \in Rows |-> e[r]]
  BY <1>5 DEF View
<1>. QED  BY <1>4, <1>6 DEF e

LEMMA PutView ==
  ASSUME NEW c, Good(c), c.x < W
  PROVE  /\ View(PutAt(c)) = [View(c) EXCEPT ![c.y][c.x] = TRUE]
         /\ PutAt(c).x = c.x + 1 /\ PutAt(c).y = c.y
<1>1. c \in Records /\ c.x \in Columns /\ c.cursor = c.screen + W * c.y + c.x
  BY Sizes DEF Good, Records, Columns
<1>2. /\ PutAt(c).screen = c.screen /\ PutAt(c).vga = [c.vga EXCEPT ![c.cursor] = TRUE]
      /\ PutAt(c).x = c.x + 1 /\ PutAt(c).y = c.y
  BY <1>1 DEF PutAt, Records
<1>3. PICK b \in BOOLEAN : b = TRUE
  OBVIOUS
<1>4. PutAt(c).vga = [c.vga EXCEPT ![c.screen + W * c.y + c.x] = b]
  BY <1>1, <1>2, <1>3, Zenon
<1>5. View(PutAt(c)) = [View(c) EXCEPT ![c.y][c.x] = b]
  BY <1>1, <1>2, <1>4, SetView
<1>6. View(PutAt(c)) = [View(c) EXCEPT ![c.y][c.x] = TRUE]
  BY <1>3, <1>5, Zenon
<1>. QED  BY <1>2, <1>6

LEMMA BsView ==
  ASSUME NEW c, Good(c), c.x > 0
  PROVE  /\ View(ConsoleBs(c)) = [View(c) EXCEPT ![c.y][c.x - 1] = FALSE]
         /\ ConsoleBs(c).x = c.x - 1 /\ ConsoleBs(c).y = c.y
<1>1. /\ c \in Records /\ c.x - 1 \in Columns /\ c.cursor = c.screen + W * c.y + c.x
      /\ c.screen \in Nat /\ c.x \in Nat /\ c.y \in Rows
  BY Sizes DEF Good, Records, Columns, Cells, Rows
<1>2. W * c.y \in Nat
  BY <1>1, LineFits DEF Rows
<1>3. c.cursor - 1 = c.screen + W * c.y + (c.x - 1)
  BY <1>1, <1>2
<1>4. /\ ConsoleBs(c).screen = c.screen
      /\ ConsoleBs(c).vga = [c.vga EXCEPT ![c.cursor - 1] = FALSE]
      /\ ConsoleBs(c).x = c.x - 1 /\ ConsoleBs(c).y = c.y
  BY <1>1 DEF ConsoleBs, Records
<1>5. PICK x \in Columns : x = c.x - 1
  BY <1>1
<1>6. PICK b \in BOOLEAN : b = FALSE
  OBVIOUS
<1>7. ConsoleBs(c).vga = [c.vga EXCEPT ![c.screen + W * c.y + x] = b]
  BY <1>3, <1>4, <1>5, <1>6, Zenon
<1>8. View(ConsoleBs(c)) = [View(c) EXCEPT ![c.y][x] = b]
  BY <1>4, <1>7, SetView
<1>9. View(ConsoleBs(c)) = [View(c) EXCEPT ![c.y][x] = FALSE]
  BY <1>6, <1>8, Zenon
<1>. QED  BY <1>4, <1>5, <1>9

(* A line feed moves the cursor, moves everything up, or is lost.          *)
BlankLine == [k \in Columns |-> FALSE]
Up(lines) == [r \in Rows |-> IF r < H - 1 THEN lines[r + 1] ELSE BlankLine]

LEMMA LfView ==
  ASSUME NEW c, Good(c)
  PROVE  \/ c.y < H - 1 /\ View(ConsoleLf(c)) = View(c)
         \/ c.y = H - 1 /\ View(ConsoleLf(c)) = Up(View(c))
         \/ c.y = H - 1 /\ View(ConsoleLf(c)) = View(c)
<1>1. /\ c \in Records /\ c.screen \in Nat /\ c.y \in Rows /\ c.y \in Nat
      /\ c.screen + SCREEN_SIZE <= MEM_ADDR_SIZE
  BY Sizes DEF Good, Records, Cells, Rows
<1>2. CASE c.y < H - 1
  <2>1. ConsoleLf(c).vga = c.vga /\ ConsoleLf(c).screen = c.screen
    BY <1>1, <1>2 DEF ConsoleLf, Records
  <2>. QED  BY <1>2, <2>1 DEF View
<1>3. CASE c.y = H - 1 /\ c.screen + SCREEN_SIZE + W < MEM_ADDR_SIZE
  <2> DEFINE d == ConsoleLf(c)
  <2>1. /\ d.screen = c.screen + W
        /\ d.vga = [a \in Cells |-> IF a - c.screen \in SCREEN_SIZE .. SCREEN_SIZE + W - 1
                                    THEN FALSE ELSE c.vga[a]]
    BY <1>1, <1>3, Sizes DEF ConsoleLf, ScrollUp, Records
  <2>2. Good(d)
    BY LfGood
  <2> HIDE DEF d
  <2>3. ASSUME NEW r \in Rows, NEW k \in Columns
        PROVE  d.vga[d.screen + r * W + k] = Up(View(c))[r][k]
    <3>1. d.screen + r * W + k \in Cells
      BY <2>2, ViewCells
    <3>2. /\ r * W \in Nat /\ k \in Nat /\ r * W + k < W * r + W /\ W * r + W <= W * H
          /\ r * W = W * r /\ k < W
      BY Offset, Sizes DEF Columns
    <3>3. d.screen + r * W + k - c.screen < SCREEN_SIZE
      BY <1>1, <2>1, <3>2, Sizes
    <3>4. d.vga[d.screen + r * W + k] = c.vga[c.screen + W + r * W + k]
      <4> DEFINE a == d.screen + r * W + k
      <4>1. a \in Cells /\ a = c.screen + W + r * W + k /\ a - c.screen < SCREEN_SIZE
        <5>1. d.screen = c.screen + W /\ d.screen \in Int
          BY <1>1, <2>1, Sizes
        <5>. QED  BY <1>1, <3>1, <3>2, <3>3, <5>1, Sizes
      <4> HIDE DEF a
      <4>2. a - c.screen \notin SCREEN_SIZE .. SCREEN_SIZE + W - 1
        BY <1>1, <4>1, Sizes DEF Cells
      <4>3. d.vga[a] = c.vga[a]
        BY <2>1, <4>1, <4>2
      <4>. QED  BY <4>1, <4>3 DEF a
    <3>5. CASE r < H - 1
      <4>1. r + 1 \in Rows /\ (r + 1) * W = W + r * W
        BY <3>5, Sizes DEF Rows
      <4>2. Up(View(c))[r][k] = c.vga[c.screen + (r + 1) * W + k]
        BY <3>5, <4>1 DEF Up, View
      <4>3. c.screen + W + r * W + k = c.screen + (r + 1) * W + k
        BY <1>1, <3>2, <4>1, Sizes
      <4>. QED  BY <3>4, <4>2, <4>3
    <3>6. CASE ~(r < H - 1)
      <4>1. r = H - 1 /\ W * (c.y + 1) = W * H /\ W + W * r = W * H
        <5>1. r = H - 1
          BY <3>6, Sizes DEF Rows
        <5>2. W * (c.y + 1) = W * H /\ W * (c.y + 1) = W * c.y + W
          BY <1>1, <1>3, LineFits DEF Rows
        <5>. QED  BY <1>1, <1>3, <5>1, <5>2, Sizes
      <4>2. c.screen + W + r * W + k = c.screen + W * H + k
        BY <1>1, <3>2, <4>1, Sizes
      <4>3. c.screen + W * H + k \in c.screen + W * (c.y + 1) .. c.screen + SCREEN_SIZE - 1
        BY <1>1, <3>2, <4>1, Sizes
      <4>4. ~c.vga[c.screen + W * H + k] /\ c.screen + W * H + k \in Cells
        <5>1. c.screen + W * H + k \in Cells
          BY <1>1, <3>2, <4>3, Sizes DEF Cells
        <5>. QED  BY <4>3, <5>1 DEF Good, BlankIn
      <4>5. c.vga[c.screen + W * H + k] = FALSE
        BY <1>1, <4>4 DEF Records
      <4>6. Up(View(c))[r][k] = FALSE
        BY <3>6 DEF Up, BlankLine
      <4>. QED  BY <3>4, <4>2, <4>5, <4>6
    <3>. QED  BY <3>5, <3>6
  <2>4. \A r \in Rows : Up(View(c))[r] = [k \in Columns |-> Up(View(c))[r][k]]
    <3>1. SUFFICES ASSUME NEW r \in Rows
                   PROVE  Up(View(c))[r] = [k \in Columns |-> Up(View(c))[r][k]]
      OBVIOUS
    <3>2. CASE r < H - 1
      <4>1. r + 1 \in Rows
        BY <3>2, Sizes DEF Rows
      <4>. QED  BY <3>2, <4>1 DEF Up, View
    <3>3. CASE ~(r < H - 1)
      BY <3>3 DEF Up, BlankLine
    <3>. QED  BY <3>2, <3>3
  <2>5. View(d) = [r \in Rows |-> Up(View(c))[r]]
    BY <2>3, <2>4 DEF View
  <2>6. View(d) = Up(View(c))
    BY <2>5 DEF Up
  <2>. QED  BY <1>3, <2>6 DEF d
<1>4. CASE c.y = H - 1 /\ ~(c.screen + SCREEN_SIZE + W < MEM_ADDR_SIZE)
  <2> DEFINE d == ConsoleLf(c)
  <2>1. /\ d.screen = 0
        /\ d.vga = [a \in Cells |-> IF a < SCREEN_SIZE THEN c.vga[c.screen + a] ELSE c.vga[a]]
    BY <1>1, <1>4, Sizes DEF ConsoleLf, ScrollUp, Records
  <2> HIDE DEF d
  <2>2. ASSUME NEW r \in Rows, NEW k \in Columns
        PROVE  d.vga[d.screen + r * W + k] = c.vga[c.screen + r * W + k]
    <3>1. /\ r * W \in Nat /\ k \in Nat /\ r * W + k < W * r + W /\ W * r + W <= W * H
          /\ r * W = W * r
      BY Offset, Sizes DEF Columns
    <3>2. 0 + r * W + k \in Cells /\ 0 + r * W + k < SCREEN_SIZE
      BY <3>1, Sizes DEF Cells
    <3>3. c.screen + (0 + r * W + k) = c.screen + r * W + k
      BY <1>1, <3>1
    <3>. QED  BY <2>1, <3>2, <3>3
  <2>3. View(d) = View(c)
    BY <2>2 DEF View
  <2>. QED  BY <1>4, <2>3 DEF d
<1>. QED  BY <1>1, <1>2, <1>3, <1>4, Sizes DEF Rows

-----------------------------------------------------------------------------
(* The steps of console_write are steps of the terminal.                   *)
LEMMA WindowIsView == Window = View(Con)
BY ConRecord DEF Window, View, Rows, Columns

LEMMA BecomesView ==
  ASSUME NEW c, Becomes(c)
  PROVE  Window' = View(c) /\ cursor_x' = c.x /\ cursor_y' = c.y
BY DEF Becomes, Window, View, Rows, Columns

LEMMA UpIsScrolled ==
  /\ Up(Window) = Seen!Scrolled(Window)
  /\ Seen!Blank = BlankLine
BY DEF Up, BlankLine, Seen!Scrolled, Seen!Blank, Rows, Columns

(* The line a console is on after a line feed.                             *)
LEMMA LfCursor ==
  ASSUME NEW c, Good(c)
  PROVE  /\ ConsoleLf(c).x = c.x
         /\ ConsoleLf(c).y = IF c.y < H - 1 THEN c.y + 1 ELSE c.y
BY DEF ConsoleLf, ScrollUp, Good, Records

LEMMA CrCursor ==
  ASSUME NEW c, Good(c)
  PROVE  ConsoleCr(c).x = 0 /\ ConsoleCr(c).y = c.y
BY DEF ConsoleCr, Good, Records

(* A line feed from a record that shows what the console shows, on its     *)
(* line, is a line feed of the terminal.                                   *)
LEMMA LfFed ==
  ASSUME NEW c, Good(c), View(c) = Window, c.y = cursor_y
  PROVE  /\ Seen!Fed(View(ConsoleLf(c)), ConsoleLf(c).y)
         /\ View(ConsoleLf(c)) \in {Window, Seen!Scrolled(Window)}
         /\ ConsoleLf(c).y \in {cursor_y, cursor_y + 1}
<1>1. c.y \in 0 .. H - 1
  BY DEF Good, Records
<1>2. CASE c.y < H - 1 /\ View(ConsoleLf(c)) = View(c)
  BY <1>2, LfCursor DEF Seen!Fed
<1>3. CASE c.y = H - 1 /\ View(ConsoleLf(c)) = Up(View(c))
  BY <1>1, <1>3, LfCursor, UpIsScrolled, Sizes DEF Seen!Fed
<1>4. CASE c.y = H - 1 /\ View(ConsoleLf(c)) = View(c)
  BY <1>1, <1>4, LfCursor, Sizes DEF Seen!Fed
<1>. QED  BY <1>2, <1>3, <1>4, LfView

LEMMA SeenInit == Init => Seen!Init
<1>1. SUFFICES ASSUME Init PROVE Seen!Init
  OBVIOUS
<1>2. ASSUME NEW r \in Rows, NEW k \in Columns
      PROVE  vga[screen_pos + r * W + k] = FALSE
  <2>1. Good(Con)
    BY <1>1, InitInv, ConGood
  <2>2. screen_pos + r * W + k \in Cells
    BY <2>1, ViewCells, ConRecord
  <2>. QED  BY <1>1, <2>2 DEF Init
<1>3. Window = [r \in Rows |-> BlankLine]
  BY <1>2 DEF Window, Rows, Columns, BlankLine
<1>. QED  BY <1>1, <1>3, UpIsScrolled DEF Init, Seen!Init, Rows

LEMMA BsSeen == IInv /\ WriteBs => [Seen!Next]_(Seen!tvars)
<1>1. SUFFICES ASSUME IInv, WriteBs PROVE [Seen!Next]_(Seen!tvars)
  OBVIOUS
<1>2. Good(Con) /\ Window = View(Con) /\ Con.x = cursor_x /\ Con.y = cursor_y
  BY <1>1, ConGood, ConRecord, WindowIsView
<1>3. /\ Window' = View(ConsoleBs(Con)) /\ cursor_x' = ConsoleBs(Con).x
      /\ cursor_y' = ConsoleBs(Con).y
  BY <1>1, BecomesView DEF WriteBs
<1>4. CASE Con.x > 0
  <2>1. Seen!Backspace
    BY <1>2, <1>3, <1>4, BsView DEF Seen!Backspace
  <2>. QED  BY <2>1 DEF Seen!Next
<1>5. CASE ~(Con.x > 0)
  <2>1. ConsoleBs(Con) = Con
    BY <1>5 DEF ConsoleBs
  <2>. QED  BY <1>2, <1>3, <2>1 DEF Seen!tvars
<1>. QED  BY <1>4, <1>5

LEMMA LfSeen == IInv /\ WriteLf => Seen!Next
<1>1. SUFFICES ASSUME IInv, WriteLf PROVE Seen!Newline
  BY DEF Seen!Next
<1> DEFINE d == ConsoleLf(Con)
<1>2. Good(Con) /\ Window = View(Con) /\ Con.y = cursor_y
  BY <1>1, ConGood, ConRecord, WindowIsView
<1>3. Good(d) /\ Seen!Fed(View(d), d.y)
  BY <1>2, LfGood, LfFed
<1>4. /\ Window' = View(ConsoleCr(d)) /\ cursor_x' = ConsoleCr(d).x
      /\ cursor_y' = ConsoleCr(d).y
  BY <1>1, BecomesView DEF WriteLf
<1> HIDE DEF d
<1>5. Window' = View(d) /\ cursor_x' = 0 /\ cursor_y' = d.y
  BY <1>3, <1>4, CrView, CrCursor
<1>. QED  BY <1>3, <1>5 DEF Seen!Newline

LEMMA DefaultSeen == IInv /\ WriteDefault => Seen!Next
<1>1. SUFFICES ASSUME IInv, WriteDefault PROVE Seen!Character
  BY DEF Seen!Next
<1>2. /\ Good(Con) /\ Window = View(Con) /\ Con.x = cursor_x /\ Con.y = cursor_y
      /\ cursor_x \in 0 .. W
  BY <1>1, ConGood, ConRecord, WindowIsView DEF IInv, CursorConsistent, TypeOK
<1>3. /\ Window' = View(ConsoleDefault(Con)) /\ cursor_x' = ConsoleDefault(Con).x
      /\ cursor_y' = ConsoleDefault(Con).y
  BY <1>1, BecomesView DEF WriteDefault
<1>4. CASE cursor_x < W
  <2>1. ~(Con.x >= W)
    BY <1>2, <1>4, Sizes
  <2>2. ConsoleDefault(Con) = PutAt(Con)
    BY <2>1 DEF ConsoleDefault, PutAt
  <2>. QED  BY <1>2, <1>3, <1>4, <2>2, PutView DEF Seen!Character, Seen!Put
<1>5. CASE ~(cursor_x < W)
  <2> DEFINE c == ConsoleCr(Con)
             d == ConsoleLf(c)
  <2>1. ConsoleDefault(Con) = PutAt(d)
    <3>1. Con.x >= W
      BY <1>2, <1>5, Sizes
    <3>. QED  BY <3>1 DEF ConsoleDefault, PutAt
  <2>2. Good(c) /\ View(c) = Window /\ c.x = 0 /\ c.y = cursor_y
    BY <1>2, CrGood, CrView, CrCursor
  <2> HIDE DEF c
  <2>3. Good(d) /\ d.x = 0
    BY <2>2, LfGood, LfCursor
  <2>4. /\ Seen!Fed(View(d), d.y) /\ View(d) \in {Window, Seen!Scrolled(Window)}
        /\ d.y \in {cursor_y, cursor_y + 1}
    BY <2>2, LfFed
  <2> HIDE DEF d
  <2>5. Seen!Put(View(d), d.y, 0)
    <3>1. d.x < W /\ d.x + 1 = 1
      BY <2>3, Sizes
    <3>2. /\ View(PutAt(d)) = [View(d) EXCEPT ![d.y][d.x] = TRUE]
          /\ PutAt(d).x = d.x + 1 /\ PutAt(d).y = d.y
      BY <2>3, <3>1, PutView
    <3>. QED  BY <1>3, <2>1, <2>3, <3>1, <3>2 DEF Seen!Put
  <2>6. cursor_x = W
    BY <1>2, <1>5, Sizes
  <2>. QED  BY <2>4, <2>5, <2>6 DEF Seen!Character
<1>. QED  BY <1>4, <1>5

LEMMA NextSeen == IInv /\ [Next]_vars => [Seen!Next]_(Seen!tvars)
<1>1. SUFFICES ASSUME IInv, [Next]_vars PROVE [Seen!Next]_(Seen!tvars)
  OBVIOUS
<1>2. CASE UNCHANGED vars \/ WriteCall \/ WriteReturn
  BY <1>2 DEF vars, console, WriteCall, WriteReturn, Seen!tvars, Window
<1>. QED  BY <1>1, <1>2, BsSeen, LfSeen, DefaultSeen DEF Next

(* console_write is a terminal to whoever reads the screen: every          *)
(* character, line feed and backspace of it, through any number of passes  *)
(* over the text memory, is one of Terminal, which may lose a line feed.   *)
THEOREM ConsoleIsTerminal == Spec => ImplementsTerminal
BY SeenInit, NextSeen, Invariance, PTL DEF Spec, ImplementsTerminal, Seen!Spec
=============================================================================
