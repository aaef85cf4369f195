------------------------------ MODULE Terminal ------------------------------
(***************************************************************************)
(* What the console shows, without the memory it scrolls through: Height   *)
(* lines of Width characters and a cursor.  Width is also a position: the  *)
(* line is full and the next character will wrap.                          *)
(***************************************************************************)
EXTENDS Integers

CONSTANTS Width, Height,
          Losing      \* whether a line feed on the last line may lose it

VARIABLES lines,      \* lines[y][x]: is there a character to see
          x, y

tvars == <<lines, x, y>>

Blank == [c \in 0 .. Width - 1 |-> FALSE]

Init == lines = [r \in 0 .. Height - 1 |-> Blank] /\ x = 0 /\ y = 0

Scrolled(l) == [r \in 0 .. Height - 1 |-> IF r < Height - 1 THEN l[r + 1] ELSE Blank]

(* The cursor goes to the start of a line: the next one, or the last one   *)
(* after everything moved up.                                              *)
Fed(l, row) ==
  \/ y < Height - 1 /\ row = y + 1 /\ l = lines
  \/ y = Height - 1 /\ row = y /\ l = Scrolled(lines)
  \/ y = Height - 1 /\ row = y /\ l = lines /\ Losing

Newline == x' = 0 /\ Fed(lines', y')

Put(l, row, col) ==
  /\ lines' = [l EXCEPT ![row][col] = TRUE]
  /\ x' = col + 1 /\ y' = row

(* A character goes to the cursor; on a full line, to the next line.       *)
Character ==
  \/ x < Width /\ Put(lines, y, x)
  \/ /\ x = Width
     /\ \E row \in {y, y + 1}, l \in {lines, Scrolled(lines)} :
          Fed(l, row) /\ Put(l, row, 0)

Backspace ==
  /\ x > 0
  /\ x' = x - 1 /\ UNCHANGED y
  /\ lines' = [lines EXCEPT ![y][x - 1] = FALSE]

Next == Newline \/ Character \/ Backspace

Spec == Init /\ [][Next]_tvars
=============================================================================
