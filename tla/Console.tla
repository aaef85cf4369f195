------------------------------- MODULE Console -------------------------------
(***************************************************************************)
(* The text console (l_console.c): a window of SCREEN_CHAR_HEIGHT lines    *)
(* that slides down the 32 KB of VGA text memory and jumps back to their   *)
(* start when it comes near the end.  One step per character of            *)
(* console_write, which runs with interrupts disabled, so that no other    *)
(* caller comes between (ConsoleExclusive in Scheduler).                   *)
(*                                                                         *)
(* Positions count characters from MEM_ADDR_BASE, where the code counts    *)
(* bytes, two a character.  A cell is FALSE for CONSOLE_SPACE and TRUE for *)
(* a character and its attribute.                                          *)
(***************************************************************************)
EXTENDS Integers

CONSTANTS
  SCREEN_CHAR_WIDTH,    \* 80
  SCREEN_CHAR_HEIGHT,   \* 25
  MEM_ADDR_SIZE,        \* cells of VGA memory (0x4000)
  BYTE                  \* values a VGA register holds (2^8)

W == SCREEN_CHAR_WIDTH
H == SCREEN_CHAR_HEIGHT
Cells == 0 .. MEM_ADDR_SIZE - 1

(* SCREEN_SIZE_BYTE_SIZE in cells: it doubles the height and the width, so *)
(* it is two screens.                                                      *)
SCREEN_SIZE == 2 * H * W

ASSUME ConsoleAssumption ==
  /\ W \in Nat \ {0} /\ H \in Nat \ {0} /\ BYTE \in Nat \ {0}
  /\ MEM_ADDR_SIZE \in Nat
  /\ MEM_ADDR_SIZE >= 2 * SCREEN_SIZE + W    \* scroll_up's copy cannot overlap
  /\ MEM_ADDR_SIZE <= BYTE * BYTE

VARIABLES
  vga,                  \* the text memory
  screen_pos,           \* first cell of the window
  cursor_pos,           \* cell the next character goes to
  cursor_x, cursor_y,
  crt_start,            \* the CRT's start address register pair <<high, low>>
  crt_cursor,           \* its cursor register pair
  pc                    \* "idle", or "write" inside console_write

console == <<screen_pos, cursor_pos, cursor_x, cursor_y>>
vars == <<vga, console, crt_start, crt_cursor, pc>>

(* What the CRT makes of a pair, and what update_screen and update_cursor  *)
(* put there.                                                              *)
Shown(pair) == pair[1] * BYTE + pair[2]
Pair(pos) == <<(pos \div BYTE) % BYTE, pos % BYTE>>

TypeOK ==
  /\ vga \in [Cells -> BOOLEAN]
  /\ screen_pos \in Cells /\ cursor_pos \in Cells
  /\ cursor_x \in 0 .. W /\ cursor_y \in 0 .. H - 1
  /\ crt_start \in (0 .. BYTE - 1) \X (0 .. BYTE - 1)
  /\ crt_cursor \in (0 .. BYTE - 1) \X (0 .. BYTE - 1)
  /\ pc \in {"idle", "write"}

(* console_clear, from console_init: the only call, so that cursor_x and   *)
(* cursor_y, which it leaves alone, are still zero.                        *)
Init ==
  /\ screen_pos = 0 /\ cursor_pos = 0 /\ cursor_x = 0 /\ cursor_y = 0
  /\ crt_start = Pair(0) /\ crt_cursor = Pair(0)
  /\ vga = [c \in Cells |-> FALSE]
  /\ pc = "idle"

-----------------------------------------------------------------------------
(* The helpers work on a record of the console's fields and the memory:    *)
(* console_write calls up to two of them for a character.                  *)
Con == [vga |-> vga, screen |-> screen_pos, cursor |-> cursor_pos,
        x |-> cursor_x, y |-> cursor_y]

(* Mutant: scroll_up does not clear. *)
ScrollUpUncleared(c) ==
  IF c.screen + SCREEN_SIZE + W < MEM_ADDR_SIZE
  THEN [c EXCEPT !.screen = @ + W, !.cursor = @ + W]
  ELSE [c EXCEPT !.vga = [a \in Cells |->
                            IF a < SCREEN_SIZE THEN c.vga[c.screen + a] ELSE c.vga[a]],
                 !.cursor = @ - c.screen, !.screen = 0]

(* scroll_up: clear the line two screens on and slide by one line, or      *)
(* copy two screens to the start of the memory and stay on the line.       *)
ScrollUp(c) ==
  IF c.screen + SCREEN_SIZE + W < MEM_ADDR_SIZE
  THEN [c EXCEPT !.vga = [a \in Cells |->
                            IF a - c.screen \in SCREEN_SIZE .. SCREEN_SIZE + W - 1
                            THEN FALSE ELSE c.vga[a]],
                 !.screen = @ + W, !.cursor = @ + W]
  ELSE [c EXCEPT !.vga = [a \in Cells |->
                            IF a < SCREEN_SIZE THEN c.vga[c.screen + a] ELSE c.vga[a]],
                 !.cursor = @ - c.screen, !.screen = 0]

(* Mutant: backspace does not wipe. *)
ConsoleBsKeeps(c) ==
  IF c.x > 0 THEN [c EXCEPT !.cursor = @ - 1, !.x = @ - 1] ELSE c

ConsoleBs(c) ==
  IF c.x > 0
  THEN [c EXCEPT !.cursor = @ - 1, !.x = @ - 1, !.vga[c.cursor - 1] = FALSE]
  ELSE c

ConsoleLf(c) ==
  IF c.y < H - 1 THEN [c EXCEPT !.cursor = @ + W, !.y = @ + 1] ELSE ScrollUp(c)

ConsoleCr(c) == [c EXCEPT !.cursor = @ - c.x, !.x = 0]

ConsoleDefault(c) ==
  LET d == IF c.x >= W THEN ConsoleLf(ConsoleCr(c)) ELSE c
  IN  [d EXCEPT !.vga[d.cursor] = TRUE, !.cursor = @ + 1, !.x = @ + 1]

(* Every helper but a character that fits its line ends in update_cursor;  *)
(* scroll_up also in update_screen.                                        *)
Becomes(c) ==
  /\ vga' = c.vga /\ screen_pos' = c.screen /\ cursor_pos' = c.cursor
  /\ cursor_x' = c.x /\ cursor_y' = c.y

-----------------------------------------------------------------------------
(* console_write: it is called, takes its characters one by one (ASCII_NUL *)
(* and ASCII_DEL do nothing), and shows the cursor when it ends.           *)
WriteCall ==
  /\ pc = "idle" /\ pc' = "write"
  /\ UNCHANGED <<vga, console, crt_start, crt_cursor>>

WriteBs ==
  /\ pc = "write"
  /\ Becomes(ConsoleBs(Con))
  /\ crt_cursor' = IF cursor_x > 0 THEN Pair(cursor_pos') ELSE crt_cursor
  /\ UNCHANGED <<crt_start, pc>>

(* Mutant: scroll_up without update_screen. *)
WriteLfNoUpdate ==
  /\ pc = "write"
  /\ Becomes(ConsoleCr(ConsoleLf(Con)))
  /\ crt_cursor' = Pair(cursor_pos')
  /\ UNCHANGED <<crt_start, pc>>

WriteLf ==
  /\ pc = "write"
  /\ Becomes(ConsoleCr(ConsoleLf(Con)))
  /\ crt_cursor' = Pair(cursor_pos')
  /\ crt_start' = IF cursor_y < H - 1 THEN crt_start ELSE Pair(screen_pos')
  /\ UNCHANGED pc

WriteDefault ==
  /\ pc = "write"
  /\ Becomes(ConsoleDefault(Con))
  /\ IF cursor_x < W
     THEN UNCHANGED <<crt_cursor, crt_start>>
     ELSE /\ crt_cursor' = Pair(cursor_pos' - 1)
          /\ crt_start' = IF cursor_y < H - 1 THEN crt_start ELSE Pair(screen_pos')
  /\ UNCHANGED pc

WriteReturn ==
  /\ pc = "write" /\ pc' = "idle"
  /\ crt_cursor' = Pair(cursor_pos)
  /\ UNCHANGED <<vga, console, crt_start>>

Next == WriteCall \/ WriteBs \/ WriteLf \/ WriteDefault \/ WriteReturn

Spec == Init /\ [][Next]_vars

(* The threads print for ever, and console_write does not stop between     *)
(* two characters.                                                         *)
FairSpec == Spec /\ WF_vars(Next)

-----------------------------------------------------------------------------
(* The three ways the code keeps the cursor agree - absolute, relative to  *)
(* the window, and in x and y - although the helpers update them           *)
(* separately; the window stays in the text memory; and the CRT shows the  *)
(* window, and between calls the cursor, that the kernel thinks it shows,  *)
(* whatever path the characters took.                                      *)
CursorConsistent ==
  /\ TypeOK
  /\ cursor_pos = screen_pos + W * cursor_y + cursor_x
  /\ screen_pos % W = 0 /\ screen_pos + SCREEN_SIZE <= MEM_ADDR_SIZE
  /\ Shown(crt_start) = screen_pos
  /\ pc = "idle" => Shown(crt_cursor) = cursor_pos

(* Nothing from an earlier pass over the memory is below the cursor's      *)
(* line when the window slides there: the line that scroll_up clears is    *)
(* not the one it exposes but one 2 * H lines away.                        *)
BlankBelow ==
  \A a \in screen_pos + W * (cursor_y + 1) .. screen_pos + SCREEN_SIZE - 1 : ~vga[a]

(* The window onto the memory behaves as a terminal, except that a line    *)
(* feed may stay on the last line (l_console.c:162).                       *)
Window == [r \in 0 .. H - 1 |-> [c \in 0 .. W - 1 |-> vga[screen_pos + r * W + c]]]

Seen == INSTANCE Terminal WITH Width <- W, Height <- H, Losing <- TRUE,
                               lines <- Window, x <- cursor_x, y <- cursor_y

ImplementsTerminal == Seen!Spec

(* "Together with cr a complete line feed" (l_console.c:191): no line feed *)
(* loses a line.                                                           *)
Exact == INSTANCE Terminal WITH Width <- W, Height <- H, Losing <- FALSE,
                                lines <- Window, x <- cursor_x, y <- cursor_y

CompleteLineFeed == Exact!Spec
=============================================================================
