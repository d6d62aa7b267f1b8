------------------------------- MODULE Monitor -------------------------------
(***************************************************************************)
(* The VGA text console (monitor.c): an 80x25 frame buffer, the cursor     *)
(* position kept by the driver and the one kept by the CRT controller.     *)
(* mon_putchar is one action per class of character it tells apart; each   *)
(* ends, as the C function does, with the wrap at the right margin, the    *)
(* scroll and the update of the hardware cursor.                           *)
(***************************************************************************)
EXTENDS Integers, Sequences

CONSTANTS
  MON_WIDTH,    \* columns (80 in the code)
  MON_HEIGHT,   \* lines (25 in the code)
  TAB,          \* tab stop (8 in the code)
  Glyphs,       \* what a printable character leaves in a cell: c | attr
  BLANK         \* MON_BLANK_CHAR, a space in the default attribute

(***************************************************************************)
(* uint8_t cursors and a uint16_t cell number do not wrap around: 80 + 8   *)
(* fits eight bits and 80 * 25 fits sixteen.                               *)
(***************************************************************************)
ASSUME MonitorAssumption ==
  /\ MON_WIDTH \in Nat \ {0} /\ MON_HEIGHT \in Nat \ {0} /\ TAB \in Nat \ {0}
  /\ MON_WIDTH + TAB < 256 /\ MON_HEIGHT < 255
  /\ MON_WIDTH * MON_HEIGHT < 65536
  /\ BLANK \notin Glyphs

VARIABLES
  video_memory, \* cells of the frame buffer
  cursor_x,     \* column of the next character
  cursor_y,     \* line of the next character
  hw_cursor,    \* cell number last sent to the CRT controller
  scrolled      \* history: the lines that have left the top of the screen

vars == <<video_memory, cursor_x, cursor_y, hw_cursor, scrolled>>

Cells == 0 .. (MON_WIDTH * MON_HEIGHT - 1)

Columns == 0 .. (MON_WIDTH - 1)

\* The cell of the frame buffer at column x of line y.
CellAt(x, y) == MON_WIDTH * y + x

\* Line y of a frame buffer.
Line(vm, y) == [x \in Columns |-> vm[CellAt(x, y)]]

\* A plausible slip, for the mutation of Scroll: the last line is not blanked.
Scroll_KeepLastLine(vm, y) ==
  \/ /\ y >= MON_HEIGHT
     /\ video_memory' = [i \in Cells |->
                           IF i < MON_WIDTH * (MON_HEIGHT - 1)
                           THEN vm[i + MON_WIDTH] ELSE vm[i]]
     /\ cursor_y' = MON_HEIGHT - 1
     /\ scrolled' = Append(scrolled, Line(vm, 0))
  \/ /\ y < MON_HEIGHT
     /\ video_memory' = vm
     /\ cursor_y' = y
     /\ UNCHANGED scrolled

(***************************************************************************)
(* scroll(): when the cursor is below the screen, every line moves up one, *)
(* the last one becomes blank and the cursor goes to it.                   *)
(***************************************************************************)
Scroll(vm, y) ==
  \/ /\ y >= MON_HEIGHT
     /\ video_memory' = [i \in Cells |->
                           IF i < MON_WIDTH * (MON_HEIGHT - 1)
                           THEN vm[i + MON_WIDTH] ELSE BLANK]
     /\ cursor_y' = MON_HEIGHT - 1
     /\ scrolled' = Append(scrolled, Line(vm, 0))
  \/ /\ y < MON_HEIGHT
     /\ video_memory' = vm
     /\ cursor_y' = y
     /\ UNCHANGED scrolled

\* move_cursor(): the two bytes of the cell number go to the CRT controller.
MoveCursor(x, y) == hw_cursor' = CellAt(x, y)

\* For the mutation of Settle: the margin is tested with > instead of >=.
Settle_LateWrap(vm, x, y) ==
  /\ cursor_x' = IF x > MON_WIDTH THEN 0 ELSE x
  /\ Scroll(vm, IF x > MON_WIDTH THEN y + 1 ELSE y)
  /\ MoveCursor(cursor_x', cursor_y')

(***************************************************************************)
(* The tail every mon_putchar runs, from the position and the frame buffer *)
(* its character class has left: wrap, scroll, move the hardware cursor.   *)
(***************************************************************************)
Settle(vm, x, y) ==
  /\ cursor_x' = IF x >= MON_WIDTH THEN 0 ELSE x
  /\ Scroll(vm, IF x >= MON_WIDTH THEN y + 1 ELSE y)
  /\ MoveCursor(cursor_x', cursor_y')

-----------------------------------------------------------------------------
(***************************************************************************)
(* mon_putchar(c), by the class of c.                                      *)
(***************************************************************************)
Backspace ==
  /\ cursor_x > 0
  /\ Settle(video_memory, cursor_x - 1, cursor_y)

\* (cursor_x + 8) & ~(8 - 1): the next multiple of the tab stop.
Tab == Settle(video_memory, ((cursor_x + TAB) \div TAB) * TAB, cursor_y)

CarriageReturn == Settle(video_memory, 0, cursor_y)

NewLine == Settle(video_memory, 0, cursor_y + 1)

Printable(g) ==
  Settle([video_memory EXCEPT ![CellAt(cursor_x, cursor_y)] = g],
         cursor_x + 1, cursor_y)

\* Any other byte: a control character, a byte above 0x7F (char is signed),
\* or a backspace at the left margin, which fails the first test.
Ignored == Settle(video_memory, cursor_x, cursor_y)

\* mon_clear(): blank screen, cursor home.
Clear ==
  /\ video_memory' = [i \in Cells |-> BLANK]
  /\ cursor_x' = 0
  /\ cursor_y' = 0
  /\ MoveCursor(0, 0)
  /\ scrolled' = <<>>

\* The console as kern_main finds it once mon_clear has run.
Init ==
  /\ video_memory = [i \in Cells |-> BLANK]
  /\ cursor_x = 0
  /\ cursor_y = 0
  /\ hw_cursor = 0
  /\ scrolled = <<>>

PutChar ==
  \/ Backspace
  \/ Tab
  \/ CarriageReturn
  \/ NewLine
  \/ \E g \in Glyphs : Printable(g)
  \/ Ignored

Next == PutChar \/ Clear

Spec == Init /\ [][Next]_vars

-----------------------------------------------------------------------------
(***************************************************************************)
(* Properties.                                                             *)
(***************************************************************************)
TypeOK ==
  /\ video_memory \in [Cells -> Glyphs \cup {BLANK}]
  /\ cursor_x \in Nat
  /\ cursor_y \in Nat
  /\ hw_cursor \in Nat
  /\ scrolled \in Seq([Columns -> Glyphs \cup {BLANK}])

\* Between two calls of mon_putchar the cursor is on the screen and the
\* hardware cursor shows it, so the store of line 84 of monitor.c, made before
\* any test of the margins, never leaves the frame buffer.
CursorOnScreen ==
  /\ cursor_x < MON_WIDTH /\ cursor_y < MON_HEIGHT
  /\ CellAt(cursor_x, cursor_y) \in Cells
  /\ hw_cursor = CellAt(cursor_x, cursor_y)

\* The screen is the end of an endless roll of paper: with the lines that have
\* scrolled off the top put back, mon_putchar and mon_clear do what Teletype
\* does.  The shift loop and the blanking of scroll() are what this is about.
Roll == INSTANCE Teletype WITH
  Width  <- MON_WIDTH,
  Stop   <- TAB,
  paper  <- scrolled \o [i \in 1 .. (cursor_y + 1) |-> Line(video_memory, i - 1)],
  column <- cursor_x

ShowsEndOfRoll == Roll!Spec

=============================================================================
