------------------------------- MODULE Console -------------------------------
(***************************************************************************)
(* The console of Linux 0.01 (console.c): con_write's interpreter of       *)
(* characters and escape sequences, on video memory that is scrolled by    *)
(* moving the origin of the screen.                                        *)
(*                                                                         *)
(* Addresses count cells (a character and its attribute) from              *)
(* SCREEN_START; a row is COLUMNS cells.  The variables of console.c are   *)
(* the fields of k, and k.start and k.cursor what set_origin and           *)
(* set_cursor told the video controller last.                              *)
(***************************************************************************)
EXTENDS Integers

CONSTANTS
  COLUMNS, LINES,
  SCREEN_END,   \* cells of video memory
  TAB,          \* distance of tabulator stops
  NPAR,         \* parameters of an escape sequence
  Save7, Back8, \* the columns that '7' and '8' are as numbers
  MaxPar        \* bound: parameters stay below it

ASSUME ConsoleAssumption ==
  /\ COLUMNS \in Nat \ {0} /\ LINES \in Nat \ {0, 1}
  /\ SCREEN_END \in Nat /\ SCREEN_END >= LINES * COLUMNS
  /\ TAB \in Nat \ {0} /\ COLUMNS % TAB = 0 /\ NPAR \in Nat /\ NPAR >= 2

VARIABLE k

Blank == <<" ", 7>>
Screen == LINES * COLUMNS
Cells == 0 .. SCREEN_END - 1
ROW(n) == n * COLUMNS

-----------------------------------------------------------------------------
\* n cells from s on get what cells has there; wild records a store outside of the
\* memory.
Store(d, s, n, cells) ==
  [d EXCEPT !.vram = [i \in Cells |-> IF i \in s .. s + n - 1 THEN cells[i] ELSE d.vram[i]],
            !.wild = d.wild \/ s < 0 \/ s + n > SCREEN_END]

Erase(d, s, n) == Store(d, s, n, [i \in s .. s + n - 1 |-> Blank])
Move(d, to, from, n) == Store(d, to, n, [i \in to .. to + n - 1 |-> d.vram[from + i - to]])

\* gotoxy; its arguments are unsigned, so that a negative one is too large.
Goto(d, x, y) ==
  IF x \in 0 .. COLUMNS - 1 /\ y \in 0 .. LINES - 1
  THEN [d EXCEPT !.x = x, !.y = y, !.pos = d.origin + y * COLUMNS + x] ELSE d

\* The screen has reached the end of the memory and starts at its begin again.
Rewound(d) == [d EXCEPT !.scr_end = @ - d.origin, !.pos = @ - d.origin, !.origin = 0]

\* The cells that stay on the screen when it scrolls.
Kept == ROW(LINES - 1)

\* For the mutation of MustRewind: one row late.
MustRewind_Late(d) == d.scr_end > SCREEN_END + COLUMNS

MustRewind(d) == d.scr_end > SCREEN_END

\* set_origin.
SetOrigin(d) == [d EXCEPT !.start = d.origin]

\* scrup of rows t to b - 1.  The whole screen moves by its origin.
Scrup(d, t, b) ==
  IF t = 0 /\ b = LINES
  THEN LET n == [d EXCEPT !.origin = @ + COLUMNS, !.pos = @ + COLUMNS, !.scr_end = @ + COLUMNS]
       IN  SetOrigin(IF MustRewind(n)
                     THEN Rewound(Erase(Move(n, 0, n.origin, Kept), Kept, COLUMNS))
                     ELSE Erase(n, n.scr_end - COLUMNS, COLUMNS))
  ELSE Erase(Move(d, d.origin + ROW(t), d.origin + ROW(t + 1), ROW(b - t - 1)),
             d.origin + ROW(b - 1), COLUMNS)

\* For the mutation of Scrdown: the last row of the region is cleared.
Scrdown_LastCleared(d, t, b) ==
  Erase(Move(d, d.origin + ROW(t + 1), d.origin + ROW(t), ROW(b - t - 1)), d.origin + ROW(b - 1), COLUMNS)

Scrdown(d, t, b) ==
  Erase(Move(d, d.origin + ROW(t + 1), d.origin + ROW(t), ROW(b - t - 1)), d.origin + ROW(t), COLUMNS)

Lf(d) ==
  IF d.y + 1 < d.bottom THEN [d EXCEPT !.y = @ + 1, !.pos = @ + COLUMNS]
  ELSE Scrup(d, d.top, d.bottom)

Ri(d) ==
  IF d.y > d.top THEN [d EXCEPT !.y = @ - 1, !.pos = @ - COLUMNS]
  ELSE Scrdown(d, d.top, d.bottom)

Cr(d) == [d EXCEPT !.pos = @ - d.x, !.x = 0]
Bs(d) == IF d.x > 0 THEN [d EXCEPT !.pos = @ - 1, !.x = @ - 1] ELSE d
Del(d) == IF d.x > 0 THEN Erase(Bs(d), d.pos - 1, 1) ELSE d

\* The wrap of con_write: back to the column counted from the row's start, down a row.
Wrap(d) == Lf([d EXCEPT !.x = @ - COLUMNS, !.pos = @ - COLUMNS])

Wraps(d) == d.x >= COLUMNS

Put(d, c) ==
  LET w == IF Wraps(d) THEN Wrap(d) ELSE d
      s == Store(w, w.pos, 1, [i \in {w.pos} |-> <<c, d.attr>>])
  IN  [s EXCEPT !.pos = @ + 1, !.x = @ + 1]

Tab(d) ==
  LET c == TAB - (d.x % TAB)
      t == [d EXCEPT !.x = @ + c, !.pos = @ + c]
  IN  IF t.x > COLUMNS THEN Wrap(t) ELSE t

-----------------------------------------------------------------------------
CsiJ(d, n) ==
  CASE n = 0 -> Erase(d, d.pos, d.scr_end - d.pos)
    [] n = 1 -> Erase(d, d.origin, d.pos - d.origin)
    [] n = 2 -> Erase(d, d.origin, Screen)
    [] OTHER -> d

CsiK(d, n) ==
  CASE n = 0 /\ d.x < COLUMNS -> Erase(d, d.pos, COLUMNS - d.x)
    [] n = 1 -> Erase(d, d.pos - d.x, d.x)
    [] n = 2 -> Erase(d, d.pos - d.x, COLUMNS)
    [] OTHER -> d

\* csi_m: the last parameter that means something stays.
Attribute ==
  [p \in {0, 1, 4, 7, 27} |-> CASE p \in {0, 27} -> 7 [] p \in {1, 4} -> 15 [] OTHER -> 112]
CsiM(d) ==
  LET set == {i \in 0 .. d.npar : d.par[i] \in DOMAIN Attribute}
  IN  IF set = {} THEN d
      ELSE [d EXCEPT !.attr = Attribute[d.par[CHOOSE i \in set : \A j \in set : j <= i]]]

\* insert_char and delete_char, of the rest of the row.
InsertChar(d) ==
  IF d.x >= COLUMNS THEN d
  ELSE Erase(Move(d, d.pos + 1, d.pos, COLUMNS - d.x - 1), d.pos, 1)
DeleteChar(d) ==
  IF d.x >= COLUMNS THEN d
  ELSE Erase(Move(d, d.pos, d.pos + 1, COLUMNS - d.x - 1), d.pos + COLUMNS - d.x - 1, 1)
InsertLine(d) == Scrdown(d, d.y, LINES)
DeleteLine(d) == Scrup(d, d.y, LINES)

Once(c, d) ==
  CASE c = "L" -> InsertLine(d)
    [] c = "M" -> DeleteLine(d)
    [] c = "P" -> DeleteChar(d)
    [] c = "@" -> InsertChar(d)

\* csi_at, csi_L, csi_P, csi_M: the loops, 0 meaning once and too many meaning most.
Times(c, d, n, most) ==
  LET m == IF n > most THEN most ELSE IF n = 0 THEN 1 ELSE n
      after[i \in 0 .. m] == IF i = 0 THEN d ELSE Once(c, after[i - 1])
  IN  after[m]

SaveCur(d) == [d EXCEPT !.saved = <<d.x, d.y>>]
RestoreCur(d) ==
  [d EXCEPT !.x = d.saved[1], !.y = d.saved[2], !.pos = d.origin + d.saved[2] * COLUMNS + d.saved[1]]

Region(d, t, b) == IF t < b /\ b <= LINES THEN [d EXCEPT !.top = t, !.bottom = b] ELSE d

\* The character that ends a sequence, with p and q the first parameters.
Final(d, c) ==
  LET p == d.par[0]
      q == d.par[1]
      one(n) == IF n = 0 THEN 1 ELSE n
      less(n) == IF n > 0 THEN n - 1 ELSE 0
  IN  CASE c = "G" -> Goto(d, less(p), d.y)
        [] c = "A" -> Goto(d, d.x, d.y - one(p))
        [] c = "B" -> Goto(d, d.x, d.y + one(p))
        [] c = "C" -> Goto(d, d.x + one(p), d.y)
        [] c = "D" -> Goto(d, d.x - one(p), d.y)
        [] c = "E" -> Goto(d, 0, d.y + one(p))
        [] c = "F" -> Goto(d, 0, d.y - one(p))
        [] c = "d" -> Goto(d, d.x, less(p))
        [] c = "H" -> Goto(d, less(q), less(p))
        [] c = "J" -> CsiJ(d, p)
        [] c = "K" -> CsiK(d, p)
        [] c \in {"L", "M"} -> Times(c, d, p, LINES)
        [] c \in {"P", "@"} -> Times(c, d, p, COLUMNS)
        [] c = "m" -> CsiM(d)
        [] c = "r" -> Region(d, less(p), IF q = 0 THEN LINES ELSE q)
        [] c = "s" -> SaveCur(d)
        [] c = "u" -> RestoreCur(d)
        [] OTHER -> d

Finals == {"G", "A", "B", "C", "D", "E", "F", "d", "H", "J", "K", "L", "M", "P", "@", "m", "r", "s", "u"}
Digits == {"0", "1", "2", "7"}
Value == [c \in Digits |-> CASE c = "0" -> 0 [] c = "1" -> 1 [] c = "2" -> 2 [] OTHER -> 7]

\* States 3 and 4: parameters, then the final character.
Parameter(d, c) ==
  CASE c = ";" /\ d.npar < NPAR - 1 -> [d EXCEPT !.npar = @ + 1]
    [] c \in Digits -> [d EXCEPT !.par[d.npar] = 10 * @ + Value[c]]
    [] OTHER -> [Final(d, c) EXCEPT !.state = 0]

\* State 2: the first character after "ESC [".
FirstParameter(d, c) ==
  LET n == [d EXCEPT !.par = [i \in 0 .. NPAR - 1 |-> 0], !.npar = 0, !.state = 3, !.ques = c = "?"]
  IN  IF c = "?" THEN n ELSE Parameter(n, c)

(***************************************************************************)
(* State 1: the character after ESC.  Where a terminal would look for '7'  *)
(* and '8', the code looks at the column.  The answer to "Z" goes to the   *)
(* terminal's input and leaves the screen alone.                           *)
(***************************************************************************)
Escape(d, c) ==
  LET n == [d EXCEPT !.state = 0]
  IN  CASE c = "[" -> [d EXCEPT !.state = 2]
        [] c = "E" -> Goto(n, 0, d.y + 1)
        [] c = "M" -> Ri(n)
        [] c = "D" -> Lf(n)
        [] c = "Z" -> n
        [] c \notin {"[", "E", "M", "D", "Z"} /\ d.x = Save7 -> SaveCur(n)
        [] c \notin {"[", "E", "M", "D", "Z"} /\ d.x = Back8 -> RestoreCur(n)
        [] OTHER -> n

Plain(d, c) ==
  CASE c = "ESC" -> [d EXCEPT !.state = 1]
    [] c = "LF" -> Lf(d)
    [] c = "CR" -> Cr(d)
    [] c = "ERASE" -> Del(d)
    [] c = "BS" -> Bs(d)
    [] c = "TAB" -> Tab(d)
    [] OTHER -> Put(d, c)

Controls == {"ESC", "LF", "CR", "ERASE", "BS", "TAB"}

\* set_cursor.
SetCursor(d) == [d EXCEPT !.cursor = d.pos]

\* con_write of one character, with the set_cursor that ends the call.
Written(d, c) ==
  SetCursor(CASE d.state = 0 -> Plain(d, c)
              [] d.state = 1 -> Escape(d, c)
              [] d.state = 2 -> FirstParameter(d, c)
              [] OTHER -> Parameter(d, c))

\* The characters that mean something in the current state, and one that does not.
Alphabet ==
  CASE k.state = 0 -> Controls \cup {"a"}
    [] k.state = 1 -> {"[", "E", "M", "D", "Z", "a"}
    [] OTHER -> Finals \cup Digits \cup {";", "a"} \cup (IF k.state = 2 THEN {"?"} ELSE {})

ConWrite(c) ==
  /\ c \in Digits /\ k.state = 3 => 10 * k.par[k.npar] < MaxPar
  /\ k' = Written(k, c)

\* The loader leaves a screen and a cursor, which con_init takes over.
KInit(screen, x, y) ==
  k = [origin |-> 0, scr_end |-> Screen, pos |-> y * COLUMNS + x, x |-> x, y |-> y,
       top |-> 0, bottom |-> LINES, state |-> 0, npar |-> 0, par |-> [i \in 0 .. NPAR - 1 |-> 0],
       ques |-> FALSE, attr |-> 7, saved |-> <<0, 0>>,
       vram |-> screen, wild |-> FALSE, start |-> 0, cursor |-> y * COLUMNS + x]

KNext == \E c \in Alphabet : ConWrite(c)

\* gotoxy in con_init accepts a cursor that is on the screen.
KSpec ==
  /\ \E screen : \E x \in 0 .. COLUMNS - 1, y \in 0 .. LINES - 1 : KInit(screen, x, y)
  /\ [][KNext]_k

-----------------------------------------------------------------------------
\* The cursor, the scroll region and the parser of escape sequences keep to their
\* ranges; x reaches COLUMNS, as con_write wraps only at the next character.
KTypeOK ==
  /\ k.x \in 0 .. COLUMNS /\ k.y \in 0 .. LINES - 1
  /\ 0 <= k.top /\ k.top < k.bottom /\ k.bottom <= LINES
  /\ k.state \in 0 .. 3 /\ k.npar \in 0 .. NPAR - 1 /\ k.attr \in {7, 15, 112}

\* Every escape sequence keeps the two ways in which console.c knows the cursor,
\* as x and y and as an address, in agreement, and shows it there.
CursorIsPosition ==
  /\ k.pos = k.origin + k.y * COLUMNS + k.x
  /\ k.cursor - k.start = k.y * COLUMNS + k.x

\* scrup: the screen stays in video memory, and no sequence writes beside it.
ScreenInMemory ==
  /\ k.start = k.origin /\ k.scr_end = k.origin + Screen
  /\ k.origin >= 0 /\ k.scr_end <= SCREEN_END /\ ~k.wild

\* The row r of the screen that d shows.
RowOf(d, r) == [c \in 0 .. COLUMNS - 1 |-> d.vram[d.origin + r * COLUMNS + c]]
BlankRow == [c \in 0 .. COLUMNS - 1 |-> Blank]

\* scrup: moving the origin, also back to the start of video memory, is seen as the
\* rows going up and empty ones coming in below (one may get a character).
OriginMoveIsScroll ==
  [][k'.origin # k.origin =>
       \E n \in 1 .. LINES : \A r \in 0 .. LINES - 1 :
         IF r + n < LINES THEN RowOf(k', r) = RowOf(k, r + n)
         ELSE RowOf(k', r) = BlankRow \/ (r = k'.y /\ k'.x = 1)]_k

\* lf, ri and the scroll region: a line feed or a reverse index leaves the rows
\* outside of the region alone and shifts the rows inside by one, or not at all.
FeedStaysInRegion ==
  [][k.state = 1 /\ k'.state = 0 /\ k'.saved = k.saved /\ k'.vram # k.vram =>
       \A r \in 0 .. LINES - 1 :
         IF r < k.top \/ r >= k.bottom THEN RowOf(k', r) = RowOf(k, r)
         ELSE RowOf(k', r) \in {BlankRow} \cup {RowOf(k, s) : s \in {r - 1, r + 1} \cap k.top .. k.bottom - 1}]_k

\* con_write, for any characters: the cursor is where it is shown and the screen it
\* is on is inside video memory.
ScreenSound == KTypeOK /\ CursorIsPosition /\ ScreenInMemory

\* scrup and scrdown: however they do it, rows move by whole rows and only where
\* they should.
ScrollingShifts == OriginMoveIsScroll /\ FeedStaysInRegion

=============================================================================
