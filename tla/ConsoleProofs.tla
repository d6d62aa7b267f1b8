---------------------------- MODULE ConsoleProofs ----------------------------
(***************************************************************************)
(* Proofs about con_write, for every size of the screen and of video       *)
(* memory and for any characters.                                          *)
(*                                                                         *)
(* First, the display stays sound: the screen is a window of video memory, *)
(* the cursor is on it where x and y say, and nothing is stored outside.   *)
(* The invariant is Sound; one lemma per operation of console.c shows that *)
(* the operation keeps it, and the loops of the csi functions are followed *)
(* round by round.                                                         *)
(*                                                                         *)
(* Then, whatever way scrup and scrdown choose, rows move by whole rows.   *)
(* This is about the cells of video memory, and uses the first part for    *)
(* the addresses of the rows.                                              *)
(***************************************************************************)
EXTENDS Console, WellFoundedInduction, TLAPS

\* Any nonempty set of naturals has a least element.
LEMMA LeastNatural ==
  ASSUME NEW S, S \subseteq Nat, S # {}
  PROVE  \E n \in S : \A m \in S : n <= m
<1>1. PICK n \in S : \A m \in S : <<m, n>> \notin OpToRel(<, Nat)
  BY NatLessThanWellFounded, WFMin, Zenon
<1>2. OpToRel(<, Nat) = {ss \in Nat \X Nat : ss[1] < ss[2]}
  BY DEF OpToRel
<1>3. \A m \in S : ~(m < n)
  BY <1>1, <1>2, Zenon
<1>4. QED
  BY <1>3

Fields ==
  {"origin", "scr_end", "pos", "x", "y", "top", "bottom", "state", "npar", "par", "ques", "attr",
   "saved", "vram", "wild", "start", "cursor"}

\* The screen is a window of video memory.
Window(d) ==
  /\ d.origin \in Nat /\ d.scr_end = d.origin + Screen /\ d.scr_end <= SCREEN_END
  /\ d.start = d.origin /\ d.wild = FALSE
  /\ d.top \in 0 .. LINES - 1 /\ d.bottom \in 1 .. LINES /\ d.top < d.bottom

\* The cursor is on it, where x and y say.
Placed(d) ==
  /\ d.x \in 0 .. COLUMNS /\ d.y \in 0 .. LINES - 1
  /\ d.pos = d.origin + ROW(d.y) + d.x

\* The parser of escape sequences, and the cursor that save_cur keeps.
Parsing(d) ==
  /\ d.state \in 0 .. 3 /\ d.npar \in 0 .. NPAR - 1 /\ d.par \in [0 .. NPAR - 1 -> Nat]
  /\ d.attr \in {7, 15, 112}
  /\ d.saved[1] \in 0 .. COLUMNS /\ d.saved[2] \in 0 .. LINES - 1

Sound(d) == DOMAIN d = Fields /\ Window(d) /\ Placed(d) /\ Parsing(d)

\* The rows of the screen lie one behind the other.
LEMMA Rows ==
  ASSUME NEW n \in 0 .. LINES - 1
  PROVE  /\ ROW(n) \in Nat /\ ROW(n + 1) = ROW(n) + COLUMNS /\ ROW(n) + COLUMNS <= Screen
         /\ Screen \in Nat /\ Screen = ROW(LINES) /\ ROW(0) = 0
<1>1. COLUMNS \in Nat /\ LINES \in Nat /\ n \in Nat /\ LINES - 1 - n \in Nat
  BY ConsoleAssumption
<1>2. (LINES - 1 - n) * COLUMNS \in Nat /\ n * COLUMNS \in Nat
  BY <1>1
<1>3. LINES * COLUMNS = (LINES - 1 - n) * COLUMNS + n * COLUMNS + COLUMNS
  BY <1>1
<1>4. (n + 1) * COLUMNS = n * COLUMNS + COLUMNS /\ 0 * COLUMNS = 0
  BY <1>1
<1>5. QED
  BY <1>1, <1>2, <1>3, <1>4 DEF ROW, Screen

\* A store changes video memory alone.
Same(e, d) ==
  DOMAIN e = Fields /\ e.wild = FALSE /\ \A f \in Fields \ {"vram", "wild"} : e[f] = d[f]

\* A store inside video memory touches nothing else and is not wild.
LEMMA StoredIsSame ==
  ASSUME NEW d, DOMAIN d = Fields, d.wild = FALSE, NEW s \in Nat, NEW n \in Int, s + n <= SCREEN_END,
         NEW cells
  PROVE  Same(Store(d, s, n, cells), d)
<1>1. (d.wild \/ s < 0 \/ s + n > SCREEN_END) = FALSE
  BY ConsoleAssumption
<1>2. QED
  BY <1>1, Zenon DEF Store, Fields, Same

\* After such a store the display is as sound as before.
LEMMA SameIsSound ==
  ASSUME NEW d, NEW e, Sound(d), Same(e, d)
  PROVE  Sound(e) /\ e.x = d.x /\ e.y = d.y
<1>1. /\ e.origin = d.origin /\ e.scr_end = d.scr_end /\ e.pos = d.pos /\ e.x = d.x /\ e.y = d.y
      /\ e.top = d.top /\ e.bottom = d.bottom /\ e.state = d.state /\ e.npar = d.npar
      /\ e.par = d.par /\ e.attr = d.attr /\ e.saved = d.saved /\ e.start = d.start
      /\ DOMAIN e = Fields /\ e.wild = FALSE
  BY Zenon DEF Same, Fields
<1>2. QED
  BY <1>1, Zenon DEF Sound, Window, Placed, Parsing

\* Erase and Move are stores.
LEMMA ErasedIsSame ==
  ASSUME NEW d, DOMAIN d = Fields, d.wild = FALSE, NEW s \in Nat, NEW n \in Int, s + n <= SCREEN_END
  PROVE  Same(Erase(d, s, n), d)
BY StoredIsSame, Zenon DEF Erase

LEMMA MovedIsSame ==
  ASSUME NEW d, DOMAIN d = Fields, d.wild = FALSE, NEW s \in Nat, NEW n \in Int, s + n <= SCREEN_END,
         NEW from
  PROVE  Same(Move(d, s, from, n), d)
BY StoredIsSame, Zenon DEF Move

\* Two stores, one after the other.
LEMMA SameAsSame ==
  ASSUME NEW c, NEW d, NEW e, Same(e, d), Same(d, c)
  PROVE  Same(e, c)
BY Zenon DEF Same

\* A move that is followed by an erasure, inside video memory.
LEMMA MovedAndErased ==
  ASSUME NEW d, DOMAIN d = Fields, d.wild = FALSE, NEW to \in Nat, NEW from, NEW n \in Int,
         to + n <= SCREEN_END, NEW s \in Nat, NEW l \in Int, s + l <= SCREEN_END
  PROVE  Same(Erase(Move(d, to, from, n), s, l), d)
<1>1. Same(Move(d, to, from, n), d)
  BY MovedIsSame, Zenon
<1>2. Same(Erase(Move(d, to, from, n), s, l), Move(d, to, from, n))
  BY <1>1, ErasedIsSame, Zenon DEF Same
<1>3. QED
  BY <1>1, <1>2, SameAsSame, Zenon

\* scrup and scrdown of part of the screen.
LEMMA RegionMoves ==
  ASSUME NEW d, Sound(d), NEW t \in 0 .. LINES - 1, NEW b \in 1 .. LINES, t < b
  PROVE  /\ Same(Erase(Move(d, d.origin + ROW(t), d.origin + ROW(t + 1), ROW(b - t - 1)),
                       d.origin + ROW(b - 1), COLUMNS), d)
         /\ Same(Scrdown(d, t, b), d)
<1>1. /\ d.origin \in Nat /\ d.origin + Screen <= SCREEN_END /\ DOMAIN d = Fields /\ d.wild = FALSE
  BY DEF Sound, Window
<1>2. b - 1 \in 0 .. LINES - 1 /\ b - t - 1 \in 0 .. LINES - 1 /\ COLUMNS \in Nat /\ LINES \in Nat
      /\ t + 1 \in Nat /\ b - t \in 1 .. LINES
  BY ConsoleAssumption
<1>3. /\ ROW(t) \in Nat /\ ROW(t + 1) = ROW(t) + COLUMNS /\ ROW(t) + COLUMNS <= Screen
      /\ ROW(b - 1) \in Nat /\ ROW(b - 1) + COLUMNS <= Screen
      /\ ROW(b - t - 1) \in Nat /\ Screen \in Nat
  BY <1>2, Rows
<1>4. ROW(t) + ROW(b - t - 1) = ROW(b - 1)
  BY <1>2 DEF ROW
<1> DEFINE A == d.origin + ROW(t)
           B == d.origin + ROW(t + 1)
           N == ROW(b - t - 1)
           E == d.origin + ROW(b - 1)
<1>5. A \in Nat /\ B \in Nat /\ N \in Int /\ E \in Nat /\ COLUMNS \in Int
      /\ A + N <= SCREEN_END /\ B + N <= SCREEN_END /\ E + COLUMNS <= SCREEN_END /\ A + COLUMNS <= SCREEN_END
  BY <1>1, <1>2, <1>3, <1>4, ConsoleAssumption
<1> HIDE DEF A, B, N, E
<1>6. Same(Erase(Move(d, A, B, N), E, COLUMNS), d) /\ Same(Erase(Move(d, B, A, N), A, COLUMNS), d)
  BY <1>1, <1>5, MovedAndErased, Zenon
<1>7. QED
  BY <1>6, Zenon DEF Scrdown, A, B, N, E

\* scrup of the whole screen moves its origin, or takes it back to the start.
LEMMA ScreenMoves ==
  ASSUME NEW d, Sound(d)
  PROVE  LET e == Scrup(d, 0, LINES) IN Sound(e) /\ e.x = d.x /\ e.y = d.y
<1> DEFINE n == [d EXCEPT !.origin = @ + COLUMNS, !.pos = @ + COLUMNS, !.scr_end = @ + COLUMNS]
<1>1. /\ DOMAIN d = Fields /\ Window(d) /\ Placed(d) /\ Parsing(d)
      /\ COLUMNS \in Nat /\ LINES \in Nat /\ SCREEN_END \in Nat /\ LINES - 1 \in 0 .. LINES - 1
  BY ConsoleAssumption DEF Sound
<1>2. /\ n.origin = d.origin + COLUMNS /\ n.pos = d.pos + COLUMNS /\ n.scr_end = d.scr_end + COLUMNS
      /\ n.wild = FALSE /\ DOMAIN n = Fields
      /\ \A f \in Fields \ {"origin", "pos", "scr_end"} : n[f] = d[f]
  BY <1>1, Zenon DEF Fields, Window
<1>3. /\ Screen \in Nat /\ Kept \in Nat /\ Kept + COLUMNS <= Screen /\ Screen <= SCREEN_END
      /\ ROW(d.y) \in Nat
  BY <1>1, Rows DEF Kept, Window, Placed
<1> HIDE DEF n
<1>4. Scrup(d, 0, LINES) = SetOrigin(IF MustRewind(n)
                                     THEN Rewound(Erase(Move(n, 0, n.origin, Kept), Kept, COLUMNS))
                                     ELSE Erase(n, n.scr_end - COLUMNS, COLUMNS))
  BY DEF Scrup, n
<1>5. CASE MustRewind(n)
  <2> DEFINE m == Erase(Move(n, 0, n.origin, Kept), Kept, COLUMNS)
             e == SetOrigin(Rewound(m))
  <2>1. Same(m, n)
    <3>1. 0 + Kept <= SCREEN_END /\ Kept + COLUMNS <= SCREEN_END /\ 0 \in Nat /\ Kept \in Nat
          /\ Kept \in Int /\ COLUMNS \in Int
      BY <1>1, <1>3
    <3>2. QED
      BY <1>2, <3>1, MovedAndErased, Zenon
  <2>2. /\ m.origin = d.origin + COLUMNS /\ m.pos = d.pos + COLUMNS /\ m.scr_end = d.scr_end + COLUMNS
        /\ m.wild = FALSE /\ DOMAIN m = Fields
        /\ \A f \in Fields \ {"origin", "pos", "scr_end", "vram", "wild"} : m[f] = d[f]
    BY <1>2, <2>1, Zenon DEF Same, Fields
  <2> HIDE DEF m
  <2>3. /\ e.scr_end = m.scr_end - m.origin /\ e.pos = m.pos - m.origin /\ e.origin = 0 /\ e.start = 0
        /\ e.wild = FALSE /\ DOMAIN e = Fields
        /\ \A f \in Fields \ {"origin", "pos", "scr_end", "vram", "wild", "start"} : e[f] = m[f]
    BY <2>2, Zenon DEF SetOrigin, Rewound, Fields
  <2> HIDE DEF e
  <2>4. /\ e.x = d.x /\ e.y = d.y /\ e.top = d.top /\ e.bottom = d.bottom /\ e.state = d.state
        /\ e.npar = d.npar /\ e.par = d.par /\ e.attr = d.attr /\ e.saved = d.saved
    BY <2>2, <2>3, Zenon DEF Fields
  <2>5. e.scr_end = Screen /\ e.pos = ROW(d.y) + d.x
    BY <1>1, <1>3, <2>2, <2>3 DEF Window, Placed
  <2>6. Window(e) /\ Placed(e) /\ Parsing(e)
    <3>1. Window(e)
      BY <1>1, <1>3, <2>3, <2>4, <2>5 DEF Window
    <3>2. Placed(e)
      BY <1>1, <1>3, <2>3, <2>4, <2>5 DEF Placed
    <3>3. Parsing(e)
      BY <1>1, <2>4, Zenon DEF Parsing
    <3>4. QED
      BY <3>1, <3>2, <3>3
  <2>7. e = Scrup(d, 0, LINES)
    BY <1>5, <1>4, Zenon DEF e, m
  <2>8. QED
    BY <2>3, <2>4, <2>6, <2>7, Zenon DEF Sound
<1>6. CASE ~MustRewind(n)
  <2> DEFINE m == Erase(n, n.scr_end - COLUMNS, COLUMNS)
             e == SetOrigin(m)
  <2>0. /\ n.scr_end - COLUMNS \in Nat /\ n.scr_end - COLUMNS + COLUMNS <= SCREEN_END
        /\ n.scr_end <= SCREEN_END /\ COLUMNS \in Int
    BY <1>1, <1>2, <1>3, <1>6 DEF MustRewind, Window
  <2>1. Same(m, n)
    BY <1>2, <2>0, ErasedIsSame, Zenon
  <2>2. /\ m.origin = d.origin + COLUMNS /\ m.pos = d.pos + COLUMNS /\ m.scr_end = d.scr_end + COLUMNS
        /\ m.wild = FALSE /\ DOMAIN m = Fields
        /\ \A f \in Fields \ {"origin", "pos", "scr_end", "vram", "wild"} : m[f] = d[f]
    BY <1>2, <2>1, Zenon DEF Same, Fields
  <2> HIDE DEF m
  <2>3. /\ e.scr_end = m.scr_end /\ e.pos = m.pos /\ e.origin = m.origin /\ e.start = m.origin
        /\ e.wild = FALSE /\ DOMAIN e = Fields
        /\ \A f \in Fields \ {"origin", "pos", "scr_end", "vram", "wild", "start"} : e[f] = m[f]
    BY <2>2, Zenon DEF SetOrigin, Fields
  <2> HIDE DEF e
  <2>4. /\ e.x = d.x /\ e.y = d.y /\ e.top = d.top /\ e.bottom = d.bottom /\ e.state = d.state
        /\ e.npar = d.npar /\ e.par = d.par /\ e.attr = d.attr /\ e.saved = d.saved
    BY <2>2, <2>3, ZenonT(30) DEF Fields
  <2>5. /\ e.scr_end = d.scr_end + COLUMNS /\ e.pos = d.pos + COLUMNS /\ e.origin = d.origin + COLUMNS
        /\ e.start = d.origin + COLUMNS /\ e.scr_end <= SCREEN_END
    BY <1>2, <2>0, <2>2, <2>3, Zenon
  <2>6. Window(e) /\ Placed(e) /\ Parsing(e)
    <3>1. Window(e)
      BY <1>1, <1>3, <2>3, <2>4, <2>5 DEF Window
    <3>2. Placed(e)
      BY <1>1, <1>3, <2>3, <2>4, <2>5 DEF Placed, Window
    <3>3. Parsing(e)
      BY <1>1, <2>4, Zenon DEF Parsing
    <3>4. QED
      BY <3>1, <3>2, <3>3
  <2>7. e = Scrup(d, 0, LINES)
    BY <1>6, <1>4, Zenon DEF e, m
  <2>8. QED
    BY <2>3, <2>4, <2>6, <2>7, Zenon DEF Sound
<1>7. QED
  BY <1>5, <1>6, Zenon

\* scrup and scrdown, of any rows, leave the cursor in its row and column.
LEMMA ScrollingIsSound ==
  ASSUME NEW d, Sound(d), NEW t \in 0 .. LINES - 1, NEW b \in 1 .. LINES, t < b
  PROVE  /\ Sound(Scrup(d, t, b)) /\ Scrup(d, t, b).x = d.x /\ Scrup(d, t, b).y = d.y
         /\ Sound(Scrdown(d, t, b)) /\ Scrdown(d, t, b).x = d.x /\ Scrdown(d, t, b).y = d.y
<1>1. Sound(Scrdown(d, t, b)) /\ Scrdown(d, t, b).x = d.x /\ Scrdown(d, t, b).y = d.y
  BY RegionMoves, SameIsSound
<1>2. CASE t = 0 /\ b = LINES
  BY <1>1, <1>2, ScreenMoves, Zenon
<1>3. CASE ~(t = 0 /\ b = LINES)
  <2> DEFINE e == Erase(Move(d, d.origin + ROW(t), d.origin + ROW(t + 1), ROW(b - t - 1)),
                        d.origin + ROW(b - 1), COLUMNS)
  <2>1. Same(e, d)
    BY RegionMoves
  <2>2. Scrup(d, t, b) = e
    BY <1>3, Zenon DEF Scrup
  <2> HIDE DEF e
  <2>3. QED
    BY <1>1, <2>1, <2>2, SameIsSound, Zenon
<1>4. QED
  BY <1>2, <1>3, Zenon

\* A step of the cursor.
LEMMA CursorMoves ==
  ASSUME NEW d, DOMAIN d = Fields, Window(d), Parsing(d), NEW e, DOMAIN e = Fields,
         \A f \in Fields \ {"x", "y", "pos"} : e[f] = d[f],
         e.x \in 0 .. COLUMNS, e.y \in 0 .. LINES - 1, e.pos = d.origin + ROW(e.y) + e.x
  PROVE  Sound(e)
<1>1. /\ e.origin = d.origin /\ e.scr_end = d.scr_end /\ e.wild = d.wild
      /\ e.top = d.top /\ e.bottom = d.bottom /\ e.state = d.state /\ e.npar = d.npar
      /\ e.par = d.par /\ e.attr = d.attr /\ e.saved = d.saved /\ e.start = d.start
  BY Zenon DEF Fields
<1>2. QED
  BY <1>1, Zenon DEF Sound, Window, Placed, Parsing

\* What a sound display says of its numbers.
Geometry(d) ==
  /\ DOMAIN d = Fields /\ Window(d) /\ Parsing(d) /\ d.wild = FALSE
  /\ d.x \in 0 .. COLUMNS /\ d.y \in 0 .. LINES - 1 /\ d.pos = d.origin + ROW(d.y) + d.x
  /\ d.origin \in Nat /\ ROW(d.y) \in Nat /\ ROW(d.y + 1) = ROW(d.y) + COLUMNS /\ d.pos \in Nat
  /\ d.origin + ROW(d.y) + COLUMNS <= d.scr_end /\ d.scr_end <= SCREEN_END
  /\ d.scr_end = d.origin + Screen /\ Screen \in Nat
  /\ d.top \in 0 .. LINES - 1 /\ d.bottom \in 1 .. LINES /\ d.top < d.bottom
  /\ COLUMNS \in Nat \ {0} /\ LINES \in Nat \ {0, 1} /\ SCREEN_END \in Nat

LEMMA Numbers ==
  ASSUME NEW d, Sound(d)
  PROVE  Geometry(d)
<1>1. /\ DOMAIN d = Fields /\ Window(d) /\ Parsing(d) /\ Placed(d)
  BY DEF Sound
<1>2. d.y \in 0 .. LINES - 1
  BY <1>1 DEF Placed
<1>3. ROW(d.y) \in Nat /\ ROW(d.y + 1) = ROW(d.y) + COLUMNS /\ ROW(d.y) + COLUMNS <= Screen /\ Screen \in Nat
  BY <1>2, Rows
<1>4. QED
  BY <1>1, <1>2, <1>3, ConsoleAssumption DEF Window, Placed, Geometry

\* lf goes down a row or scrolls the region.
LEMMA LfIsSound ==
  ASSUME NEW d, Sound(d)
  PROVE  Sound(Lf(d)) /\ Lf(d).x = d.x
<1> DEFINE e == [d EXCEPT !.y = @ + 1, !.pos = @ + COLUMNS]
<1>0. Geometry(d)
  BY Numbers
<1>1. CASE d.y + 1 < d.bottom
  <2>1. /\ e.y = d.y + 1 /\ e.pos = d.pos + COLUMNS /\ e.x = d.x /\ DOMAIN e = Fields
        /\ \A f \in Fields \ {"x", "y", "pos"} : e[f] = d[f]
    BY <1>0, Zenon DEF Fields, Geometry
  <2>2. e.x \in 0 .. COLUMNS /\ e.y \in 0 .. LINES - 1 /\ e.pos = d.origin + ROW(e.y) + e.x
    BY <1>0, <1>1, <2>1 DEF Geometry
  <2>3. Lf(d) = e
    BY <1>1, Zenon DEF Lf
  <2> HIDE DEF e
  <2>4. QED
    BY <1>0, <2>1, <2>2, <2>3, CursorMoves, Zenon DEF Geometry
<1>2. CASE ~(d.y + 1 < d.bottom)
  BY <1>0, <1>2, ScrollingIsSound, Zenon DEF Lf, Geometry
<1>3. QED
  BY <1>1, <1>2

\* ri goes up a row or scrolls the region.
LEMMA RiIsSound ==
  ASSUME NEW d, Sound(d)
  PROVE  Sound(Ri(d))
<1> DEFINE e == [d EXCEPT !.y = @ - 1, !.pos = @ - COLUMNS]
<1>0. Geometry(d)
  BY Numbers
<1>1. CASE d.y > d.top
  <2>1. /\ e.y = d.y - 1 /\ e.pos = d.pos - COLUMNS /\ e.x = d.x /\ DOMAIN e = Fields
        /\ \A f \in Fields \ {"x", "y", "pos"} : e[f] = d[f]
    BY <1>0, Zenon DEF Fields, Geometry
  <2>2. d.y - 1 \in 0 .. LINES - 1
    BY <1>0, <1>1 DEF Geometry
  <2>3. ROW(d.y - 1 + 1) = ROW(d.y - 1) + COLUMNS /\ d.y - 1 + 1 = d.y /\ ROW(d.y - 1) \in Nat
    BY <1>0, <2>2, Rows DEF Geometry
  <2>4. e.x \in 0 .. COLUMNS /\ e.y \in 0 .. LINES - 1 /\ e.pos = d.origin + ROW(e.y) + e.x
    BY <1>0, <2>1, <2>2, <2>3 DEF Geometry
  <2>5. Ri(d) = e
    BY <1>1, Zenon DEF Ri
  <2> HIDE DEF e
  <2>6. QED
    BY <1>0, <2>1, <2>4, <2>5, CursorMoves, Zenon DEF Geometry
<1>2. CASE ~(d.y > d.top)
  BY <1>0, <1>2, ScrollingIsSound, Zenon DEF Ri, Geometry
<1>3. QED
  BY <1>1, <1>2

\* cr, the backspace of con_write, and del.
LEMMA CrIsSound ==
  ASSUME NEW d, Sound(d)
  PROVE  Sound(Cr(d)) /\ Sound(Bs(d)) /\ Sound(Del(d))
<1>0. Geometry(d)
  BY Numbers
<1> DEFINE e == [d EXCEPT !.pos = @ - d.x, !.x = 0]
           b == [d EXCEPT !.pos = @ - 1, !.x = @ - 1]
<1>1. Sound(Cr(d))
  <2>1. /\ e.y = d.y /\ e.pos = d.pos - d.x /\ e.x = 0 /\ DOMAIN e = Fields
        /\ \A f \in Fields \ {"x", "y", "pos"} : e[f] = d[f]
    BY <1>0, Zenon DEF Fields, Geometry
  <2>2. e.x \in 0 .. COLUMNS /\ e.y \in 0 .. LINES - 1 /\ e.pos = d.origin + ROW(e.y) + e.x
    BY <1>0, <2>1 DEF Geometry
  <2> HIDE DEF e
  <2>3. Sound(e)
    BY <1>0, <2>1, <2>2, CursorMoves, Zenon DEF Geometry
  <2>4. QED
    BY <2>3, Zenon DEF Cr, e
<1>2. ASSUME d.x > 0 PROVE Sound(b) /\ b.pos = d.pos - 1 /\ b.wild = FALSE /\ DOMAIN b = Fields
  <2>1. /\ b.y = d.y /\ b.pos = d.pos - 1 /\ b.x = d.x - 1 /\ DOMAIN b = Fields /\ b.wild = FALSE
        /\ \A f \in Fields \ {"x", "y", "pos"} : b[f] = d[f]
    BY <1>0, Zenon DEF Fields, Geometry
  <2>2. b.x \in 0 .. COLUMNS /\ b.y \in 0 .. LINES - 1 /\ b.pos = d.origin + ROW(b.y) + b.x
    BY <1>0, <1>2, <2>1 DEF Geometry
  <2> HIDE DEF b
  <2>3. QED
    BY <1>0, <2>1, <2>2, CursorMoves, Zenon DEF Geometry
<1>3. Sound(Bs(d))
  BY <1>2, Zenon DEF Bs
<1>4. Sound(Del(d))
  <2>1. CASE d.x > 0
    <3>1. d.pos - 1 \in Nat /\ d.pos - 1 + 1 <= SCREEN_END /\ 1 \in Int
      BY <1>0, <2>1 DEF Geometry
    <3>2. Bs(d) = b /\ Del(d) = Erase(Bs(d), d.pos - 1, 1)
      BY <2>1, Zenon DEF Del, Bs
    <3> HIDE DEF b
    <3>3. Same(Erase(b, d.pos - 1, 1), b)
      BY <1>2, <2>1, <3>1, ErasedIsSame, Zenon
    <3>4. QED
      BY <1>2, <2>1, <3>2, <3>3, SameIsSound, Zenon
  <2>2. CASE ~(d.x > 0)
    BY <2>2, Zenon DEF Del
  <2>3. QED
    BY <2>1, <2>2
<1>5. QED
  BY <1>1, <1>3, <1>4

\* A cursor that has gone beyond its row continues on the next one.
LEMMA WrapIsSound ==
  ASSUME NEW d, DOMAIN d = Fields, Window(d), Parsing(d), d.y \in 0 .. LINES - 1,
         d.x \in COLUMNS .. 2 * COLUMNS, d.pos = d.origin + ROW(d.y) + d.x
  PROVE  Sound(Wrap(d)) /\ Wrap(d).x = d.x - COLUMNS
<1> DEFINE e == [d EXCEPT !.x = @ - COLUMNS, !.pos = @ - COLUMNS]
<1>1. /\ e.y = d.y /\ e.pos = d.pos - COLUMNS /\ e.x = d.x - COLUMNS /\ DOMAIN e = Fields
      /\ \A f \in Fields \ {"x", "y", "pos"} : e[f] = d[f]
  BY Zenon DEF Fields
<1>2. ROW(d.y) \in Nat /\ d.origin \in Nat
  BY Rows DEF Window
<1>3. e.x \in 0 .. COLUMNS /\ e.y \in 0 .. LINES - 1 /\ e.pos = d.origin + ROW(e.y) + e.x
  BY <1>1, <1>2, ConsoleAssumption
<1> HIDE DEF e
<1>4. Sound(e)
  BY <1>1, <1>3, CursorMoves, Zenon
<1>5. Wrap(d) = Lf(e)
  BY Zenon DEF Wrap, e
<1>6. QED
  BY <1>1, <1>4, <1>5, LfIsSound, Zenon

\* A printable character: the wrap comes first, so that it has a cell to go to.
LEMMA PutIsSound ==
  ASSUME NEW d, Sound(d), NEW c
  PROVE  Sound(Put(d, c))
<1>0. Geometry(d)
  BY Numbers
<1> DEFINE w == IF Wraps(d) THEN Wrap(d) ELSE d
           s == Store(w, w.pos, 1, [i \in {w.pos} |-> <<c, d.attr>>])
           e == [s EXCEPT !.pos = @ + 1, !.x = @ + 1]
<1>1. Sound(w) /\ w.x \in 0 .. COLUMNS - 1
  <2>1. CASE Wraps(d)
    <3>1. d.x = COLUMNS /\ d.x \in COLUMNS .. 2 * COLUMNS
      BY <1>0, <2>1 DEF Wraps, Geometry
    <3>2. Sound(Wrap(d)) /\ Wrap(d).x = d.x - COLUMNS
      BY <1>0, <3>1, WrapIsSound, Zenon DEF Geometry
    <3>3. Wrap(d).x = 0 /\ 0 \in 0 .. COLUMNS - 1
      BY <1>0, <3>1, <3>2 DEF Geometry
    <3>4. QED
      BY <2>1, <3>2, <3>3, Zenon
  <2>2. CASE ~Wraps(d)
    <3>1. d.x \in 0 .. COLUMNS - 1
      BY <1>0, <2>2 DEF Wraps, Geometry
    <3>2. QED
      BY <2>2, <3>1, Zenon
  <2>3. QED
    BY <2>1, <2>2
<1> HIDE DEF w
<1>2. Geometry(w)
  BY <1>1, Numbers
<1>3. w.pos \in Nat /\ 1 \in Int /\ w.pos + 1 <= SCREEN_END
  BY <1>1, <1>2 DEF Geometry
<1>4. Same(s, w)
  BY <1>2, <1>3, StoredIsSame, Zenon DEF Geometry
<1> HIDE DEF s
<1>5. Sound(s) /\ s.x = w.x
  BY <1>1, <1>4, SameIsSound
<1>6. Geometry(s)
  BY <1>5, Numbers
<1>7. /\ e.y = s.y /\ e.pos = s.pos + 1 /\ e.x = s.x + 1 /\ DOMAIN e = Fields
      /\ \A f \in Fields \ {"x", "y", "pos"} : e[f] = s[f]
  BY <1>6, Zenon DEF Fields, Geometry
<1>8. e.x \in 0 .. COLUMNS /\ e.y \in 0 .. LINES - 1 /\ e.pos = s.origin + ROW(e.y) + e.x
  BY <1>1, <1>5, <1>6, <1>7 DEF Geometry
<1> HIDE DEF e
<1>9. Sound(e)
  BY <1>6, <1>7, <1>8, CursorMoves, Zenon DEF Geometry
<1>10. QED
  BY <1>9, Zenon DEF Put, w, s, e

\* The next tabulator stop is on the row or at its end.
LEMMA TabStops ==
  ASSUME NEW n \in 0 .. COLUMNS - 1
  PROVE  n + (TAB - (n % TAB)) \in 0 .. COLUMNS
<1>1. TAB \in Nat \ {0} /\ COLUMNS \in Nat \ {0} /\ COLUMNS % TAB = 0 /\ n \in Nat
  BY ConsoleAssumption
<1> DEFINE q == n \div TAB
           r == n % TAB
           m == COLUMNS \div TAB
<1>2. q \in Nat /\ r \in 0 .. TAB - 1 /\ n = TAB * q + r
  BY <1>1
<1>3. m \in Nat /\ COLUMNS = TAB * m
  BY <1>1
<1> HIDE DEF q, r, m
<1>4. q < m
  <2>1. SUFFICES ASSUME q >= m PROVE FALSE
    BY <1>2, <1>3
  <2>2. q - m \in Nat
    BY <1>2, <1>3, <2>1
  <2>3. TAB * (q - m) \in Nat
    BY <1>1, <2>2
  <2>4. TAB * q = TAB * (q - m) + TAB * m
    BY <1>1, <1>2, <1>3, <2>2
  <2>5. QED
    BY <1>1, <1>2, <1>3, <2>3, <2>4
<1>5. m - q - 1 \in Nat
  BY <1>2, <1>3, <1>4
<1>6. TAB * (m - q - 1) \in Nat /\ TAB * m = TAB * (m - q - 1) + TAB * q + TAB
  BY <1>1, <1>2, <1>3, <1>5
<1>7. TAB * q \in Nat
  BY <1>1, <1>2
<1>8. n + (TAB - r) \in 0 .. COLUMNS
  BY <1>1, <1>2, <1>3, <1>6, <1>7
<1>9. QED
  BY <1>8 DEF r

\* A tabulator goes less than a row beyond the end of the row.
LEMMA TabReach ==
  ASSUME NEW d, Sound(d)
  PROVE  TAB - (d.x % TAB) \in Int /\ d.x + (TAB - (d.x % TAB)) \in 0 .. 2 * COLUMNS
<1> DEFINE c == TAB - (d.x % TAB)
<1>0. Geometry(d)
  BY Numbers
<1>1. c \in Int /\ d.x + c \in 0 .. 2 * COLUMNS
  <2>1. TAB \in Nat \ {0} /\ COLUMNS % TAB = 0 /\ TAB <= COLUMNS
    <3>1. TAB \in Nat \ {0} /\ COLUMNS % TAB = 0 /\ COLUMNS \in Nat \ {0}
      BY ConsoleAssumption
    <3>2. TAB > COLUMNS => COLUMNS % TAB = COLUMNS
      BY <3>1
    <3>3. QED
      BY <3>1, <3>2
  <2>2. CASE d.x = COLUMNS
    BY <1>0, <2>1, <2>2 DEF Geometry
  <2>3. CASE d.x # COLUMNS
    <3>1. d.x \in 0 .. COLUMNS - 1
      BY <1>0, <2>3 DEF Geometry
    <3>2. d.x + c \in 0 .. COLUMNS
      BY <3>1, TabStops
    <3>3. c \in Int
      BY <2>1, <3>1
    <3> HIDE DEF c
    <3>4. QED
      BY <1>0, <3>2, <3>3 DEF Geometry
  <2>4. QED
    BY <2>2, <2>3
<1>2. QED
  BY <1>1

\* A tabulator, which wraps when the row ends before the next stop.
LEMMA TabIsSound ==
  ASSUME NEW d, Sound(d)
  PROVE  Sound(Tab(d))
<1>0. Geometry(d)
  BY Numbers
<1> DEFINE c == TAB - (d.x % TAB)
           t == [d EXCEPT !.x = @ + c, !.pos = @ + c]
<1>1. c \in Int /\ d.x + c \in 0 .. 2 * COLUMNS
  BY TabReach
<1> HIDE DEF c
<1>2. /\ t.y = d.y /\ t.pos = d.pos + c /\ t.x = d.x + c /\ DOMAIN t = Fields
      /\ \A f \in Fields \ {"x", "y", "pos"} : t[f] = d[f]
  BY <1>0, Zenon DEF Fields, Geometry
<1>3. t.pos = d.origin + ROW(t.y) + t.x /\ t.y \in 0 .. LINES - 1
  BY <1>0, <1>1, <1>2 DEF Geometry
<1>4. Tab(d) = IF t.x > COLUMNS THEN Wrap(t) ELSE t
  BY Zenon DEF Tab, c
<1> HIDE DEF t
<1>5. CASE t.x > COLUMNS
  <2>1. t.x \in COLUMNS .. 2 * COLUMNS
    BY <1>0, <1>1, <1>2, <1>5 DEF Geometry
  <2>2. /\ t.origin = d.origin /\ t.scr_end = d.scr_end /\ t.wild = d.wild
        /\ t.top = d.top /\ t.bottom = d.bottom /\ t.state = d.state /\ t.npar = d.npar
        /\ t.par = d.par /\ t.attr = d.attr /\ t.saved = d.saved /\ t.start = d.start
    BY <1>2, Zenon DEF Fields
  <2>3. Window(t) /\ Parsing(t)
    BY <1>0, <2>2, Zenon DEF Geometry, Window, Parsing
  <2>4. t.pos = t.origin + ROW(t.y) + t.x
    BY <1>3, <2>2
  <2>5. QED
    BY <1>2, <1>3, <1>4, <1>5, <2>1, <2>3, <2>4, WrapIsSound, Zenon
<1>6. CASE ~(t.x > COLUMNS)
  <2>1. t.x \in 0 .. COLUMNS
    BY <1>0, <1>1, <1>2, <1>6 DEF Geometry
  <2>2. QED
    BY <1>0, <1>2, <1>3, <1>4, <1>6, <2>1, CursorMoves, Zenon DEF Geometry
<1>7. QED
  BY <1>5, <1>6

\* csi_J and csi_K erase parts of the screen.
LEMMA ErasingIsSound ==
  ASSUME NEW d, Sound(d), NEW n
  PROVE  Sound(CsiJ(d, n)) /\ Sound(CsiK(d, n))
<1>0. Geometry(d)
  BY Numbers
<1>1. ASSUME NEW s \in Nat, NEW l \in Int, s + l <= SCREEN_END PROVE Sound(Erase(d, s, l))
  BY <1>0, <1>1, ErasedIsSame, SameIsSound, Zenon DEF Geometry
<1>2. /\ Sound(Erase(d, d.pos, d.scr_end - d.pos)) /\ Sound(Erase(d, d.origin, d.pos - d.origin))
      /\ Sound(Erase(d, d.origin, Screen))
  <2>1. /\ d.pos \in Nat /\ d.scr_end - d.pos \in Int /\ d.pos + (d.scr_end - d.pos) <= SCREEN_END
        /\ d.origin \in Nat /\ d.pos - d.origin \in Int /\ d.origin + (d.pos - d.origin) <= SCREEN_END
        /\ Screen \in Int /\ d.origin + Screen <= SCREEN_END
    BY <1>0 DEF Geometry
  <2>2. QED
    BY <1>1, <2>1, Zenon
<1>3. /\ Sound(Erase(d, d.pos, COLUMNS - d.x)) /\ Sound(Erase(d, d.pos - d.x, d.x))
      /\ Sound(Erase(d, d.pos - d.x, COLUMNS))
  <2>1. /\ d.pos \in Nat /\ COLUMNS - d.x \in Int /\ d.pos + (COLUMNS - d.x) <= SCREEN_END
        /\ d.pos - d.x \in Nat /\ d.x \in Int /\ d.pos - d.x + d.x <= SCREEN_END
        /\ COLUMNS \in Int /\ d.pos - d.x + COLUMNS <= SCREEN_END
    BY <1>0 DEF Geometry
  <2>2. QED
    BY <1>1, <2>1, Zenon
<1>4. CsiJ(d, n) \in {Erase(d, d.pos, d.scr_end - d.pos), Erase(d, d.origin, d.pos - d.origin),
                      Erase(d, d.origin, Screen), d}
  BY DEF CsiJ
<1>5. CsiK(d, n) \in {Erase(d, d.pos, COLUMNS - d.x), Erase(d, d.pos - d.x, d.x),
                      Erase(d, d.pos - d.x, COLUMNS), d}
  BY DEF CsiK
<1>6. QED
  BY <1>2, <1>3, <1>4, <1>5, Zenon

\* One round of a loop: a line or a character is inserted or deleted.
LEMMA OnceIsSound ==
  ASSUME NEW d, Sound(d), NEW c \in {"L", "M", "P", "@"}
  PROVE  Sound(Once(c, d))
<1>0. Geometry(d)
  BY Numbers
<1>1. Sound(InsertLine(d)) /\ Sound(DeleteLine(d))
  <2>1. d.y \in 0 .. LINES - 1 /\ LINES \in 1 .. LINES /\ d.y < LINES
    BY <1>0 DEF Geometry
  <2>2. QED
    BY <2>1, ScrollingIsSound, Zenon DEF InsertLine, DeleteLine
<1>2. Sound(InsertChar(d)) /\ Sound(DeleteChar(d))
  <2>1. CASE d.x >= COLUMNS
    BY <2>1, Zenon DEF InsertChar, DeleteChar
  <2>2. CASE ~(d.x >= COLUMNS)
    <3> DEFINE n == COLUMNS - d.x - 1
               l == d.pos + COLUMNS - d.x - 1
    <3>1. /\ d.pos \in Nat /\ d.pos + 1 \in Nat /\ n \in Int /\ d.pos + n <= SCREEN_END
          /\ d.pos + 1 + n <= SCREEN_END /\ l \in Nat /\ l + 1 <= SCREEN_END /\ 1 \in Int
          /\ d.pos + 1 <= SCREEN_END
      BY <1>0, <2>2 DEF Geometry
    <3>2. /\ InsertChar(d) = Erase(Move(d, d.pos + 1, d.pos, n), d.pos, 1)
          /\ DeleteChar(d) = Erase(Move(d, d.pos, d.pos + 1, n), l, 1)
      BY <2>2, Zenon DEF InsertChar, DeleteChar
    <3> HIDE DEF n, l
    <3>3. Same(InsertChar(d), d) /\ Same(DeleteChar(d), d)
      BY <1>0, <3>1, <3>2, MovedAndErased, ZenonT(30) DEF Geometry
    <3>4. QED
      BY <3>3, SameIsSound, Zenon
  <2>3. QED
    BY <2>1, <2>2
<1>3. Once(c, d) \in {InsertLine(d), DeleteLine(d), InsertChar(d), DeleteChar(d)}
  BY DEF Once
<1>4. QED
  BY <1>1, <1>2, <1>3, Zenon

\* The displays after each of the first m rounds of a loop.
Rounds(g, c, d, m) == g = [i \in 0 .. m |-> IF i = 0 THEN d ELSE Once(c, g[i - 1])]

\* The loops have a result: the first round without one would follow on one that has.
LEMMA RoundsExist ==
  ASSUME NEW d, NEW c, NEW m \in Nat
  PROVE  \E g : Rounds(g, c, d, m)
<1> USE DEF Rounds
<1> DEFINE Ok(j) == \E g : g = [i \in 0 .. j |-> IF i = 0 THEN d ELSE Once(c, g[i - 1])]
           Bad == {j \in Nat : ~Ok(j)}
<1>1. SUFFICES ASSUME Bad # {} PROVE FALSE
  BY Zenon
<1>2. PICK j \in Bad : \A l \in Bad : j <= l
  <2>1. Bad \subseteq Nat
    OBVIOUS
  <2> HIDE DEF Bad
  <2>2. QED
    BY <1>1, <2>1, LeastNatural, Zenon
<1>3. Ok(0)
  <2> DEFINE g == [i \in 0 .. 0 |-> d]
  <2>1. g = [i \in 0 .. 0 |-> IF i = 0 THEN d ELSE Once(c, g[i - 1])]
    OBVIOUS
  <2> HIDE DEF g
  <2>2. QED
    BY <2>1, Zenon
<1>4. j # 0 /\ j \in Nat
  BY <1>2, <1>3, Zenon
<1>5. Ok(j - 1)
  <2>1. j - 1 \in Nat /\ ~(j <= j - 1)
    BY <1>4
  <2>2. j - 1 \notin Bad
    BY <1>2, <2>1, Zenon
  <2>3. QED
    BY <2>1, <2>2, Zenon
<1>6. PICK g : g = [i \in 0 .. j - 1 |-> IF i = 0 THEN d ELSE Once(c, g[i - 1])]
  BY <1>5, Zenon
<1> DEFINE h == [i \in 0 .. j |-> IF i = j THEN Once(c, g[j - 1]) ELSE g[i]]
<1>7. ASSUME NEW i \in 0 .. j PROVE h[i] = IF i = 0 THEN d ELSE Once(c, h[i - 1])
  <2>1. CASE i = 0
    <3>1. i \in 0 .. j - 1 /\ i # j
      BY <1>4, <2>1
    <3>2. g[i] = d
      BY <1>6, <2>1, <3>1, Zenon
    <3>3. QED
      BY <2>1, <3>1, <3>2, Zenon
  <2>2. CASE i # 0 /\ i # j
    <3>1. i \in 0 .. j - 1 /\ i - 1 \in 0 .. j /\ i - 1 # j
      BY <1>4, <2>2
    <3>2. g[i] = Once(c, g[i - 1])
      BY <1>6, <2>2, <3>1, Zenon
    <3>3. h[i] = g[i] /\ h[i - 1] = g[i - 1]
      BY <2>2, <3>1, Zenon
    <3>4. QED
      BY <2>2, <3>2, <3>3, Zenon
  <2>3. CASE i # 0 /\ i = j
    <3>1. j - 1 \in 0 .. j /\ j - 1 # j
      BY <1>4
    <3>2. h[i] = Once(c, g[j - 1]) /\ h[j - 1] = g[j - 1]
      BY <2>3, <3>1, Zenon
    <3>3. QED
      BY <2>3, <3>2, Zenon
  <2>4. QED
    BY <2>1, <2>2, <2>3
<1>8. h = [i \in 0 .. j |-> IF i = 0 THEN d ELSE Once(c, h[i - 1])]
  <2>1. h = [i \in 0 .. j |-> h[i]]
    BY Zenon
  <2> HIDE DEF h
  <2>2. QED
    BY <1>7, <2>1, Zenon
<1> HIDE DEF h
<1>9. Ok(j)
  BY <1>8, Zenon
<1>10. QED
  BY <1>2, <1>9, Zenon

\* csi_at, csi_L, csi_P, csi_M: the display after some of the rounds.
LEMMA TimesIsRounds ==
  ASSUME NEW d, NEW c, NEW n \in Nat, NEW most \in Nat \ {0}
  PROVE  \E m \in 1 .. most : \E g : Rounds(g, c, d, m) /\ Times(c, d, n, most) = g[m]
<1> DEFINE m == IF n > most THEN most ELSE IF n = 0 THEN 1 ELSE n
           after == CHOOSE g : g = [i \in 0 .. m |-> IF i = 0 THEN d ELSE Once(c, g[i - 1])]
<1>1. m \in Nat /\ m \in 1 .. most
  OBVIOUS
<1>2. Times(c, d, n, most) = after[m]
  BY Zenon DEF Times
<1> HIDE DEF m
<1>3. Rounds(after, c, d, m)
  <2>1. \E g : Rounds(g, c, d, m)
    BY <1>1, RoundsExist, Zenon
  <2>2. QED
    BY <2>1, Zenon DEF Rounds
<1> HIDE DEF after
<1>4. QED
  BY <1>1, <1>2, <1>3, Zenon

\* The first round that spoilt the display would have begun with a sound one.
LEMMA RoundsAreSound ==
  ASSUME NEW d, Sound(d), NEW c \in {"L", "M", "P", "@"}, NEW m \in Nat, NEW g, Rounds(g, c, d, m)
  PROVE  \A j \in 0 .. m : Sound(g[j])
<1> DEFINE Bad == {j \in 0 .. m : ~Sound(g[j])}
<1>1. SUFFICES ASSUME Bad # {} PROVE FALSE
  BY Zenon
<1>2. PICK j \in Bad : \A l \in Bad : j <= l
  <2>1. Bad \subseteq Nat
    OBVIOUS
  <2> HIDE DEF Bad
  <2>2. QED
    BY <1>1, <2>1, LeastNatural, Zenon
<1>3. j \in 0 .. m /\ ~Sound(g[j])
  BY <1>2, Zenon
<1>4. CASE j = 0
  BY <1>3, <1>4, Zenon DEF Rounds
<1>5. CASE j # 0
  <2>1. j - 1 \in 0 .. m /\ ~(j <= j - 1)
    BY <1>3, <1>5
  <2>2. Sound(g[j - 1])
    BY <1>2, <2>1, Zenon
  <2>3. g[j] = Once(c, g[j - 1])
    BY <1>3, <1>5, Zenon DEF Rounds
  <2>4. QED
    BY <1>3, <2>2, <2>3, OnceIsSound, Zenon
<1>6. QED
  BY <1>4, <1>5

\* All rounds.
LEMMA TimesIsSound ==
  ASSUME NEW d, Sound(d), NEW c \in {"L", "M", "P", "@"}, NEW n \in Nat, NEW most \in Nat \ {0}
  PROVE  Sound(Times(c, d, n, most))
<1>1. PICK m \in 1 .. most : \E g : Rounds(g, c, d, m) /\ Times(c, d, n, most) = g[m]
  BY TimesIsRounds
<1>2. m \in Nat /\ m \in 0 .. m
  OBVIOUS
<1>3. QED
  BY <1>1, <1>2, RoundsAreSound, Zenon

\* Changes of the parser's state, and of what set_cursor tells, leave the screen alone.
LEMMA ParserMoves ==
  ASSUME NEW d, Sound(d), NEW e, DOMAIN e = Fields, Parsing(e),
         \A f \in Fields \ {"state", "npar", "par", "ques", "attr", "saved", "cursor"} : e[f] = d[f]
  PROVE  Sound(e)
<1>1. /\ e.origin = d.origin /\ e.scr_end = d.scr_end /\ e.pos = d.pos /\ e.x = d.x /\ e.y = d.y
      /\ e.top = d.top /\ e.bottom = d.bottom /\ e.start = d.start /\ e.wild = d.wild
  BY Zenon DEF Fields
<1>2. QED
  BY <1>1, Zenon DEF Sound, Window, Placed

\* The characters of Digits as numbers, and what the parameters of csi_m mean.
LEMMA Tables ==
  /\ \A c \in Digits : Value[c] \in Nat
  /\ \A p \in DOMAIN Attribute : Attribute[p] \in {7, 15, 112}
<1>1. \A c \in Digits : Value[c] \in Nat
  BY DEF Value, Digits
<1>2. \A p \in DOMAIN Attribute : Attribute[p] \in {7, 15, 112}
  BY DEF Attribute
<1>3. QED
  BY <1>1, <1>2

\* csi_m, save_cur, restore_cur and the scroll region.
LEMMA SettingsAreSound ==
  ASSUME NEW d, Sound(d), NEW t \in Nat, NEW b \in Nat
  PROVE  Sound(CsiM(d)) /\ Sound(SaveCur(d)) /\ Sound(RestoreCur(d)) /\ Sound(Region(d, t, b))
<1>1. Sound(CsiM(d))
  <2> DEFINE set == {i \in 0 .. d.npar : d.par[i] \in DOMAIN Attribute}
             last == CHOOSE i \in set : \A j \in set : j <= i
             e == [d EXCEPT !.attr = Attribute[d.par[last]]]
  <2>1. CASE set = {}
    BY <2>1, Zenon DEF CsiM
  <2>2. CASE set # {}
    <3>1. CsiM(d) = e
      BY <2>2, Zenon DEF CsiM
    <3>2. \E i \in set : \A j \in set : j <= i
      <4> DEFINE down == {d.npar - i : i \in set}
      <4>1. d.npar \in Nat
        BY ConsoleAssumption DEF Sound, Parsing
      <4>2. down \subseteq Nat /\ down # {}
        <5>1. set \subseteq 0 .. d.npar
          BY Zenon
        <5> HIDE DEF set
        <5>2. \A i \in set : d.npar - i \in Nat
          BY <4>1, <5>1
        <5>3. QED
          BY <2>2, <5>2, Zenon
      <4>3. PICK n \in down : \A l \in down : n <= l
        <5> HIDE DEF down
        <5>1. QED
          BY <4>2, LeastNatural, Zenon
      <4>4. PICK i \in set : n = d.npar - i
        BY <4>3
      <4>5. ASSUME NEW j \in set PROVE j <= i
        <5>1. d.npar - j \in down
          BY Zenon
        <5>2. n <= d.npar - j
          BY <4>3, <5>1, Zenon
        <5>3. QED
          BY <4>1, <4>4, <5>2
      <4>6. QED
        BY <4>5
    <3>3. last \in set
      BY <3>2, Zenon
    <3>4. Attribute[d.par[last]] \in {7, 15, 112}
      BY <3>3, Tables, Zenon
    <3> DEFINE a == Attribute[d.par[last]]
    <3>5. CsiM(d) = [d EXCEPT !.attr = a] /\ a \in {7, 15, 112}
      BY <3>1, <3>4, Zenon
    <3> HIDE DEF a
    <3>6. DOMAIN d = Fields /\ Parsing(d)
      BY DEF Sound
    <3> DEFINE n == [d EXCEPT !.attr = a]
    <3>7. /\ DOMAIN n = Fields /\ n.attr = a
          /\ \A f \in Fields \ {"attr"} : n[f] = d[f]
      BY <3>6, Zenon DEF Fields
    <3>8. CsiM(d) = n
      BY <3>5
    <3> HIDE DEF n
    <3>9. n.state = d.state /\ n.npar = d.npar /\ n.par = d.par /\ n.saved = d.saved
      BY <3>7, Zenon DEF Fields
    <3>10. Parsing(n)
      BY <3>5, <3>6, <3>7, <3>9, Zenon DEF Parsing
    <3>11. QED
      BY <3>7, <3>8, <3>10, ParserMoves, Zenon
  <2>3. QED
    BY <2>1, <2>2
<1>2. Sound(SaveCur(d))
  <2>1. <<d.x, d.y>>[1] = d.x /\ <<d.x, d.y>>[2] = d.y
    OBVIOUS
  <2>2. QED
    BY <2>1, Zenon DEF SaveCur, Sound, Window, Placed, Parsing, Fields
<1>3. Sound(RestoreCur(d))
  <2>1. RestoreCur(d).pos = d.origin + ROW(d.saved[2]) + d.saved[1]
    BY Zenon DEF RestoreCur, ROW, Sound, Fields
  <2>2. QED
    BY <2>1, Zenon DEF RestoreCur, Sound, Window, Placed, Parsing, Fields
<1>4. Sound(Region(d, t, b))
  <2>1. CASE t < b /\ b <= LINES
    <3>1. t \in 0 .. LINES - 1 /\ b \in 1 .. LINES
      BY <2>1, ConsoleAssumption
    <3>2. QED
      BY <2>1, <3>1, Zenon DEF Region, Sound, Window, Placed, Parsing, Fields
  <2>2. QED
    BY <2>1, Zenon DEF Region
<1>5. QED
  BY <1>1, <1>2, <1>3, <1>4

\* gotoxy goes where it may, or nowhere.
LEMMA GotoIsSound ==
  ASSUME NEW d, Sound(d), NEW x, NEW y
  PROVE  Sound(Goto(d, x, y))
<1>0. Geometry(d)
  BY Numbers
<1>1. CASE x \in 0 .. COLUMNS - 1 /\ y \in 0 .. LINES - 1
  <2>1. x \in 0 .. COLUMNS
    BY <1>1, ConsoleAssumption
  <2>2. Goto(d, x, y) = [d EXCEPT !.x = x, !.y = y, !.pos = d.origin + ROW(y) + x]
    BY <1>1, Zenon DEF Goto, ROW
  <2>3. QED
    <3>1. DOMAIN d = Fields /\ Window(d) /\ Parsing(d)
      BY DEF Sound
    <3> DEFINE e == Goto(d, x, y)
    <3>2. /\ DOMAIN e = Fields /\ e.x = x /\ e.y = y /\ e.pos = d.origin + ROW(y) + x
          /\ \A f \in Fields \ {"x", "y", "pos"} : e[f] = d[f]
      BY <2>2, <3>1, Zenon DEF Fields
    <3> HIDE DEF e
    <3>3. e.x \in 0 .. COLUMNS /\ e.y \in 0 .. LINES - 1 /\ e.pos = d.origin + ROW(e.y) + e.x
      BY <1>1, <2>1, <3>2, Zenon
    <3>4. Sound(e)
      BY <3>1, <3>2, <3>3, CursorMoves, Zenon
    <3>5. QED
      BY <3>4 DEF e
<1>2. QED
  BY <1>1, Zenon DEF Goto

\* The character that ends a sequence.
LEMMA FinalIsSound ==
  ASSUME NEW d, Sound(d), NEW c
  PROVE  Sound(Final(d, c))
<1> DEFINE p == d.par[0]
           q == d.par[1]
           one(n) == IF n = 0 THEN 1 ELSE n
           less(n) == IF n > 0 THEN n - 1 ELSE 0
<1>1. p \in Nat /\ q \in Nat /\ LINES \in Nat \ {0} /\ COLUMNS \in Nat \ {0}
  BY ConsoleAssumption DEF Sound, Parsing
<1>2. less(p) \in Nat /\ (IF q = 0 THEN LINES ELSE q) \in Nat
  BY <1>1
<1>3. c \in {"L", "M"} => Sound(Times(c, d, p, LINES))
  BY <1>1, TimesIsSound, Zenon
<1>4. c \in {"P", "@"} => Sound(Times(c, d, p, COLUMNS))
  BY <1>1, TimesIsSound, Zenon
<1>5. Sound(CsiM(d)) /\ Sound(SaveCur(d)) /\ Sound(RestoreCur(d))
      /\ Sound(Region(d, less(p), IF q = 0 THEN LINES ELSE q))
  BY <1>2, SettingsAreSound, Zenon
<1>6. Sound(CsiJ(d, p)) /\ Sound(CsiK(d, p))
  BY ErasingIsSound, Zenon
<1>7. \A x, y : Sound(Goto(d, x, y))
  BY GotoIsSound, Zenon
<1>8. QED
  BY <1>3, <1>4, <1>5, <1>6, <1>7, Zenon DEF Final

\* The state of the parser.
LEMMA StateIsSound ==
  ASSUME NEW d, Sound(d), NEW n \in 0 .. 3
  PROVE  Sound([d EXCEPT !.state = n])
<1> DEFINE e == [d EXCEPT !.state = n]
<1>0. DOMAIN d = Fields /\ Parsing(d)
  BY DEF Sound
<1>1. DOMAIN e = Fields /\ e.state = n /\ \A f \in Fields \ {"state"} : e[f] = d[f]
  BY <1>0, Zenon DEF Fields
<1> HIDE DEF e
<1>2. e.npar = d.npar /\ e.par = d.par /\ e.saved = d.saved /\ e.attr = d.attr
  BY <1>1, Zenon DEF Fields
<1>3. Parsing(e)
  BY <1>0, <1>1, <1>2, Zenon DEF Parsing
<1>4. Sound(e)
  BY <1>1, <1>3, ParserMoves, Zenon
<1>5. QED
  BY <1>4 DEF e

\* States 3 and 4 of con_write.
LEMMA ParameterIsSound ==
  ASSUME NEW d, Sound(d), NEW c
  PROVE  Sound(Parameter(d, c))
<1>0. DOMAIN d = Fields /\ Parsing(d)
  BY DEF Sound
<1>1. CASE c = ";" /\ d.npar < NPAR - 1
  <2> DEFINE e == [d EXCEPT !.npar = @ + 1]
  <2>1. DOMAIN e = Fields /\ e.npar = d.npar + 1 /\ \A f \in Fields \ {"npar"} : e[f] = d[f]
    BY <1>0, Zenon DEF Fields
  <2>2. Parameter(d, c) = e
    <3>1. c \notin Digits
      BY <1>1, Zenon DEF Digits
    <3>2. QED
      BY <1>1, <3>1, Zenon DEF Parameter
  <2>3. d.npar + 1 \in 0 .. NPAR - 1
    <3>1. d.npar \in 0 .. NPAR - 1
      BY <1>0, Zenon DEF Parsing
    <3>2. NPAR \in Nat /\ d.npar < NPAR - 1
      BY <1>1, ConsoleAssumption, Zenon
    <3>3. QED
      BY <3>1, <3>2
  <2> HIDE DEF e
  <2>4. e.state = d.state /\ e.par = d.par /\ e.saved = d.saved /\ e.attr = d.attr
    BY <2>1, Zenon DEF Fields
  <2>5. Parsing(e)
    BY <1>0, <2>1, <2>3, <2>4, Zenon DEF Parsing
  <2>6. QED
    BY <2>1, <2>2, <2>5, ParserMoves, Zenon
<1>2. CASE ~(c = ";" /\ d.npar < NPAR - 1) /\ c \in Digits
  <2> DEFINE new == [d.par EXCEPT ![d.npar] = 10 * @ + Value[c]]
             e == [d EXCEPT !.par = new]
  <2>1. Parameter(d, c) = [d EXCEPT !.par[d.npar] = 10 * @ + Value[c]]
    <3>1. c # ";"
      BY <1>2, Zenon DEF Digits
    <3>2. QED
      BY <1>2, <3>1, Zenon DEF Parameter
  <2>2. Parameter(d, c) = e
    BY <2>1, Zenon
  <2>3. new \in [0 .. NPAR - 1 -> Nat]
    <3>1. d.npar \in 0 .. NPAR - 1 /\ d.par \in [0 .. NPAR - 1 -> Nat] /\ Value[c] \in Nat
      BY <1>0, <1>2, Tables, Zenon DEF Parsing
    <3>2. 10 * d.par[d.npar] + Value[c] \in Nat
      <4>1. d.par[d.npar] \in Nat
        BY <3>1, Zenon
      <4>2. QED
        BY <3>1, <4>1
    <3>3. QED
      BY <3>1, <3>2
  <2> HIDE DEF new
  <2>4. DOMAIN e = Fields /\ e.par = new /\ \A f \in Fields \ {"par"} : e[f] = d[f]
    BY <1>0, Zenon DEF Fields
  <2> HIDE DEF e
  <2>5. e.state = d.state /\ e.npar = d.npar /\ e.saved = d.saved /\ e.attr = d.attr
    BY <2>4, Zenon DEF Fields
  <2>6. Parsing(e)
    BY <1>0, <2>3, <2>4, <2>5, Zenon DEF Parsing
  <2>7. QED
    BY <2>2, <2>4, <2>6, ParserMoves, Zenon
<1>3. CASE ~(c = ";" /\ d.npar < NPAR - 1) /\ c \notin Digits
  <2>1. Parameter(d, c) = [Final(d, c) EXCEPT !.state = 0]
    BY <1>3, Zenon DEF Parameter
  <2>2. Sound(Final(d, c))
    BY FinalIsSound, Zenon
  <2>3. 0 \in 0 .. 3
    OBVIOUS
  <2>4. QED
    BY <2>1, <2>2, <2>3, StateIsSound, Zenon
<1>4. QED
  BY <1>1, <1>2, <1>3, Zenon

\* State 2 of con_write.
LEMMA ResetIsSound ==
  ASSUME NEW d, Sound(d), NEW c
  PROVE  Sound([d EXCEPT !.par = [i \in 0 .. NPAR - 1 |-> 0], !.npar = 0, !.state = 3, !.ques = c = "?"])
<1> DEFINE none == [i \in 0 .. NPAR - 1 |-> 0]
           n == [d EXCEPT !.par = none, !.npar = 0, !.state = 3, !.ques = c = "?"]
<1>0. DOMAIN d = Fields /\ Parsing(d)
  BY DEF Sound
<1>2. none \in [0 .. NPAR - 1 -> Nat] /\ 0 \in 0 .. NPAR - 1 /\ 3 \in 0 .. 3
  BY ConsoleAssumption
<1> HIDE DEF none
<1>3. /\ DOMAIN n = Fields /\ n.par = none /\ n.npar = 0 /\ n.state = 3
      /\ \A f \in Fields \ {"par", "npar", "state", "ques"} : n[f] = d[f]
  BY <1>0, Zenon DEF Fields
<1> HIDE DEF n
<1>4. n.saved = d.saved /\ n.attr = d.attr
  BY <1>3, Zenon DEF Fields
<1>5. Parsing(n)
  BY <1>0, <1>2, <1>3, <1>4, Zenon DEF Parsing
<1>6. Sound(n)
  BY <1>3, <1>5, ParserMoves, Zenon
<1>7. QED
  BY <1>6 DEF n, none

LEMMA FirstParameterIsSound ==
  ASSUME NEW d, Sound(d), NEW c
  PROVE  Sound(FirstParameter(d, c))
<1> DEFINE n == [d EXCEPT !.par = [i \in 0 .. NPAR - 1 |-> 0], !.npar = 0, !.state = 3, !.ques = c = "?"]
<1>1. FirstParameter(d, c) = IF c = "?" THEN n ELSE Parameter(n, c)
  BY ZenonT(30) DEF FirstParameter
<1>2. Sound(n)
  BY ResetIsSound, Zenon
<1> HIDE DEF n
<1>3. QED
  BY <1>1, <1>2, ParameterIsSound, Zenon

\* State 1 of con_write.
LEMMA EscapeIsSound ==
  ASSUME NEW d, Sound(d), NEW c
  PROVE  Sound(Escape(d, c))
<1> DEFINE n == [d EXCEPT !.state = 0]
<1>1. 0 \in 0 .. 3 /\ 2 \in 0 .. 3
  OBVIOUS
<1>2. Sound(n) /\ Sound([d EXCEPT !.state = 2])
  BY <1>1, StateIsSound, Zenon
<1>3. Sound(Goto(n, 0, d.y + 1)) /\ Sound(Ri(n)) /\ Sound(Lf(n))
  BY <1>2, GotoIsSound, RiIsSound, LfIsSound, Zenon
<1>4. Sound(SaveCur(n)) /\ Sound(RestoreCur(n))
  BY <1>2, SettingsAreSound
<1>5. QED
  BY <1>2, <1>3, <1>4, Zenon DEF Escape

\* State 0 of con_write.
LEMMA PlainIsSound ==
  ASSUME NEW d, Sound(d), NEW c
  PROVE  Sound(Plain(d, c))
<1>1. Sound([d EXCEPT !.state = 1])
  <2>1. 1 \in 0 .. 3
    OBVIOUS
  <2>2. QED
    BY <2>1, StateIsSound, Zenon
<1>2. Sound(Lf(d)) /\ Sound(Cr(d)) /\ Sound(Del(d)) /\ Sound(Bs(d)) /\ Sound(Tab(d)) /\ Sound(Put(d, c))
  BY LfIsSound, CrIsSound, TabIsSound, PutIsSound, Zenon
<1>3. QED
  BY <1>1, <1>2, Zenon DEF Plain

\* con_write of one character leaves the display sound and the cursor shown.
LEMMA WrittenIsSound ==
  ASSUME NEW d, Sound(d), NEW c
  PROVE  Sound(Written(d, c)) /\ Written(d, c).cursor = Written(d, c).pos
<1> DEFINE e == CASE d.state = 0 -> Plain(d, c)
                  [] d.state = 1 -> Escape(d, c)
                  [] d.state = 2 -> FirstParameter(d, c)
                  [] OTHER -> Parameter(d, c)
           n == [e EXCEPT !.cursor = e.pos]
<1>1. Sound(e)
  BY PlainIsSound, EscapeIsSound, FirstParameterIsSound, ParameterIsSound
<1>2. Written(d, c) = n
  BY Zenon DEF Written, SetCursor
<1> HIDE DEF e
<1>3. DOMAIN e = Fields /\ Parsing(e)
  BY <1>1 DEF Sound
<1>4. DOMAIN n = Fields /\ n.cursor = e.pos /\ \A f \in Fields \ {"cursor"} : n[f] = e[f]
  BY <1>3, Zenon DEF Fields
<1> HIDE DEF n
<1>5. /\ n.state = e.state /\ n.npar = e.npar /\ n.par = e.par /\ n.saved = e.saved
      /\ n.attr = e.attr /\ n.pos = e.pos
  BY <1>4, Zenon DEF Fields
<1>6. Parsing(n)
  BY <1>3, <1>5, Zenon DEF Parsing
<1>7. Sound(n)
  BY <1>1, <1>4, <1>6, ParserMoves, Zenon
<1>8. QED
  BY <1>2, <1>4, <1>5, <1>7, Zenon

\* con_write keeps the display sound: the invariant behind the two theorems.
LEMMA DisplayStaysSound == KSpec => [](Sound(k) /\ k.cursor = k.pos)
<1> DEFINE IInv == Sound(k) /\ k.cursor = k.pos
<1>1. ASSUME NEW screen, NEW x \in 0 .. COLUMNS - 1, NEW y \in 0 .. LINES - 1, KInit(screen, x, y)
      PROVE  IInv
  <2>1. /\ DOMAIN k = Fields /\ k.origin = 0 /\ k.scr_end = Screen /\ k.pos = ROW(y) + x /\ k.x = x
        /\ k.y = y /\ k.top = 0 /\ k.bottom = LINES /\ k.state = 0 /\ k.npar = 0
        /\ k.par = [i \in 0 .. NPAR - 1 |-> 0] /\ k.attr = 7 /\ k.saved = <<0, 0>>
        /\ k.wild = FALSE /\ k.start = 0 /\ k.cursor = k.pos
    BY <1>1, Zenon DEF KInit, Fields, ROW
  <2>2. ROW(y) \in Nat /\ Screen \in Nat
    BY Rows
  <2>3. Window(k)
    BY <2>1, <2>2, ConsoleAssumption DEF Window, Screen
  <2>4. Placed(k)
    BY <2>1, <2>2, ConsoleAssumption DEF Placed
  <2>5. Parsing(k)
    BY <2>1, ConsoleAssumption DEF Parsing
  <2>6. QED
    BY <2>1, <2>3, <2>4, <2>5 DEF Sound
<1>2. IInv /\ [KNext]_k => IInv'
  <2>1. ASSUME IInv, NEW c, k' = Written(k, c) PROVE IInv'
    BY <2>1, WrittenIsSound, Zenon
  <2>2. ASSUME IInv, k' = k PROVE IInv'
    BY <2>2, Zenon
  <2>3. QED
    BY <2>1, <2>2, Zenon DEF KNext, ConWrite
<1>3. QED
  <2>1. KSpec => IInv
    BY <1>1, Zenon DEF KSpec
  <2>2. QED
    BY <1>2, <2>1, PTL DEF KSpec

\* con_write, for every size of the screen and of video memory and any characters:
\* the cursor is shown where x and y say, on a screen that lies inside video memory,
\* and nothing is stored beside it.
THEOREM ScreenStaysSound == KSpec => []ScreenSound
<1>1. Sound(k) /\ k.cursor = k.pos => ScreenSound
  <2>1. SUFFICES ASSUME Sound(k), k.cursor = k.pos PROVE ScreenSound
    OBVIOUS
  <2>2. Geometry(k) /\ Parsing(k) /\ Window(k)
    BY <2>1, Numbers, Zenon DEF Sound
  <2>3. KTypeOK
    <3>1. /\ k.top \in 0 .. LINES - 1 /\ k.bottom \in 1 .. LINES /\ k.top < k.bottom /\ LINES \in Nat
          /\ k.x \in 0 .. COLUMNS /\ k.y \in 0 .. LINES - 1
          /\ k.state \in 0 .. 3 /\ k.npar \in 0 .. NPAR - 1 /\ k.attr \in {7, 15, 112}
      BY <2>2, Zenon DEF Geometry, Parsing
    <3>2. 0 <= k.top /\ k.bottom <= LINES
      BY <3>1
    <3>3. QED
      BY <3>1, <3>2, Zenon DEF KTypeOK
  <2>4. CursorIsPosition
    BY <2>1, <2>2 DEF CursorIsPosition, Geometry, Window, ROW
  <2>5. ScreenInMemory
    BY <2>2 DEF ScreenInMemory, Geometry, Window
  <2>6. QED
    BY <2>3, <2>4, <2>5 DEF ScreenSound
<1>2. QED
  BY <1>1, DisplayStaysSound, PTL

-----------------------------------------------------------------------------
\* What is read after an erasure and after a move.
LEMMA ReadErased ==
  ASSUME NEW d, DOMAIN d = Fields, NEW s \in Int, NEW n \in Int, NEW i \in Cells
  PROVE  Erase(d, s, n).vram[i] = IF i \in s .. s + n - 1 THEN Blank ELSE d.vram[i]
<1> DEFINE cells == [j \in s .. s + n - 1 |-> Blank]
           v == [j \in Cells |-> IF j \in s .. s + n - 1 THEN cells[j] ELSE d.vram[j]]
<1>1. Erase(d, s, n).vram = v
  BY Zenon DEF Erase, Store, Fields
<1>2. v[i] = IF i \in s .. s + n - 1 THEN Blank ELSE d.vram[i]
  BY Zenon
<1>3. QED
  BY <1>1, <1>2, Zenon

LEMMA ReadMoved ==
  ASSUME NEW d, DOMAIN d = Fields, NEW to \in Int, NEW from \in Int, NEW n \in Int, NEW i \in Cells
  PROVE  /\ DOMAIN Move(d, to, from, n) = Fields
         /\ Move(d, to, from, n).vram[i] = IF i \in to .. to + n - 1 THEN d.vram[from + i - to] ELSE d.vram[i]
<1> DEFINE cells == [j \in to .. to + n - 1 |-> d.vram[from + j - to]]
           v == [j \in Cells |-> IF j \in to .. to + n - 1 THEN cells[j] ELSE d.vram[j]]
<1>1. Move(d, to, from, n).vram = v /\ DOMAIN Move(d, to, from, n) = Fields
  BY Zenon DEF Move, Store, Fields
<1>2. v[i] = IF i \in to .. to + n - 1 THEN d.vram[from + i - to] ELSE d.vram[i]
  BY Zenon
<1>3. QED
  BY <1>1, <1>2, Zenon

\* What is read after a move and the erasure that follows it.
LEMMA ReadBoth ==
  ASSUME NEW d, DOMAIN d = Fields, NEW to \in Int, NEW from \in Int, NEW n \in Int,
         NEW s \in Int, NEW l \in Int, NEW i \in Cells
  PROVE  Erase(Move(d, to, from, n), s, l).vram[i] =
           IF i \in s .. s + l - 1 THEN Blank
           ELSE IF i \in to .. to + n - 1 THEN d.vram[from + i - to] ELSE d.vram[i]
<1>1. /\ DOMAIN Move(d, to, from, n) = Fields
      /\ Move(d, to, from, n).vram[i] = IF i \in to .. to + n - 1 THEN d.vram[from + i - to] ELSE d.vram[i]
  BY ReadMoved
<1> DEFINE m == Move(d, to, from, n)
<1> HIDE DEF m
<1>2. Erase(m, s, l).vram[i] = IF i \in s .. s + l - 1 THEN Blank ELSE m.vram[i]
  BY <1>1, ReadErased DEF m
<1>3. QED
  BY <1>1, <1>2, Zenon DEF m

\* Earlier rows lie before later ones, and adding up rows is adding up their cells.
LEMMA RowOrder ==
  ASSUME NEW r \in 0 .. LINES, NEW s \in 0 .. LINES, r < s
  PROVE  /\ ROW(r) \in Nat /\ ROW(s) \in Nat /\ ROW(r) + COLUMNS <= ROW(s) /\ ROW(s) <= Screen
         /\ ROW(r) + ROW(s - r - 1) = ROW(s - 1) /\ ROW(s - 1) = ROW(s) - COLUMNS
         /\ ROW(r + 1) = ROW(r) + COLUMNS
<1>1. COLUMNS \in Nat /\ LINES \in Nat /\ r \in Nat /\ s \in Nat /\ s - r - 1 \in Nat /\ LINES - s \in Nat
  BY ConsoleAssumption
<1>2. /\ r * COLUMNS \in Nat /\ s * COLUMNS \in Nat /\ (s - r - 1) * COLUMNS \in Nat
      /\ (LINES - s) * COLUMNS \in Nat
  BY <1>1
<1>3. s * COLUMNS = r * COLUMNS + COLUMNS + (s - r - 1) * COLUMNS
  BY <1>1
<1>4. LINES * COLUMNS = s * COLUMNS + (LINES - s) * COLUMNS
  BY <1>1
<1>5. (s - 1) * COLUMNS = s * COLUMNS - COLUMNS /\ (r + 1) * COLUMNS = r * COLUMNS + COLUMNS
  BY <1>1
<1>6. QED
  BY <1>1, <1>2, <1>3, <1>4, <1>5 DEF ROW, Screen

\* The rows of a region after scrup and after scrdown.
UpTo(e, d, t, b) ==
  \A r \in 0 .. LINES - 1 :
    RowOf(e, r) = IF r < t \/ r >= b THEN RowOf(d, r) ELSE IF r = b - 1 THEN BlankRow ELSE RowOf(d, r + 1)

DownTo(e, d, t, b) ==
  \A r \in 0 .. LINES - 1 :
    RowOf(e, r) = IF r < t \/ r >= b THEN RowOf(d, r) ELSE IF r = t THEN BlankRow ELSE RowOf(d, r - 1)

\* Rows compare as their first cells do.
LEMMA RowCompare ==
  ASSUME NEW r \in 0 .. LINES - 1, NEW s \in 0 .. LINES
  PROVE  (r < s => ROW(r) + COLUMNS <= ROW(s)) /\ (r >= s => ROW(s) <= ROW(r)) /\ ROW(s) \in Nat
         /\ ROW(s + 1) = ROW(s) + COLUMNS
<1>1. COLUMNS \in Nat /\ LINES \in Nat /\ r \in Nat /\ s \in Nat
  BY ConsoleAssumption
<1>2. r * COLUMNS \in Nat /\ s * COLUMNS \in Nat /\ (s + 1) * COLUMNS = s * COLUMNS + COLUMNS
  BY <1>1
<1>3. r < s => (s - r - 1) * COLUMNS \in Nat /\ s * COLUMNS = r * COLUMNS + COLUMNS + (s - r - 1) * COLUMNS
  <2>1. r < s => s - r - 1 \in Nat
    BY <1>1
  <2>2. QED
    BY <1>1, <2>1
<1>4. r >= s => (r - s) * COLUMNS \in Nat /\ r * COLUMNS = s * COLUMNS + (r - s) * COLUMNS
  <2>1. r >= s => r - s \in Nat
    BY <1>1
  <2>2. QED
    BY <1>1, <2>1
<1>5. QED
  BY <1>1, <1>2, <1>3, <1>4 DEF ROW

Cell(d, r, c) == d.vram[d.origin + r * COLUMNS + c]

\* Rows are equal, or blank, when their cells are.
LEMMA EqualRows ==
  ASSUME NEW e, NEW d, NEW r, NEW s, \A c \in 0 .. COLUMNS - 1 : Cell(e, r, c) = Cell(d, s, c)
  PROVE  RowOf(e, r) = RowOf(d, s)
BY Zenon DEF RowOf, Cell

LEMMA EmptyRow ==
  ASSUME NEW e, NEW r, \A c \in 0 .. COLUMNS - 1 : Cell(e, r, c) = Blank
  PROVE  RowOf(e, r) = BlankRow
BY Zenon DEF RowOf, BlankRow, Cell

\* scrup and scrdown of part of the screen shift its rows by one.
LEMMA RegionRows ==
  ASSUME NEW d, Sound(d), NEW t \in 0 .. LINES - 1, NEW b \in 1 .. LINES, t < b
  PROVE  /\ UpTo(Erase(Move(d, d.origin + ROW(t), d.origin + ROW(t + 1), ROW(b - t - 1)),
                       d.origin + ROW(b - 1), COLUMNS), d, t, b)
         /\ DownTo(Scrdown(d, t, b), d, t, b)
<1> DEFINE o == d.origin
           up == Erase(Move(d, o + ROW(t), o + ROW(t + 1), ROW(b - t - 1)), o + ROW(b - 1), COLUMNS)
           down == Erase(Move(d, o + ROW(t + 1), o + ROW(t), ROW(b - t - 1)), o + ROW(t), COLUMNS)
<1>0. Geometry(d)
  BY Numbers
<1>1. up.origin = o /\ down.origin = o
  <2>1. Same(up, d) /\ Same(down, d)
    BY RegionMoves, Zenon DEF Scrdown
  <2> HIDE DEF up, down
  <2>2. QED
    BY <2>1, Zenon DEF Same, Fields
<1>2. /\ t \in 0 .. LINES /\ b \in 0 .. LINES /\ b - 1 \in 0 .. LINES - 1 /\ t + 1 \in 0 .. LINES
      /\ COLUMNS \in Nat \ {0} /\ LINES \in Nat /\ SCREEN_END \in Nat
      /\ o \in Nat /\ o + Screen <= SCREEN_END /\ Screen \in Nat /\ DOMAIN d = Fields
  BY <1>0 DEF Geometry
<1>3. /\ ROW(t) \in Nat /\ ROW(b - 1) \in Nat /\ ROW(t + 1) = ROW(t) + COLUMNS
      /\ ROW(b - t - 1) = ROW(b - 1) - ROW(t) /\ ROW(b) = ROW(b - 1) + COLUMNS
  <2>1. b - t - 1 \in 0 .. LINES - 1
    BY <1>2
  <2>2. ROW(b - t - 1) \in Nat
    BY <2>1, Rows
  <2>3. QED
    BY <1>2, <2>2, RowOrder
<1> HIDE DEF o
<1>4. ASSUME NEW r \in 0 .. LINES - 1, NEW c \in 0 .. COLUMNS - 1
      PROVE  /\ Cell(up, r, c) = IF r < t \/ r >= b THEN Cell(d, r, c)
                                 ELSE IF r = b - 1 THEN Blank ELSE Cell(d, r + 1, c)
             /\ Cell(down, r, c) = IF r < t \/ r >= b THEN Cell(d, r, c)
                                   ELSE IF r = t THEN Blank ELSE Cell(d, r - 1, c)
  <2> DEFINE i == o + ROW(r) + c
  <2>1. /\ ROW(r) \in Nat /\ ROW(r) + COLUMNS <= Screen /\ ROW(r + 1) = ROW(r) + COLUMNS
        /\ ROW(r - 1) = ROW(r) - COLUMNS /\ r \in Nat /\ c \in Nat /\ c < COLUMNS
    <3>1. (r - 1) * COLUMNS = r * COLUMNS - COLUMNS
      BY <1>2
    <3>2. QED
      BY <1>2, <3>1, Rows DEF ROW
  <2>2. i \in Cells /\ i \in Int
    BY <1>2, <2>1 DEF Cells
  <2>3. (r < t => ROW(r) + COLUMNS <= ROW(t)) /\ (r >= t => ROW(t) <= ROW(r))
    BY <1>2, RowCompare
  <2>4. (r < t + 1 => ROW(r) + COLUMNS <= ROW(t + 1)) /\ (r >= t + 1 => ROW(t + 1) <= ROW(r))
    BY <1>2, RowCompare
  <2>5. (r < b => ROW(r) + COLUMNS <= ROW(b)) /\ (r >= b => ROW(b) <= ROW(r))
    BY <1>2, RowCompare
  <2>6. (r < b - 1 => ROW(r) + COLUMNS <= ROW(b - 1)) /\ (r >= b - 1 => ROW(b - 1) <= ROW(r))
    <3>1. b - 1 \in 0 .. LINES
      BY <1>2
    <3>2. QED
      BY <3>1, RowCompare
  <2>7. /\ o + ROW(t) \in Int /\ o + ROW(t + 1) \in Int /\ ROW(b - t - 1) \in Int
        /\ o + ROW(b - 1) \in Int /\ COLUMNS \in Int
    BY <1>2, <1>3
  <2>8. up.vram[i] =
          IF i \in o + ROW(b - 1) .. o + ROW(b - 1) + COLUMNS - 1 THEN Blank
          ELSE IF i \in o + ROW(t) .. o + ROW(t) + ROW(b - t - 1) - 1
               THEN d.vram[o + ROW(t + 1) + i - (o + ROW(t))] ELSE d.vram[i]
    BY <1>2, <2>2, <2>7, ReadBoth
  <2>9. down.vram[i] =
          IF i \in o + ROW(t) .. o + ROW(t) + COLUMNS - 1 THEN Blank
          ELSE IF i \in o + ROW(t + 1) .. o + ROW(t + 1) + ROW(b - t - 1) - 1
               THEN d.vram[o + ROW(t) + i - (o + ROW(t + 1))] ELSE d.vram[i]
    BY <1>2, <2>2, <2>7, ReadBoth
  <2>10. /\ o + ROW(t + 1) + i - (o + ROW(t)) = o + ROW(r + 1) + c
         /\ o + ROW(t) + i - (o + ROW(t + 1)) = o + ROW(r - 1) + c
    BY <1>2, <1>3, <2>1
  <2> HIDE DEF up, down
  <2>11. up.vram[i] = IF r < t \/ r >= b THEN d.vram[i]
                      ELSE IF r = b - 1 THEN Blank ELSE d.vram[o + ROW(r + 1) + c]
    <3>1. (i \in o + ROW(b - 1) .. o + ROW(b - 1) + COLUMNS - 1) = (r = b - 1)
      BY <1>2, <1>3, <2>1, <2>5, <2>6
    <3>2. (i \in o + ROW(t) .. o + ROW(t) + ROW(b - t - 1) - 1) = (r >= t /\ r < b - 1)
      BY <1>2, <1>3, <2>1, <2>3, <2>6
    <3>3. QED
      BY <1>2, <2>1, <2>8, <2>10, <3>1, <3>2
  <2>12. down.vram[i] = IF r < t \/ r >= b THEN d.vram[i]
                        ELSE IF r = t THEN Blank ELSE d.vram[o + ROW(r - 1) + c]
    <3>1. (i \in o + ROW(t) .. o + ROW(t) + COLUMNS - 1) = (r = t)
      BY <1>2, <1>3, <2>1, <2>3, <2>4
    <3>2. (i \in o + ROW(t + 1) .. o + ROW(t + 1) + ROW(b - t - 1) - 1) = (r > t /\ r < b)
      BY <1>2, <1>3, <2>1, <2>4, <2>5
    <3>3. QED
      BY <1>2, <2>1, <2>9, <2>10, <3>1, <3>2
  <2>13. /\ Cell(up, r, c) = up.vram[i] /\ Cell(down, r, c) = down.vram[i] /\ Cell(d, r, c) = d.vram[i]
         /\ Cell(d, r + 1, c) = d.vram[o + ROW(r + 1) + c] /\ Cell(d, r - 1, c) = d.vram[o + ROW(r - 1) + c]
    BY <1>1, Zenon DEF Cell, ROW, o
  <2>14. QED
    BY <2>11, <2>12, <2>13, Zenon
<1>5. UpTo(up, d, t, b)
  <2> HIDE DEF up, down
  <2>1. SUFFICES ASSUME NEW r \in 0 .. LINES - 1
                 PROVE  RowOf(up, r) = IF r < t \/ r >= b THEN RowOf(d, r)
                                       ELSE IF r = b - 1 THEN BlankRow ELSE RowOf(d, r + 1)
    BY Zenon DEF UpTo
  <2>2. CASE r < t \/ r >= b
    BY <1>4, <2>2, EqualRows
  <2>3. CASE ~(r < t \/ r >= b) /\ r = b - 1
    BY <1>4, <2>3, EmptyRow
  <2>4. CASE ~(r < t \/ r >= b) /\ ~(r = b - 1)
    BY <1>4, <2>4, EqualRows
  <2>5. QED
    BY <2>2, <2>3, <2>4, Zenon
<1>6. DownTo(down, d, t, b)
  <2> HIDE DEF up, down
  <2>1. SUFFICES ASSUME NEW r \in 0 .. LINES - 1
                 PROVE  RowOf(down, r) = IF r < t \/ r >= b THEN RowOf(d, r)
                                       ELSE IF r = t THEN BlankRow ELSE RowOf(d, r - 1)
    BY Zenon DEF DownTo
  <2>2. CASE r < t \/ r >= b
    BY <1>4, <2>2, EqualRows
  <2>3. CASE ~(r < t \/ r >= b) /\ r = t
    BY <1>4, <2>3, EmptyRow
  <2>4. CASE ~(r < t \/ r >= b) /\ ~(r = t)
    BY <1>4, <2>4, EqualRows
  <2>5. QED
    BY <2>2, <2>3, <2>4, Zenon
<1>7. QED
  BY <1>5, <1>6, Zenon DEF o, Scrdown

\* scrup of the whole screen: the same, for either way of moving the origin.
LEMMA ScreenRows ==
  ASSUME NEW d, Sound(d)
  PROVE  UpTo(Scrup(d, 0, LINES), d, 0, LINES)
<1> DEFINE n == [d EXCEPT !.origin = @ + COLUMNS, !.pos = @ + COLUMNS, !.scr_end = @ + COLUMNS]
           o == d.origin
           e == Scrup(d, 0, LINES)
<1>0. Geometry(d)
  BY Numbers
<1>1. /\ DOMAIN d = Fields /\ COLUMNS \in Nat \ {0} /\ LINES \in Nat \ {0} /\ SCREEN_END \in Nat
      /\ LINES - 1 \in 0 .. LINES - 1 /\ LINES \in 0 .. LINES
      /\ o \in Nat /\ d.scr_end = o + Screen /\ o + Screen <= SCREEN_END
  BY <1>0 DEF Geometry
<1>2. n.origin = o + COLUMNS /\ n.scr_end = d.scr_end + COLUMNS /\ n.vram = d.vram /\ DOMAIN n = Fields
  BY <1>1, Zenon DEF Fields
<1>3. Screen \in Nat /\ Kept \in Nat /\ Screen = Kept + COLUMNS
  BY <1>1, Rows DEF Kept
<1>4. e = SetOrigin(IF MustRewind(n)
                    THEN Rewound(Erase(Move(n, 0, n.origin, Kept), Kept, COLUMNS))
                    ELSE Erase(n, n.scr_end - COLUMNS, COLUMNS))
  BY Zenon DEF Scrup
<1> HIDE DEF n, e, o
<1>5. ASSUME NEW r \in 0 .. LINES - 1, NEW c \in 0 .. COLUMNS - 1
      PROVE  Cell(e, r, c) = IF r = LINES - 1 THEN Blank ELSE Cell(d, r + 1, c)
  <2>1. /\ ROW(r) \in Nat /\ ROW(r) + COLUMNS <= Screen /\ ROW(r + 1) = ROW(r) + COLUMNS
        /\ r \in Nat /\ c \in Nat /\ c < COLUMNS
    BY <1>1, Rows
  <2>2. (r < LINES - 1 => ROW(r) + COLUMNS <= Kept) /\ (r >= LINES - 1 => Kept <= ROW(r))
    <3>1. LINES - 1 \in 0 .. LINES
      BY <1>1
    <3>2. QED
      BY <3>1, RowCompare DEF Kept
  <2>3. Cell(d, r + 1, c) = d.vram[o + COLUMNS + ROW(r) + c]
    <3>1. o + ROW(r + 1) + c = o + COLUMNS + ROW(r) + c
      BY <1>1, <2>1
    <3>2. QED
      BY <3>1, Zenon DEF Cell, ROW, o
  <2>4. CASE MustRewind(n)
    <3> DEFINE m == Erase(Move(n, 0, n.origin, Kept), Kept, COLUMNS)
               i == ROW(r) + c
    <3>1. i \in Cells /\ 0 \in Int /\ n.origin \in Int /\ Kept \in Int /\ COLUMNS \in Int
      BY <1>1, <1>2, <1>3, <2>1 DEF Cells
    <3>2. m.vram[i] = IF i \in Kept .. Kept + COLUMNS - 1 THEN Blank
                      ELSE IF i \in 0 .. 0 + Kept - 1 THEN n.vram[n.origin + i - 0] ELSE n.vram[i]
      BY <1>2, <3>1, ReadBoth
    <3>3. (i \in Kept .. Kept + COLUMNS - 1) = (r = LINES - 1) /\ (i \in 0 .. 0 + Kept - 1) = (r # LINES - 1)
          /\ n.origin + i - 0 = o + COLUMNS + ROW(r) + c
      BY <1>1, <1>2, <1>3, <2>1, <2>2
    <3>4. m.vram[i] = IF r = LINES - 1 THEN Blank ELSE d.vram[o + COLUMNS + ROW(r) + c]
      BY <1>2, <3>2, <3>3, Zenon
    <3>5. DOMAIN m = Fields
      BY <1>2, Zenon DEF Erase, Move, Store, Fields
    <3>6. e = SetOrigin(Rewound(m))
      BY <1>4, <2>4, Zenon
    <3> HIDE DEF m
    <3>7. e.vram = m.vram /\ e.origin = 0
      BY <3>5, <3>6, Zenon DEF SetOrigin, Rewound, Fields
    <3>8. 0 + ROW(r) + c = i
      BY <2>1
    <3>9. Cell(e, r, c) = m.vram[i]
      BY <3>7, <3>8, Zenon DEF Cell, ROW
    <3>10. QED
      BY <2>3, <3>4, <3>9, Zenon
  <2>5. CASE ~MustRewind(n)
    <3> DEFINE s == n.scr_end - COLUMNS
               m == Erase(n, s, COLUMNS)
               i == o + COLUMNS + ROW(r) + c
    <3>1. i \in Cells /\ s \in Int /\ COLUMNS \in Int
      BY <1>1, <1>2, <1>3, <2>1, <2>5 DEF Cells, MustRewind
    <3>2. m.vram[i] = IF i \in s .. s + COLUMNS - 1 THEN Blank ELSE n.vram[i]
      BY <1>2, <3>1, ReadErased
    <3>3. (i \in s .. s + COLUMNS - 1) = (r = LINES - 1)
      BY <1>1, <1>2, <1>3, <2>1, <2>2
    <3>4. m.vram[i] = IF r = LINES - 1 THEN Blank ELSE d.vram[i]
      BY <1>2, <3>2, <3>3, Zenon
    <3>5. DOMAIN m = Fields /\ m.origin = n.origin
      BY <1>2, Zenon DEF Erase, Store, Fields
    <3>6. e = SetOrigin(m)
      BY <1>4, <2>5, Zenon
    <3> HIDE DEF m
    <3>7. e.vram = m.vram /\ e.origin = o + COLUMNS
      BY <1>2, <3>5, <3>6, Zenon DEF SetOrigin, Fields
    <3>8. Cell(e, r, c) = m.vram[i]
      BY <3>7, Zenon DEF Cell, ROW
    <3>9. QED
      BY <2>3, <3>4, <3>8, Zenon
  <2>6. QED
    BY <2>4, <2>5
<1>6. SUFFICES ASSUME NEW r \in 0 .. LINES - 1
               PROVE  RowOf(e, r) = IF r = LINES - 1 THEN BlankRow ELSE RowOf(d, r + 1)
  <2>1. \A r \in 0 .. LINES - 1 : ~(r < 0 \/ r >= LINES)
    BY <1>1
  <2>2. QED
    BY <2>1, Zenon DEF UpTo, e
<1>7. CASE r = LINES - 1
  BY <1>5, <1>7, EmptyRow
<1>8. CASE r # LINES - 1
  BY <1>5, <1>8, EqualRows
<1>9. QED
  BY <1>7, <1>8

\* scrup: for the whole screen and for a part of it, whose origin stays.
LEMMA ScrupRows ==
  ASSUME NEW d, Sound(d), NEW t \in 0 .. LINES - 1, NEW b \in 1 .. LINES, t < b
  PROVE  /\ UpTo(Scrup(d, t, b), d, t, b)
         /\ ~(t = 0 /\ b = LINES) => Scrup(d, t, b).origin = d.origin
<1>1. CASE t = 0 /\ b = LINES
  BY <1>1, ScreenRows, Zenon
<1>2. CASE ~(t = 0 /\ b = LINES)
  <2> DEFINE e == Erase(Move(d, d.origin + ROW(t), d.origin + ROW(t + 1), ROW(b - t - 1)),
                        d.origin + ROW(b - 1), COLUMNS)
  <2>1. Same(e, d) /\ UpTo(e, d, t, b)
    BY RegionMoves, RegionRows
  <2>2. Scrup(d, t, b) = e
    BY <1>2, Zenon DEF Scrup
  <2> HIDE DEF e
  <2>3. QED
    BY <2>1, <2>2, Zenon DEF Same, Fields
<1>3. QED
  BY <1>1, <1>2

-----------------------------------------------------------------------------
\* The rows go up by n, and empty ones come in below.
Shifted(e, d, n) ==
  \A r \in 0 .. LINES - 1 : RowOf(e, r) = IF r + n < LINES THEN RowOf(d, r + n) ELSE BlankRow

\* What OriginMoveIsScroll asks of a step from d to e.
Scrolled(e, d) ==
  e.origin # d.origin =>
    \E n \in 1 .. LINES : \A r \in 0 .. LINES - 1 :
      IF r + n < LINES THEN RowOf(e, r) = RowOf(d, r + n)
      ELSE RowOf(e, r) = BlankRow \/ (r = e.y /\ e.x = 1)

\* The same display to the eye.
Alike(e, d) == e.vram = d.vram /\ e.origin = d.origin /\ e.x = d.x /\ e.y = d.y

\* What is shown depends on video memory and the origin alone.
LEMMA AlikeRows ==
  ASSUME NEW d, NEW e, e.vram = d.vram, e.origin = d.origin
  PROVE  \A r : RowOf(e, r) = RowOf(d, r)
BY Zenon DEF RowOf

\* A shift is what OriginMoveIsScroll asks for.
LEMMA ShiftedIsScrolled ==
  ASSUME NEW d, NEW e, NEW n \in 1 .. LINES, Shifted(e, d, n)
  PROVE  Scrolled(e, d)
BY Zenon DEF Shifted, Scrolled

\* It does not matter which of two displays that are alike is looked at.
LEMMA AlikeScrolled ==
  ASSUME NEW d, NEW e, NEW c, NEW f, Scrolled(e, d), Alike(f, e), c.vram = d.vram, c.origin = d.origin
  PROVE  Scrolled(f, c)
<1>1. (\A r : RowOf(f, r) = RowOf(e, r)) /\ (\A r : RowOf(c, r) = RowOf(d, r))
  BY AlikeRows, Zenon DEF Alike
<1>2. QED
  BY <1>1, Zenon DEF Scrolled, Alike

\* scrup of the whole screen is a shift by one row.
LEMMA UpIsShifted ==
  ASSUME NEW d, NEW e, UpTo(e, d, 0, LINES)
  PROVE  Shifted(e, d, 1)
<1>1. LINES \in Nat
  BY ConsoleAssumption
<1>2. ASSUME NEW r \in 0 .. LINES - 1
      PROVE  RowOf(e, r) = IF r + 1 < LINES THEN RowOf(d, r + 1) ELSE BlankRow
  <2>1. ~(r < 0 \/ r >= LINES) /\ (r = LINES - 1) = ~(r + 1 < LINES)
    BY <1>1
  <2>2. RowOf(e, r) = IF r < 0 \/ r >= LINES THEN RowOf(d, r)
                      ELSE IF r = LINES - 1 THEN BlankRow ELSE RowOf(d, r + 1)
    BY Zenon DEF UpTo
  <2>3. QED
    BY <2>1, <2>2, Zenon
<1>3. QED
  BY <1>2, Zenon DEF Shifted

\* lf on the last row of the screen.
LEMMA LfScrolls ==
  ASSUME NEW d, Sound(d), Lf(d).origin # d.origin
  PROVE  Shifted(Lf(d), d, 1) /\ Lf(d).y = LINES - 1
<1>0. Geometry(d)
  BY Numbers
<1>1. ~(d.y + 1 < d.bottom)
  <2>1. SUFFICES ASSUME d.y + 1 < d.bottom PROVE FALSE
    OBVIOUS
  <2>2. Lf(d).origin = d.origin
    BY <1>0, <2>1, Zenon DEF Lf, Geometry, Fields
  <2>3. QED
    BY <2>2
<1>2. Lf(d) = Scrup(d, d.top, d.bottom)
  BY <1>1, Zenon DEF Lf
<1>3. UpTo(Lf(d), d, d.top, d.bottom) /\ Lf(d).y = d.y /\ d.top = 0 /\ d.bottom = LINES
  <2>1. d.top \in 0 .. LINES - 1 /\ d.bottom \in 1 .. LINES /\ d.top < d.bottom
    BY <1>0, Zenon DEF Geometry
  <2>2. /\ UpTo(Scrup(d, d.top, d.bottom), d, d.top, d.bottom)
        /\ ~(d.top = 0 /\ d.bottom = LINES) => Scrup(d, d.top, d.bottom).origin = d.origin
    BY <2>1, ScrupRows
  <2>3. Scrup(d, d.top, d.bottom).y = d.y
    BY <2>1, ScrollingIsSound
  <2>4. QED
    BY <1>2, <2>2, <2>3, Zenon
<1>4. d.y = LINES - 1
  <2>1. d.y \in 0 .. LINES - 1 /\ LINES \in Nat
    BY <1>0 DEF Geometry
  <2>2. QED
    BY <1>1, <1>3, <2>1
<1>5. QED
  BY <1>3, <1>4, UpIsShifted, Zenon

\* The wrap at the end of a row, from a column past it.
LEMMA WrapScrolls ==
  ASSUME NEW d, DOMAIN d = Fields, Window(d), Parsing(d), d.y \in 0 .. LINES - 1,
         d.x \in COLUMNS .. 2 * COLUMNS, d.pos = d.origin + ROW(d.y) + d.x, Wrap(d).origin # d.origin
  PROVE  Shifted(Wrap(d), d, 1) /\ Wrap(d).y = LINES - 1
<1> DEFINE e == [d EXCEPT !.x = @ - COLUMNS, !.pos = @ - COLUMNS]
<1>1. /\ e.y = d.y /\ e.pos = d.pos - COLUMNS /\ e.x = d.x - COLUMNS /\ DOMAIN e = Fields
      /\ e.vram = d.vram /\ e.origin = d.origin
      /\ \A f \in Fields \ {"x", "y", "pos"} : e[f] = d[f]
  BY Zenon DEF Fields
<1>2. ROW(d.y) \in Nat /\ d.origin \in Nat
  BY Rows DEF Window
<1>3. e.x \in 0 .. COLUMNS /\ e.y \in 0 .. LINES - 1 /\ e.pos = d.origin + ROW(e.y) + e.x
  BY <1>1, <1>2, ConsoleAssumption
<1> HIDE DEF e
<1>4. Sound(e)
  BY <1>1, <1>3, CursorMoves, Zenon
<1>5. Wrap(d) = Lf(e)
  BY Zenon DEF Wrap, e
<1>6. Shifted(Lf(e), e, 1) /\ Lf(e).y = LINES - 1
  BY <1>1, <1>4, <1>5, LfScrolls, Zenon
<1>7. \A r : RowOf(e, r) = RowOf(d, r)
  BY <1>1, AlikeRows, Zenon
<1>8. QED
  BY <1>5, <1>6, <1>7, Zenon DEF Shifted

\* The character that caused a wrap goes into the row that came in below.
LEMMA PutScrolls ==
  ASSUME NEW d, Sound(d), NEW ch
  PROVE  Scrolled(Put(d, ch), d)
<1>0. Geometry(d)
  BY Numbers
<1> DEFINE w == IF Wraps(d) THEN Wrap(d) ELSE d
           s == Store(w, w.pos, 1, [i \in {w.pos} |-> <<ch, d.attr>>])
           e == [s EXCEPT !.pos = @ + 1, !.x = @ + 1]
<1>1. Put(d, ch) = e
  BY Zenon DEF Put
<1>2. CASE ~Wraps(d)
  <2>1. w = d
    BY <1>2
  <2>2. s.origin = d.origin /\ DOMAIN s = Fields
    BY <1>0, <2>1, Zenon DEF Store, Fields, Geometry
  <2> HIDE DEF s
  <2>3. e.origin = d.origin
    BY <2>2, Zenon DEF Fields
  <2>4. QED
    BY <1>1, <2>3, Zenon DEF Scrolled
<1>3. CASE Wraps(d)
  <2>1. d.x = COLUMNS /\ d.x \in COLUMNS .. 2 * COLUMNS
    BY <1>0, <1>3 DEF Wraps, Geometry
  <2>2. Sound(Wrap(d)) /\ Wrap(d).x = d.x - COLUMNS
    BY <1>0, <2>1, WrapIsSound, Zenon DEF Geometry
  <2>3. w = Wrap(d) /\ Sound(w) /\ w.x = 0
    <3>1. d.x - COLUMNS = 0
      BY <1>0, <2>1 DEF Geometry
    <3>2. QED
      BY <1>3, <2>2, <3>1, Zenon
  <2>4. w.origin # d.origin => Shifted(w, d, 1) /\ w.y = LINES - 1
    BY <1>0, <2>1, <2>3, WrapScrolls, Zenon DEF Geometry
  <2> HIDE DEF w
  <2>5. Geometry(w)
    BY <2>3, Numbers
  <2>6. s.origin = w.origin /\ s.y = w.y /\ s.x = w.x /\ DOMAIN s = Fields
    BY <2>5, Zenon DEF Store, Fields, Geometry
  <2>7. ASSUME NEW i \in Cells, i # w.pos PROVE s.vram[i] = w.vram[i]
    <3> DEFINE cells == [j \in {w.pos} |-> <<ch, d.attr>>]
               v == [j \in Cells |-> IF j \in w.pos .. w.pos + 1 - 1 THEN cells[j] ELSE w.vram[j]]
    <3>1. s.vram = v
      BY <2>5, Zenon DEF Store, Fields, Geometry
    <3>2. i \notin w.pos .. w.pos + 1 - 1
      BY <2>5, <2>7 DEF Geometry
    <3>3. v[i] = w.vram[i]
      BY <3>2, Zenon
    <3>4. QED
      BY <3>1, <3>3, Zenon
  <2> HIDE DEF s
  <2>8. e.origin = w.origin /\ e.vram = s.vram /\ e.y = w.y /\ e.x = w.x + 1
    BY <2>6, Zenon DEF Fields
  <2> HIDE DEF e
  <2>9. e.x = 1
    BY <2>3, <2>8
  <2>10. SUFFICES ASSUME w.origin # d.origin PROVE Scrolled(e, d)
    BY <1>1, <2>8, Zenon DEF Scrolled
  <2>11. Shifted(w, d, 1) /\ w.y = LINES - 1
    BY <2>4, <2>10
  <2>12. ASSUME NEW r \in 0 .. LINES - 1, r + 1 < LINES PROVE RowOf(e, r) = RowOf(w, r)
    <3>1. ASSUME NEW c \in 0 .. COLUMNS - 1 PROVE Cell(e, r, c) = Cell(w, r, c)
      <4> DEFINE i == w.origin + ROW(r) + c
      <4>1. r < LINES - 1 /\ LINES - 1 \in 0 .. LINES /\ ROW(r) \in Nat /\ ROW(r) + COLUMNS <= Screen
        BY <2>5, <2>12, Rows DEF Geometry
      <4>2. ROW(r) + COLUMNS <= ROW(LINES - 1) /\ ROW(LINES - 1) \in Nat
        BY <4>1, RowCompare
      <4>3. w.pos = w.origin + ROW(LINES - 1) + 0
        BY <2>3, <2>5, <2>11 DEF Geometry
      <4>4. i \in Cells /\ i # w.pos
        BY <2>5, <4>1, <4>2, <4>3 DEF Geometry, Cells
      <4>5. QED
        BY <2>7, <2>8, <4>4, Zenon DEF Cell, ROW
    <3>2. QED
      BY <3>1, EqualRows
  <2>13. ASSUME NEW r \in 0 .. LINES - 1
         PROVE  IF r + 1 < LINES THEN RowOf(e, r) = RowOf(d, r + 1)
                ELSE RowOf(e, r) = BlankRow \/ (r = e.y /\ e.x = 1)
    <3>1. CASE r + 1 < LINES
      <4>1. RowOf(w, r) = RowOf(d, r + 1)
        BY <2>11, <3>1, Zenon DEF Shifted
      <4>2. QED
        BY <2>12, <3>1, <4>1, Zenon
    <3>2. CASE ~(r + 1 < LINES)
      <4>1. r = LINES - 1
        BY <2>5, <3>2 DEF Geometry
      <4>2. QED
        BY <2>8, <2>9, <2>11, <3>2, <4>1, Zenon
    <3>3. QED
      BY <3>1, <3>2
  <2>14. 1 \in 1 .. LINES
    BY <2>5 DEF Geometry
  <2>15. QED
    BY <2>13, <2>14, Zenon DEF Scrolled
<1>4. QED
  BY <1>2, <1>3

\* A tabulator beyond the last stop.
LEMMA TabScrolls ==
  ASSUME NEW d, Sound(d)
  PROVE  Scrolled(Tab(d), d)
<1>0. Geometry(d)
  BY Numbers
<1> DEFINE c == TAB - (d.x % TAB)
           t == [d EXCEPT !.x = @ + c, !.pos = @ + c]
<1>1. c \in Int /\ d.x + c \in 0 .. 2 * COLUMNS
  BY TabReach
<1> HIDE DEF c
<1>2. /\ t.y = d.y /\ t.pos = d.pos + c /\ t.x = d.x + c /\ DOMAIN t = Fields
      /\ \A f \in Fields \ {"x", "y", "pos"} : t[f] = d[f]
  BY <1>0, Zenon DEF Fields, Geometry
<1>3. t.pos = d.origin + ROW(t.y) + t.x /\ t.y \in 0 .. LINES - 1
  BY <1>0, <1>1, <1>2 DEF Geometry
<1>4. Tab(d) = IF t.x > COLUMNS THEN Wrap(t) ELSE t
  BY Zenon DEF Tab, c
<1> HIDE DEF t
<1>5. /\ t.origin = d.origin /\ t.scr_end = d.scr_end /\ t.wild = d.wild /\ t.vram = d.vram
      /\ t.top = d.top /\ t.bottom = d.bottom /\ t.state = d.state /\ t.npar = d.npar
      /\ t.par = d.par /\ t.attr = d.attr /\ t.saved = d.saved /\ t.start = d.start
  BY <1>2, Zenon DEF Fields
<1>6. CASE t.x > COLUMNS
  <2>1. t.x \in COLUMNS .. 2 * COLUMNS
    BY <1>0, <1>1, <1>2, <1>6 DEF Geometry
  <2>2. Window(t) /\ Parsing(t)
    BY <1>0, <1>5, Zenon DEF Geometry, Window, Parsing
  <2>3. t.pos = t.origin + ROW(t.y) + t.x
    BY <1>3, <1>5
  <2>4. Wrap(t).origin # t.origin => Shifted(Wrap(t), t, 1)
    BY <1>2, <1>3, <2>1, <2>2, <2>3, WrapScrolls, Zenon
  <2>5. Scrolled(Wrap(t), t)
    <3>1. 1 \in 1 .. LINES
      BY <1>0 DEF Geometry
    <3>2. QED
      BY <2>4, <3>1, ShiftedIsScrolled, Zenon DEF Scrolled
  <2>6. Alike(Wrap(t), Wrap(t))
    BY DEF Alike
  <2>7. QED
    BY <1>4, <1>5, <1>6, <2>5, <2>6, AlikeScrolled, Zenon
<1>7. CASE ~(t.x > COLUMNS)
  BY <1>4, <1>5, <1>7, Zenon DEF Scrolled
<1>8. QED
  BY <1>6, <1>7

\* What erases, moves the cursor or sets a mode leaves the origin alone.
Settled(d) ==
  /\ Cr(d).origin = d.origin /\ Bs(d).origin = d.origin /\ Del(d).origin = d.origin
  /\ \A x, y : Goto(d, x, y).origin = d.origin
  /\ \A n : CsiJ(d, n).origin = d.origin /\ CsiK(d, n).origin = d.origin
  /\ CsiM(d).origin = d.origin
  /\ \A t, b : Region(d, t, b).origin = d.origin
  /\ SaveCur(d).origin = d.origin /\ RestoreCur(d).origin = d.origin

LEMMA OriginStays ==
  ASSUME NEW d, Sound(d)
  PROVE  Settled(d)
<1>1. DOMAIN d = Fields
  BY DEF Sound
<1>2. ASSUME NEW e, DOMAIN e = Fields, NEW s, NEW l
      PROVE  Erase(e, s, l).origin = e.origin
  BY <1>2, Zenon DEF Erase, Store, Fields
<1>3. Cr(d).origin = d.origin /\ Bs(d).origin = d.origin /\ DOMAIN Bs(d) = Fields
  BY <1>1, Zenon DEF Cr, Bs, Fields
<1>4. Del(d).origin = d.origin
  BY <1>2, <1>3, ZenonT(30) DEF Del
<1>5. ASSUME NEW x, NEW y PROVE Goto(d, x, y).origin = d.origin /\ Region(d, x, y).origin = d.origin
  BY <1>1, Zenon DEF Goto, Region, Fields
<1>6. ASSUME NEW n PROVE CsiJ(d, n).origin = d.origin
  <2>1. CsiJ(d, n) \in {Erase(d, d.pos, d.scr_end - d.pos), Erase(d, d.origin, d.pos - d.origin),
                        Erase(d, d.origin, Screen), d}
    BY DEF CsiJ
  <2>2. \A s, l : Erase(d, s, l).origin = d.origin
    BY <1>1, <1>2, Zenon
  <2>3. QED
    BY <2>1, <2>2
<1>7. ASSUME NEW n PROVE CsiK(d, n).origin = d.origin
  <2>1. CsiK(d, n) \in {Erase(d, d.pos, COLUMNS - d.x), Erase(d, d.pos - d.x, d.x),
                        Erase(d, d.pos - d.x, COLUMNS), d}
    BY DEF CsiK
  <2>2. \A s, l : Erase(d, s, l).origin = d.origin
    BY <1>1, <1>2, Zenon
  <2>3. QED
    BY <2>1, <2>2
<1>8. CsiM(d).origin = d.origin
  BY <1>1, Zenon DEF CsiM, Fields
<1>9. SaveCur(d).origin = d.origin /\ RestoreCur(d).origin = d.origin
  BY <1>1, Zenon DEF SaveCur, RestoreCur, Fields
<1>10. QED
  BY <1>3, <1>4, <1>5, <1>6, <1>7, <1>8, <1>9, Zenon DEF Settled

\* scrdown never moves the origin.
LEMMA ScrdownStays ==
  ASSUME NEW d, Sound(d), NEW t \in 0 .. LINES - 1, NEW b \in 1 .. LINES, t < b
  PROVE  Scrdown(d, t, b).origin = d.origin
<1>1. Same(Scrdown(d, t, b), d)
  BY RegionMoves
<1>2. QED
  BY <1>1, Zenon DEF Same, Fields

LEMMA RiStays ==
  ASSUME NEW d, Sound(d)
  PROVE  Ri(d).origin = d.origin
<1>0. Geometry(d)
  BY Numbers
<1>1. d.top \in 0 .. LINES - 1 /\ d.bottom \in 1 .. LINES /\ d.top < d.bottom /\ DOMAIN d = Fields
  BY <1>0, Zenon DEF Geometry
<1>2. Scrdown(d, d.top, d.bottom).origin = d.origin
  BY <1>1, ScrdownStays
<1>3. QED
  BY <1>1, <1>2, Zenon DEF Ri, Fields

\* One round of a loop: only a deletion of the first line moves the origin.
LEMMA OnceShifts ==
  ASSUME NEW d, Sound(d), NEW c \in {"L", "M", "P", "@"}
  PROVE  /\ c # "M" \/ d.y # 0 => Once(c, d).origin = d.origin
         /\ c = "M" => Once(c, d).y = d.y
         /\ c = "M" /\ d.y = 0 => Shifted(Once(c, d), d, 1)
<1>0. Geometry(d)
  BY Numbers
<1>1. d.y \in 0 .. LINES - 1 /\ LINES \in 1 .. LINES /\ d.y < LINES /\ DOMAIN d = Fields
  BY <1>0 DEF Geometry
<1>2. InsertLine(d).origin = d.origin
  BY <1>1, ScrdownStays DEF InsertLine
<1>3. /\ UpTo(DeleteLine(d), d, d.y, LINES) /\ (d.y # 0 => DeleteLine(d).origin = d.origin)
      /\ DeleteLine(d).y = d.y
  BY <1>1, ScrupRows, ScrollingIsSound, Zenon DEF DeleteLine
<1>4. InsertChar(d).origin = d.origin /\ DeleteChar(d).origin = d.origin
  BY <1>1, Zenon DEF InsertChar, DeleteChar, Erase, Move, Store, Fields
<1>5. CASE c = "M"
  <2>1. Once(c, d) = DeleteLine(d)
    BY <1>5 DEF Once
  <2>2. QED
    BY <1>3, <1>5, <2>1, UpIsShifted, Zenon
<1>6. CASE c # "M"
  <2>1. Once(c, d) \in {InsertLine(d), InsertChar(d), DeleteChar(d)}
    BY <1>6 DEF Once
  <2>2. QED
    BY <1>2, <1>4, <1>6, <2>1, Zenon
<1>7. QED
  BY <1>5, <1>6

\* No shift, and one more.
LEMMA Shifts ==
  ASSUME NEW d
  PROVE  /\ Shifted(d, d, 0)
         /\ \A e, f : \A n \in Nat : Shifted(e, d, n) /\ Shifted(f, e, 1) => Shifted(f, d, n + 1)
<1>1. LINES \in Nat
  BY ConsoleAssumption
<1>2. Shifted(d, d, 0)
  <2>1. \A r \in 0 .. LINES - 1 : r + 0 < LINES /\ r + 0 = r
    BY <1>1
  <2>2. QED
    BY <2>1, Zenon DEF Shifted
<1>3. ASSUME NEW e, NEW f, NEW n \in Nat, Shifted(e, d, n), Shifted(f, e, 1), NEW r \in 0 .. LINES - 1
      PROVE  RowOf(f, r) = IF r + (n + 1) < LINES THEN RowOf(d, r + (n + 1)) ELSE BlankRow
  <2>1. RowOf(f, r) = IF r + 1 < LINES THEN RowOf(e, r + 1) ELSE BlankRow
    BY <1>3, Zenon DEF Shifted
  <2>2. CASE r + 1 < LINES
    <3>1. r + 1 \in 0 .. LINES - 1 /\ (r + 1) + n = r + (n + 1)
      BY <1>1, <2>2
    <3>2. RowOf(e, r + 1) = IF (r + 1) + n < LINES THEN RowOf(d, (r + 1) + n) ELSE BlankRow
      BY <1>3, <3>1, Zenon DEF Shifted
    <3>3. QED
      BY <2>1, <2>2, <3>1, <3>2, Zenon
  <2>3. CASE ~(r + 1 < LINES)
    <3>1. ~(r + (n + 1) < LINES)
      BY <1>1, <2>3
    <3>2. QED
      BY <2>1, <2>3, <3>1, Zenon
  <2>4. QED
    BY <2>2, <2>3
<1>4. ASSUME NEW e, NEW f, NEW n \in Nat, Shifted(e, d, n), Shifted(f, e, 1)
      PROVE  Shifted(f, d, n + 1)
  <2>1. \A r \in 0 .. LINES - 1 : RowOf(f, r) = IF r + (n + 1) < LINES THEN RowOf(d, r + (n + 1)) ELSE BlankRow
    BY <1>3, <1>4, Zenon
  <2>2. QED
    BY <2>1, Zenon DEF Shifted
<1>5. QED
  BY <1>2, <1>4, Zenon

\* The loops: deletions of the first line shift the screen once per round, the other
\* loops leave the origin alone.
LEMMA RoundsScroll ==
  ASSUME NEW d, Sound(d), NEW c \in {"L", "M", "P", "@"}, NEW m \in Nat, NEW g, Rounds(g, c, d, m)
  PROVE  \A j \in 0 .. m :
           /\ c = "M" => g[j].y = d.y
           /\ c = "M" /\ d.y = 0 => Shifted(g[j], d, j)
           /\ c # "M" \/ d.y # 0 => g[j].origin = d.origin
<1> DEFINE Ok(j) == /\ c = "M" => g[j].y = d.y
                    /\ c = "M" /\ d.y = 0 => Shifted(g[j], d, j)
                    /\ c # "M" \/ d.y # 0 => g[j].origin = d.origin
           Bad == {j \in 0 .. m : ~Ok(j)}
<1>1. SUFFICES ASSUME Bad # {} PROVE FALSE
  BY Zenon
<1>2. PICK j \in Bad : \A l \in Bad : j <= l
  <2>1. Bad \subseteq Nat
    OBVIOUS
  <2> HIDE DEF Bad
  <2>2. QED
    BY <1>1, <2>1, LeastNatural, Zenon
<1>3. j \in 0 .. m /\ ~Ok(j)
  BY <1>2, Zenon
<1>4. CASE j = 0
  <2>1. g[j] = d
    BY <1>3, <1>4, Zenon DEF Rounds
  <2>2. Shifted(d, d, 0)
    BY Shifts
  <2>3. QED
    BY <1>3, <1>4, <2>1, <2>2, Zenon
<1>5. CASE j # 0
  <2>1. j - 1 \in 0 .. m /\ ~(j <= j - 1) /\ j - 1 \in Nat /\ (j - 1) + 1 = j
    BY <1>3, <1>5
  <2>2. Ok(j - 1)
    BY <1>2, <2>1, Zenon
  <2>3. g[j] = Once(c, g[j - 1])
    BY <1>3, <1>5, Zenon DEF Rounds
  <2>4. Sound(g[j - 1])
    BY <2>1, RoundsAreSound
  <2> DEFINE b == g[j - 1]
  <2>5. /\ c # "M" \/ b.y # 0 => g[j].origin = b.origin
        /\ c = "M" => g[j].y = b.y
        /\ c = "M" /\ b.y = 0 => Shifted(g[j], b, 1)
    BY <2>3, <2>4, OnceShifts
  <2>6. Shifted(b, d, j - 1) /\ Shifted(g[j], b, 1) => Shifted(g[j], d, j)
    <3>1. Shifted(b, d, j - 1) /\ Shifted(g[j], b, 1) => Shifted(g[j], d, (j - 1) + 1)
      BY <2>1, Shifts
    <3>2. QED
      BY <2>1, <3>1
  <2>7. QED
    BY <1>3, <2>2, <2>5, <2>6, Zenon
<1>6. QED
  BY <1>4, <1>5

\* csi_M of the first line shifts by as many rows as it deletes.
LEMMA TimesScrolls ==
  ASSUME NEW d, Sound(d), NEW c \in {"L", "M", "P", "@"}, NEW n \in Nat, NEW most \in Nat \ {0},
         c = "M" => most = LINES
  PROVE  Scrolled(Times(c, d, n, most), d)
<1>1. PICK m \in 1 .. most : \E g : Rounds(g, c, d, m) /\ Times(c, d, n, most) = g[m]
  BY TimesIsRounds
<1>2. PICK g : Rounds(g, c, d, m) /\ Times(c, d, n, most) = g[m]
  BY <1>1
<1>3. m \in Nat /\ m \in 0 .. m
  OBVIOUS
<1>4. /\ c = "M" /\ d.y = 0 => Shifted(g[m], d, m)
      /\ c # "M" \/ d.y # 0 => g[m].origin = d.origin
  BY <1>2, <1>3, RoundsScroll
<1>5. CASE c = "M" /\ d.y = 0
  BY <1>2, <1>4, <1>5, ShiftedIsScrolled, Zenon
<1>6. CASE ~(c = "M" /\ d.y = 0)
  BY <1>2, <1>4, <1>6, Zenon DEF Scrolled
<1>7. QED
  BY <1>5, <1>6

\* A step that leaves the origin alone shows no scrolling.
LEMMA StillIsScrolled ==
  ASSUME NEW d, NEW e, e.origin = d.origin
  PROVE  Scrolled(e, d)
BY Zenon DEF Scrolled

\* The character that ends a sequence.
LEMMA FinalScrolls ==
  ASSUME NEW d, Sound(d), NEW c
  PROVE  Scrolled(Final(d, c), d)
<1> DEFINE p == d.par[0]
           q == d.par[1]
           one(n) == IF n = 0 THEN 1 ELSE n
           less(n) == IF n > 0 THEN n - 1 ELSE 0
<1>0. Settled(d)
  BY OriginStays
<1>1. p \in Nat /\ LINES \in Nat \ {0} /\ COLUMNS \in Nat \ {0}
  BY ConsoleAssumption DEF Sound, Parsing
<1>2. c \in {"L", "M"} => Scrolled(Times(c, d, p, LINES), d)
  BY <1>1, TimesScrolls, Zenon
<1>3. c \in {"P", "@"} => Scrolled(Times(c, d, p, COLUMNS), d)
  <2>1. c \in {"P", "@"} => c # "M"
    OBVIOUS
  <2>2. QED
    BY <1>1, <2>1, TimesScrolls, Zenon
<1>4. Scrolled(CsiM(d), d) /\ Scrolled(SaveCur(d), d) /\ Scrolled(RestoreCur(d), d) /\ Scrolled(d, d)
  BY <1>0, StillIsScrolled, Zenon DEF Settled
<1>5. \A t, b : Scrolled(Region(d, t, b), d)
  BY <1>0, StillIsScrolled, Zenon DEF Settled
<1>6. Scrolled(CsiJ(d, p), d) /\ Scrolled(CsiK(d, p), d)
  BY <1>0, StillIsScrolled, Zenon DEF Settled
<1>7. \A x, y : Scrolled(Goto(d, x, y), d)
  BY <1>0, StillIsScrolled, Zenon DEF Settled
<1>8. QED
  BY <1>2, <1>3, <1>4, <1>5, <1>6, <1>7, Zenon DEF Final

\* States 3 and 4 of con_write.
LEMMA ParameterScrolls ==
  ASSUME NEW d, Sound(d), NEW c
  PROVE  Scrolled(Parameter(d, c), d)
<1>0. DOMAIN d = Fields
  BY DEF Sound
<1>1. /\ [d EXCEPT !.npar = @ + 1].origin = d.origin
      /\ [d EXCEPT !.par[d.npar] = 10 * @ + Value[c]].origin = d.origin
  BY <1>0, Zenon DEF Fields
<1>2. Scrolled([Final(d, c) EXCEPT !.state = 0], d)
  <2> DEFINE e == Final(d, c)
             f == [e EXCEPT !.state = 0]
  <2>1. Scrolled(e, d) /\ Sound(e)
    BY FinalScrolls, FinalIsSound, Zenon
  <2> HIDE DEF e
  <2>2. DOMAIN e = Fields
    BY <2>1, Zenon DEF Sound
  <2>3. Alike(f, e)
    BY <2>2, Zenon DEF Fields, Alike
  <2> HIDE DEF f
  <2>4. Scrolled(f, d)
    BY <2>1, <2>3, AlikeScrolled, Zenon
  <2>5. QED
    BY <2>4 DEF e, f
<1>3. c = ";" => c \notin Digits
  BY Zenon DEF Digits
<1>4. Parameter(d, c) \in {[d EXCEPT !.npar = @ + 1], [d EXCEPT !.par[d.npar] = 10 * @ + Value[c]],
                           [Final(d, c) EXCEPT !.state = 0]}
  BY <1>3, Zenon DEF Parameter
<1>5. QED
  BY <1>1, <1>2, <1>4, StillIsScrolled, Zenon

\* State 2.
LEMMA FirstParameterScrolls ==
  ASSUME NEW d, Sound(d), NEW c
  PROVE  Scrolled(FirstParameter(d, c), d)
<1> DEFINE none == [i \in 0 .. NPAR - 1 |-> 0]
           n == [d EXCEPT !.par = none, !.npar = 0, !.state = 3, !.ques = c = "?"]
<1>1. DOMAIN d = Fields
  BY DEF Sound
<1>2. FirstParameter(d, c) = IF c = "?" THEN n ELSE Parameter(n, c)
  BY ZenonT(30) DEF FirstParameter
<1>3. Sound(n)
  BY ResetIsSound, Zenon
<1> HIDE DEF none
<1>4. n.vram = d.vram /\ n.origin = d.origin
  BY <1>1, Zenon DEF Fields
<1> HIDE DEF n
<1>5. Scrolled(Parameter(n, c), n)
  BY <1>3, ParameterScrolls, Zenon
<1>6. Alike(Parameter(n, c), Parameter(n, c))
  BY DEF Alike
<1>7. Scrolled(Parameter(n, c), d)
  BY <1>4, <1>5, <1>6, AlikeScrolled, Zenon
<1>8. QED
  BY <1>2, <1>4, <1>7, StillIsScrolled, Zenon

\* State 1: only lf can move the origin.
LEMMA EscapeScrolls ==
  ASSUME NEW d, Sound(d), NEW c
  PROVE  Scrolled(Escape(d, c), d)
<1> DEFINE n == [d EXCEPT !.state = 0]
<1>0. DOMAIN d = Fields
  BY DEF Sound
<1>1. Sound(n)
  <2>1. 0 \in 0 .. 3
    OBVIOUS
  <2>2. QED
    BY <2>1, StateIsSound, Zenon
<1>2. n.origin = d.origin /\ n.vram = d.vram /\ [d EXCEPT !.state = 2].origin = d.origin
  BY <1>0, Zenon DEF Fields
<1>3. Escape(d, c) \in {[d EXCEPT !.state = 2], Goto(n, 0, d.y + 1), Ri(n), Lf(n), n, SaveCur(n), RestoreCur(n)}
  BY Zenon DEF Escape
<1> HIDE DEF n
<1>4. /\ Goto(n, 0, d.y + 1).origin = n.origin /\ Ri(n).origin = n.origin
      /\ SaveCur(n).origin = n.origin /\ RestoreCur(n).origin = n.origin
  <2>1. Settled(n) /\ Ri(n).origin = n.origin
    BY <1>1, OriginStays, RiStays, Zenon
  <2>2. QED
    BY <2>1, Zenon DEF Settled
<1>5. Scrolled(Lf(n), d)
  <2>1. 1 \in 1 .. LINES
    BY ConsoleAssumption
  <2>2. Scrolled(Lf(n), n)
    BY <1>1, <2>1, LfScrolls, ShiftedIsScrolled, StillIsScrolled, Zenon
  <2>3. Alike(Lf(n), Lf(n))
    BY DEF Alike
  <2>4. QED
    BY <1>2, <2>2, <2>3, AlikeScrolled, Zenon
<1>6. QED
  BY <1>2, <1>3, <1>4, <1>5, StillIsScrolled, Zenon

\* State 0.
LEMMA PlainScrolls ==
  ASSUME NEW d, Sound(d), NEW c
  PROVE  Scrolled(Plain(d, c), d)
<1>1. DOMAIN d = Fields
  BY DEF Sound
<1>2. [d EXCEPT !.state = 1].origin = d.origin
  BY <1>1, Zenon DEF Fields
<1>3. Cr(d).origin = d.origin /\ Bs(d).origin = d.origin /\ Del(d).origin = d.origin
  BY OriginStays, Zenon DEF Settled
<1>4. Scrolled(Lf(d), d)
  <2>1. 1 \in 1 .. LINES
    BY ConsoleAssumption
  <2>2. QED
    BY <2>1, LfScrolls, ShiftedIsScrolled, StillIsScrolled, Zenon
<1>5. Scrolled(Tab(d), d) /\ Scrolled(Put(d, c), d)
  BY TabScrolls, PutScrolls, Zenon
<1>6. QED
  BY <1>2, <1>3, <1>4, <1>5, StillIsScrolled, Zenon DEF Plain

\* con_write of one character.
LEMMA WrittenScrolls ==
  ASSUME NEW d, Sound(d), NEW c
  PROVE  Scrolled(Written(d, c), d)
<1> DEFINE e == CASE d.state = 0 -> Plain(d, c)
                  [] d.state = 1 -> Escape(d, c)
                  [] d.state = 2 -> FirstParameter(d, c)
                  [] OTHER -> Parameter(d, c)
           n == [e EXCEPT !.cursor = e.pos]
<1>1. Scrolled(e, d)
  BY PlainScrolls, EscapeScrolls, FirstParameterScrolls, ParameterScrolls
<1>2. DOMAIN e = Fields
  BY PlainIsSound, EscapeIsSound, FirstParameterIsSound, ParameterIsSound DEF Sound
<1>3. Written(d, c) = n
  BY Zenon DEF Written, SetCursor
<1> HIDE DEF e
<1>4. Alike(n, e)
  BY <1>2, Zenon DEF Fields, Alike
<1>5. QED
  BY <1>1, <1>3, <1>4, AlikeScrolled, Zenon

-----------------------------------------------------------------------------
\* What FeedStaysInRegion asks of a step from d to e.
Fed(e, d) ==
  \A r \in 0 .. LINES - 1 :
    IF r < d.top \/ r >= d.bottom THEN RowOf(e, r) = RowOf(d, r)
    ELSE RowOf(e, r) \in {BlankRow} \cup {RowOf(d, s) : s \in {r - 1, r + 1} \cap d.top .. d.bottom - 1}

\* Rows of a scrolled region come from the region, or are empty.
LEMMA RegionIsFed ==
  ASSUME NEW d, Sound(d), NEW e, UpTo(e, d, d.top, d.bottom) \/ DownTo(e, d, d.top, d.bottom)
  PROVE  Fed(e, d)
<1>0. d.top \in Nat /\ d.bottom \in Nat
  BY ConsoleAssumption DEF Sound, Window
<1> DEFINE t == d.top
           b == d.bottom
           Near(r) == {RowOf(d, s) : s \in {r - 1, r + 1} \cap t .. b - 1}
<1>1. SUFFICES ASSUME NEW r \in 0 .. LINES - 1
               PROVE  IF r < t \/ r >= b THEN RowOf(e, r) = RowOf(d, r) ELSE RowOf(e, r) \in {BlankRow} \cup Near(r)
  BY Zenon DEF Fed
<1> HIDE DEF t, b
<1>2. r \in Nat /\ t \in Nat /\ b \in Nat
  BY <1>0 DEF t, b
<1>3. CASE r < t \/ r >= b
  BY <1>3, Zenon DEF UpTo, DownTo, t, b
<1>4. CASE ~(r < t \/ r >= b)
  <2>1. CASE UpTo(e, d, t, b)
    <3>1. RowOf(e, r) = IF r = b - 1 THEN BlankRow ELSE RowOf(d, r + 1)
      BY <1>4, <2>1, Zenon DEF UpTo
    <3>2. r # b - 1 => r + 1 \in {r - 1, r + 1} \cap t .. b - 1
      BY <1>2, <1>4
    <3>3. QED
      BY <1>4, <3>1, <3>2, Zenon
  <2>2. CASE DownTo(e, d, t, b)
    <3>1. RowOf(e, r) = IF r = t THEN BlankRow ELSE RowOf(d, r - 1)
      BY <1>4, <2>2, Zenon DEF DownTo
    <3>2. r # t => r - 1 \in {r - 1, r + 1} \cap t .. b - 1
      BY <1>2, <1>4
    <3>3. QED
      BY <1>4, <3>1, <3>2, Zenon
  <2>3. QED
    BY <2>1, <2>2 DEF t, b
<1>5. QED
  BY <1>3, <1>4

\* lf and ri store nothing, or scroll the region.
LEMMA LfFeeds ==
  ASSUME NEW d, Sound(d)
  PROVE  (Lf(d).vram = d.vram \/ Fed(Lf(d), d)) /\ (Ri(d).vram = d.vram \/ Fed(Ri(d), d))
<1>0. Geometry(d)
  BY Numbers
<1>1. d.top \in 0 .. LINES - 1 /\ d.bottom \in 1 .. LINES /\ d.top < d.bottom /\ DOMAIN d = Fields
  BY <1>0, Zenon DEF Geometry
<1>2. UpTo(Scrup(d, d.top, d.bottom), d, d.top, d.bottom)
  BY <1>1, ScrupRows
<1>3. DownTo(Scrdown(d, d.top, d.bottom), d, d.top, d.bottom)
  BY <1>1, RegionRows
<1>4. Fed(Scrup(d, d.top, d.bottom), d) /\ Fed(Scrdown(d, d.top, d.bottom), d)
  BY <1>2, <1>3, RegionIsFed, Zenon
<1>5. Lf(d).vram = d.vram \/ Fed(Lf(d), d)
  BY <1>1, <1>4, Zenon DEF Lf, Fields
<1>6. Ri(d).vram = d.vram \/ Fed(Ri(d), d)
  BY <1>1, <1>4, Zenon DEF Ri, Fields
<1>7. QED
  BY <1>5, <1>6

\* State 1 of con_write: what else follows ESC stores nothing.
LEMMA EscapeFeeds ==
  ASSUME NEW d, Sound(d), NEW c
  PROVE  Escape(d, c).vram = d.vram \/ Fed(Escape(d, c), d)
<1> DEFINE n == [d EXCEPT !.state = 0]
<1>0. DOMAIN d = Fields
  BY DEF Sound
<1>1. Sound(n)
  <2>1. 0 \in 0 .. 3
    OBVIOUS
  <2>2. QED
    BY <2>1, StateIsSound, Zenon
<1>2. /\ n.origin = d.origin /\ n.vram = d.vram /\ n.top = d.top /\ n.bottom = d.bottom
      /\ [d EXCEPT !.state = 2].vram = d.vram /\ DOMAIN n = Fields
  BY <1>0, Zenon DEF Fields
<1>3. Escape(d, c) \in {[d EXCEPT !.state = 2], Goto(n, 0, d.y + 1), Ri(n), Lf(n), n, SaveCur(n), RestoreCur(n)}
  BY Zenon DEF Escape
<1> HIDE DEF n
<1>4. Goto(n, 0, d.y + 1).vram = n.vram /\ SaveCur(n).vram = n.vram /\ RestoreCur(n).vram = n.vram
  BY <1>2, Zenon DEF Goto, SaveCur, RestoreCur, Fields
<1>5. \A e : Fed(e, n) => Fed(e, d)
  <2>1. \A r : RowOf(n, r) = RowOf(d, r)
    BY <1>2, AlikeRows, Zenon
  <2>2. QED
    BY <1>2, <2>1 DEF Fed
<1>6. (Lf(n).vram = d.vram \/ Fed(Lf(n), d)) /\ (Ri(n).vram = d.vram \/ Fed(Ri(n), d))
  BY <1>1, <1>2, <1>5, LfFeeds, Zenon
<1>7. QED
  BY <1>2, <1>3, <1>4, <1>6, Zenon

\* con_write of a character after ESC.
LEMMA WrittenFeeds ==
  ASSUME NEW d, Sound(d), NEW c, d.state = 1, Written(d, c).vram # d.vram
  PROVE  Fed(Written(d, c), d)
<1> DEFINE e == Escape(d, c)
           n == [e EXCEPT !.cursor = e.pos]
<1>1. Written(d, c) = n
  <2>1. (CASE d.state = 0 -> Plain(d, c)
           [] d.state = 1 -> Escape(d, c)
           [] d.state = 2 -> FirstParameter(d, c)
           [] OTHER -> Parameter(d, c)) = e
    OBVIOUS
  <2>2. QED
    BY <2>1, Zenon DEF Written, SetCursor
<1>2. Sound(e) /\ (e.vram = d.vram \/ Fed(e, d))
  BY EscapeIsSound, EscapeFeeds, Zenon
<1> HIDE DEF e
<1>3. n.vram = e.vram /\ n.origin = e.origin
  BY <1>2, Zenon DEF Sound, Fields
<1> HIDE DEF n
<1>4. \A r : RowOf(n, r) = RowOf(e, r)
  BY <1>3, AlikeRows, Zenon
<1>5. Fed(e, d)
  BY <1>1, <1>2, <1>3, Zenon
<1>6. QED
  BY <1>1, <1>4, <1>5 DEF Fed

-----------------------------------------------------------------------------
\* scrup and scrdown, for every size of the screen and of video memory and any
\* characters: a step that moves the origin, also one that takes it back to the start
\* of video memory, shows the rows moved up by whole rows, and a line feed or reverse
\* index moves rows by one inside of the scroll region and none outside.
THEOREM ScrollingIsByRows == KSpec => ScrollingShifts
<1> DEFINE Inv == Sound(k) /\ k.cursor = k.pos
           Scroll == k'.origin # k.origin =>
                       \E n \in 1 .. LINES : \A r \in 0 .. LINES - 1 :
                         IF r + n < LINES THEN RowOf(k', r) = RowOf(k, r + n)
                         ELSE RowOf(k', r) = BlankRow \/ (r = k'.y /\ k'.x = 1)
           Feed == k.state = 1 /\ k'.state = 0 /\ k'.saved = k.saved /\ k'.vram # k.vram =>
                     \A r \in 0 .. LINES - 1 :
                       IF r < k.top \/ r >= k.bottom THEN RowOf(k', r) = RowOf(k, r)
                       ELSE RowOf(k', r) \in {BlankRow} \cup
                              {RowOf(k, s) : s \in {r - 1, r + 1} \cap k.top .. k.bottom - 1}
<1>1. ASSUME Inv, NEW c, k' = Written(k, c) PROVE Scroll /\ Feed
  <2>1. Scrolled(k', k)
    BY <1>1, WrittenScrolls, Zenon
  <2>2. k.state = 1 /\ k'.vram # k.vram => Fed(k', k)
    BY <1>1, WrittenFeeds, Zenon
  <2>3. QED
    BY <2>1, <2>2, Zenon DEF Scrolled, Fed
<1>2. Inv /\ [KNext]_k => [Scroll]_k /\ [Feed]_k
  BY <1>1, Zenon DEF KNext, ConWrite
<1>3. QED
  BY <1>2, DisplayStaysSound, PTL DEF KSpec, ScrollingShifts, OriginMoveIsScroll, FeedStaysInRegion

=============================================================================
