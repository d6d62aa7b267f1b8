------------------------------- MODULE Teletype ------------------------------
(***************************************************************************)
(* What a console promises: characters typed on an endless roll of paper.  *)
(* There is no screen and nothing scrolls; the carriage is always on the   *)
(* last line of the roll.                                                  *)
(***************************************************************************)
EXTENDS Integers, Sequences

CONSTANTS Width, Stop, Glyphs, BLANK

VARIABLES
  paper,   \* the lines of the roll, oldest first
  column   \* carriage position on the last line

vars == <<paper, column>>

BlankLine == [x \in 0 .. (Width - 1) |-> BLANK]

\* Leave the carriage at column c of roll p, on a fresh line past the margin.
Carriage(p, c) ==
  IF c < Width
  THEN paper' = p /\ column' = c
  ELSE paper' = Append(p, BlankLine) /\ column' = 0

Type(g) ==
  Carriage([paper EXCEPT ![Len(paper)] = [@ EXCEPT ![column] = g]], column + 1)

Back == column > 0 /\ Carriage(paper, column - 1)

\* The next column after this one that is a multiple of the stop.
ToStop ==
  Carriage(paper, CHOOSE c \in (column + 1) .. (column + Stop) : c % Stop = 0)

Return == Carriage(paper, 0)

Feed == paper' = Append(paper, BlankLine) /\ column' = 0

NewRoll == paper' = <<BlankLine>> /\ column' = 0

Init == paper = <<BlankLine>> /\ column = 0

Next ==
  \/ \E g \in Glyphs : Type(g)
  \/ Back
  \/ ToStop
  \/ Return
  \/ Feed
  \/ NewRoll

Spec == Init /\ [][Next]_vars

=============================================================================
