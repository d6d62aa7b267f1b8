------------------------------ MODULE MCConsole ------------------------------
EXTENDS Console

CONSTANT MaxChars

VARIABLE chars

\* A screen on which every row is different.
Numbered == [i \in Cells |-> <<"n", i \div COLUMNS>>]

MKInit == chars = 0 /\ \E y \in 0 .. LINES - 1 : KInit(Numbered, 0, y)
MKNext == chars < MaxChars /\ chars' = chars + 1 /\ KNext
MKSpec == MKInit /\ [][MKNext]_<<k, chars>>
=============================================================================
