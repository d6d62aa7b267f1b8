------------------------------ MODULE MCMemory -------------------------------
(***************************************************************************)
(* Memory with a bound on the pages that are lost.                         *)
(***************************************************************************)
EXTENDS Memory

CONSTANT MaxLost

\* The values of ArgSizes.
OneArg == {<<0, 1>>, <<1, 1>>}

MMNext == MNext /\ Cardinality(leaked') <= MaxLost
MMSpec == MInit /\ [][MMNext]_mvars

=============================================================================
