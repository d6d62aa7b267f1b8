---------------------------- MODULE MCSortedArray ----------------------------
(***************************************************************************)
(* The sorted array with 4-bit unsigned integers and keys in the lower     *)
(* half of their range, where default_cmp_func's sign is right.            *)
(***************************************************************************)
EXTENDS SortedArray

NearKeys == {1, 3, 4, 7}

=============================================================================
