------------------------------- MODULE MCPaging ------------------------------
(***************************************************************************)
(* Paging with four pages in two page tables and fewer frames than pages   *)
(* can hold over time, so that first_frame fails and frames are reused.    *)
(***************************************************************************)
EXTENDS Paging

MCPages == {0, 1, 2, 3}

=============================================================================
