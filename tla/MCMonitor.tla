------------------------------ MODULE MCMonitor ------------------------------
(***************************************************************************)
(* Monitor on a screen of a few cells.  MaxScrolled bounds the history of  *)
(* lines that have left the screen.                                        *)
(***************************************************************************)
EXTENDS Monitor

CONSTANT MaxScrolled

\* One of the next lines that scroll may still be recorded.
MCNext == Len(scrolled) < MaxScrolled /\ Next

MCSpec == Init /\ [][MCNext]_vars

=============================================================================
