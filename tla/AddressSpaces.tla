---------------------------- MODULE AddressSpaces ----------------------------
(***************************************************************************)
(* What fork, page faults and exec of Linux 0.01 promise a process: a      *)
(* memory of its own.  A child starts with a copy of its father's memory,  *)
(* exec starts from what it was given, and only a write of the process     *)
(* itself changes what it reads.                                           *)
(***************************************************************************)
EXTENDS Integers

CONSTANTS Tasks, Pages, Values

VARIABLES
  alive,        \* the processes that have a memory
  space         \* what each page of each process reads as

Write(t, p, v) ==
  /\ t \in alive
  /\ space' = [space EXCEPT ![t][p] = v]
  /\ UNCHANGED alive

Fork(t, n) ==
  /\ t \in alive /\ n \notin alive
  /\ alive' = alive \cup {n}
  /\ space' = [space EXCEPT ![n] = space[t]]

Exec(t) ==
  /\ t \in alive
  /\ \E new \in [Pages -> Values] : space' = [space EXCEPT ![t] = new]
  /\ UNCHANGED alive

Exit(t) ==
  /\ t \in alive
  /\ alive' = alive \ {t}
  /\ \A u \in alive' : space'[u] = space[u]

Next ==
  \E t \in Tasks :
    \/ \E p \in Pages, v \in Values : Write(t, p, v)
    \/ \E n \in Tasks : Fork(t, n)
    \/ Exec(t)
    \/ Exit(t)

Spec == (alive \subseteq Tasks /\ space \in [Tasks -> [Pages -> Values]])
        /\ [][Next]_<<alive, space>>

=============================================================================
