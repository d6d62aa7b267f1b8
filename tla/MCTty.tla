-------------------------------- MODULE MCTty --------------------------------
(***************************************************************************)
(* Three loads: lines of input for a single call, fewer keys for several   *)
(* calls, and output, where writers compete with the echo of a key.        *)
(* Input starts cooked with an echo or raw without; calls change that.     *)
(***************************************************************************)
EXTENDS Tty

CONSTANTS MaxKeys, MaxTtyCalls, Size

VARIABLES side, keys, ttycalls

myvars == <<yvars, side, keys, ttycalls>>

MYInit ==
  /\ side \in {"line", "input", "output"} /\ keys = 0 /\ ttycalls = 0
  /\ YInit /\ (side = "output" => y.canon /\ y.vmin = 1) /\ (side # "output" => y.echo = y.canon)

MYNext ==
  /\ \/ /\ keys < CASE side = "line" -> MaxKeys [] side = "input" -> MaxKeys - 1 [] OTHER -> 1
        /\ keys' = keys + 1 /\ UNCHANGED ttycalls
        /\ \E c \in IF side = "output" THEN {"a", "INTR"} ELSE Keys : Receive(c)
     \/ /\ Transmit \/ \E p \in Users : TtyKernel(p) \/ AlarmRings(p)
        /\ UNCHANGED <<keys, ttycalls>>
     \/ /\ ttycalls < (IF side = "line" THEN 1 ELSE MaxTtyCalls) /\ ttycalls' = ttycalls + 1 /\ UNCHANGED keys
        /\ \E p \in IF side = "output" THEN Writers ELSE Readers : TtyCall(p, Size)
  /\ UNCHANGED side

MYSpec == MYInit /\ [][MYNext]_myvars
=============================================================================
