----------------------------- MODULE MCHardDisk ------------------------------
(***************************************************************************)
(* Three loads: a burst of reads in any order, reads in ascending order    *)
(* for which the queue is too short, and a few processes that read and     *)
(* write.                                                                  *)
(***************************************************************************)
EXTENDS HardDisk

CONSTANTS
  Few,            \* the buffers of the second load
  MaxTransfers

VARIABLES load, transfers

hdvars == <<hvars, load, transfers>>

HDInit ==
  /\ load \in {"burst", "full", "few"}
  /\ HInit(IF load = "few" THEN 2 ELSE 0) /\ transfers = 0

Asks(b) ==
  /\ transfers' = transfers + 1
  /\ \/ /\ load = "burst" /\ h.wants[b] = "none" /\ b <= NR_REQUEST
        /\ \A r \in Requests : h.nsector[r] # 1
        /\ RwAbsHd(b, "read")
     \/ /\ load = "full" /\ h.wants[b] = "none" /\ \A c \in Disks : c < b => h.wants[c] # "none"
        /\ RwAbsHd(b, "read")
     \/ /\ load = "few" /\ b \in Few /\ transfers < MaxTransfers
        /\ \E cmd \in Transfer : RwAbsHd(b, cmd)

HDNext ==
  /\ \/ HdInterrupt /\ UNCHANGED transfers
     \/ \E b \in Disks : Asks(b) \/ (DiskProcess(b) /\ UNCHANGED transfers)
  /\ UNCHANGED load

HDSpec == HDInit /\ [][HDNext]_hdvars
=============================================================================
