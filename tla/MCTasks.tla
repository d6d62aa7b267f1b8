------------------------------- MODULE MCTasks -------------------------------
(***************************************************************************)
(* Tasks with a bound on the system calls of a behaviour: forks and exits  *)
(* until the pids start again, shorter lives with waits and kills, and     *)
(* the shortest with every call.                                           *)
(***************************************************************************)
EXTENDS Tasks

CONSTANTS MaxForks, MaxLifeCalls, MaxCalls

VARIABLES calls, mix

MTInit == TInit /\ calls = 0 /\ mix \in {"forks", "life", "all"}

MTNext ==
  /\ UNCHANGED mix
  /\ \/ /\ calls' = calls + 1
        /\ \/ mix = "forks" /\ calls < MaxForks /\ (Exit \/ \E b \in BOOLEAN : Fork(b))
           \/ mix = "life" /\ calls < MaxLifeCalls /\ LifeCalls
           \/ mix = "all" /\ calls < MaxCalls /\ SystemCall
     \/ (TimerInterrupt \/ Kernel \/ IdleTask \/ \E s \in Slots : DiskWakes(s)) /\ UNCHANGED calls

MTSpec == MTInit /\ [][MTNext]_<<tvars, calls, mix>>
MTFairSpec == MTSpec /\ TFairness

=============================================================================
