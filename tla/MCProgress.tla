----------------------------- MODULE MCProgress ------------------------------
(***************************************************************************)
(* What must happen in the end: allocations of the kernel's heap, tasks    *)
(* and pipes, each on its own.  The steps of the chosen unit are as fair   *)
(* as in the unit's own specification.                                     *)
(***************************************************************************)
EXTENDS MCHeap, MCTasks, MCPipe

VARIABLE goal

ProgressInit ==
  /\ goal \in {"heap", "tasks", "pipe"}
  /\ MCInit
  /\ MTInit /\ (goal # "tasks" => mix = "all")
  /\ \E n \in 0 .. 2 : (goal # "pipe" => n = 0) /\ XInit(n)

About(name) == goal = name /\ UNCHANGED goal

taskvars == <<tvars, calls, mix>>

ProgressNext ==
  \/ About("heap") /\ MCNext /\ UNCHANGED <<taskvars, x>>
  \/ About("tasks") /\ MTNext /\ UNCHANGED <<vars, load, x>>
  \/ About("pipe") /\ XNext /\ UNCHANGED <<vars, load, taskvars>>

ProgressSpec ==
  /\ ProgressInit /\ [][ProgressNext]_<<goal, vars, load, taskvars, x>>
  /\ WF_vars(goal = "heap" /\ Len(stack) < MaxDepth /\ Step)
  /\ WF_tvars(goal = "tasks" /\ TimerInterrupt) /\ WF_tvars(goal = "tasks" /\ Kernel)
  /\ WF_tvars(goal = "tasks" /\ IdleTask)
  /\ \A s \in Slots : WF_tvars(goal = "tasks" /\ DiskWakes(s))
  /\ \A t \in Pipers : WF_x(goal = "pipe" /\ Resume(t))

=============================================================================
