----------------------------- MODULE MCProcesses -----------------------------
(***************************************************************************)
(* Tasks, their memory, pipes and terminals of Linux 0.01, each on its     *)
(* own: a behaviour is one of the unit it chose at the start.              *)
(***************************************************************************)
EXTENDS MCTasks, MCMemory, MCPipe, MCTty

VARIABLE part

ProcessesInit ==
  /\ part \in {"tasks", "memory", "pipe", "tty"}
  /\ MTInit /\ (part # "tasks" => mix = "all")
  /\ MInit
  /\ \E n \in 0 .. 2 : (part # "pipe" => n = 0) /\ XInit(n)
  /\ MYInit /\ (part # "tty" => side = "output" /\ ~y.echo)

Alone(name) == part = name /\ UNCHANGED part

taskvars == <<tvars, calls, mix>>

ProcessesNext ==
  \/ Alone("tasks") /\ MTNext /\ UNCHANGED <<mvars, x, myvars>>
  \/ Alone("memory") /\ MMNext /\ UNCHANGED <<taskvars, x, myvars>>
  \/ Alone("pipe") /\ XNext /\ UNCHANGED <<taskvars, mvars, myvars>>
  \/ Alone("tty") /\ MYNext /\ UNCHANGED <<taskvars, mvars, x>>

ProcessesSpec == ProcessesInit /\ [][ProcessesNext]_<<part, taskvars, mvars, x, myvars>>

=============================================================================
