------------------------------- MODULE MCPipe --------------------------------
EXTENDS Pipe

MCXSpec == (\E n \in 0 .. 2 : XInit(n)) /\ [][XNext]_x /\ \A t \in Pipers : WF_x(Resume(t))
MCXSafe == (\E n \in 0 .. 2 : XInit(n)) /\ [][XNext]_x
=============================================================================
