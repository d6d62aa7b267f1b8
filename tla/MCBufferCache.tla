---------------------------- MODULE MCBufferCache ----------------------------
EXTENDS BufferCache

CONSTANT MaxCalls

VARIABLE ccalls   \* system calls made

bcvars == <<cvars, ccalls>>

\* An empty cache, and caches in which every buffer has a block.
BCInit ==
  /\ \/ CInit([b \in Buffers |-> 0], {})
     \/ \E n \in Buffers : CInit([b \in Buffers |-> b], n + 1 .. NR_BUFFERS)
  /\ ccalls = 0

Call(p) ==
  /\ ccalls < MaxCalls /\ ccalls' = ccalls + 1
  /\ Sync(p) \/ \E k \in Blocks : Bread(p, k)

BCNext ==
  /\ \/ \E p \in Processes :
          Call(p) \/ ((InKernel(p) \/ Modify(p) \/ Release(p)) /\ UNCHANGED ccalls)
     \/ DiskWorks /\ UNCHANGED ccalls
  /\ UNCHANGED pinned

BCSpec == BCInit /\ [][BCNext]_bcvars
=============================================================================
