-------------------------------- MODULE MCHeap -------------------------------
(***************************************************************************)
(* The heap with pages of 16 words: an index of one page, a page the code  *)
(* skips behind it, four pages of initial space (one more than the minimum *)
(* size) and more to grow into.  The clients follow a workload: what they  *)
(* ask for, in which order they free, and how many blocks they hold.       *)
(***************************************************************************)
EXTENDS Heap

CONSTANTS
  Workloads,        \* the workloads to check
  MaxDepth          \* bound on the calls in progress

VARIABLE load       \* the workload of this behaviour

MCPages == (HEAP_START \div PAGE) .. (HEAP_MAX \div PAGE)

Workload(lens, aligned, zero, order, most) ==
  [requests |-> [len : lens, aligned : aligned, zero : zero],
   order |-> order, most |-> most]

Growing == Workload({0, 11, 27}, {FALSE}, {TRUE}, "never", 6)
OldestFirst == Workload({3, 11}, {FALSE}, {TRUE}, "fifo", 2)
NewestFirst == Workload({3, 11}, {FALSE}, {TRUE}, "lifo", 3)

\* The values of Workloads in the configurations.
Regular == {Growing, OldestFirst, NewestFirst}
AcrossTables == {Workload({11, 27, 43}, {FALSE}, {TRUE}, "never", 8)}
PageAligned == {Workload({3, 27}, {TRUE}, {FALSE}, "lifo", 3)}
AcrossOrAligned == AcrossTables \cup PageAligned
AnyAlignment == {Workload({3, 11, 27}, BOOLEAN, {TRUE}, "never", 4)}
GrowAndShrink == {Workload({0, 11, 27}, {FALSE}, {TRUE}, "lifo", 5)}
GrowOnly == {Growing}
FourBlocks == {Workload({0, 7, 27}, {FALSE}, {TRUE}, "never", 4)}

AnyRequest == UNION {w.requests : w \in Workloads}

InOrder(n) ==
  /\ load.order # "never"
  /\ load.order = "lifo" => n = Len(blocks)
  /\ load.order = "fifo" => n = 1

MCInit == Init /\ load \in Workloads

MCNext ==
  /\ UNCHANGED load
  /\ \/ /\ Len(blocks) < load.most
        /\ \E r \in load.requests : Kmalloc(r.len, r.aligned, r.zero)
     \/ \E n \in Freeable : InOrder(n) /\ Kfree(n)
     \/ Len(stack) < MaxDepth /\ Step

MCSpec == MCInit /\ [][MCNext]_<<vars, load>>

\* expand: when page tables for the new pages come out of the heap being extended,
\* blocks and holes still partition it.
PartitionAcrossTables == load \in AcrossTables => Partition

\* heap.c over paging.c: aligned blocks begin on a page, and growth that makes page
\* tables in the heap it extends loses and shares no word.
HeapOverPages == AlignedOnPage /\ PartitionAcrossTables

=============================================================================
