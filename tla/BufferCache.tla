----------------------------- MODULE BufferCache -----------------------------
(***************************************************************************)
(* The buffer cache of Linux 0.01 (buffer.c) on one block device, with     *)
(* processes that read, modify, release and sync blocks.                   *)
(*                                                                         *)
(* The kernel is not preempted: cpu is the process whose kernel code runs, *)
(* until it sleeps or is done.  The disk is what ll_rw_block makes of it:  *)
(* the buffer is locked, and some time later an interrupt unlocks it.      *)
(* Hash chains are the set of the buffers in them; the free list has its   *)
(* pointers, because getblk walks it across its own sleeps.                *)
(***************************************************************************)
EXTENDS WaitQueues, FiniteSets, Sequences

CONSTANTS
  NR_BUFFERS,   \* buffers, in the order of their addresses
  Blocks,       \* block numbers of the device
  Processes,    \* processes that use the cache, numbered from 1
  MaxVersion,   \* how often contents may change
  Results       \* how transfers may end: TRUE, and FALSE if the disk has errors

ASSUME CacheAssumption ==
  /\ Processes \subseteq Nat \ {NoTask} /\ IsFiniteSet(Processes)
  /\ NR_BUFFERS \in Nat \ {0} /\ NR_BUFFERS > Cardinality(Processes)
  /\ 0 \notin Blocks /\ MaxVersion \in Nat /\ TRUE \in Results /\ Results \subseteq BOOLEAN

VARIABLES
  b_block,      \* b_dev and b_blocknr: a block, or 0 when b_dev is 0
  b_count, b_dirt, b_uptodate, b_lock, b_data,
  hashed,       \* the buffers in the hash chains
  next_free, prev_free, free_list,
  requests,     \* what the disk is to do: records with bh, its block, cmd and the data sent
  disk,         \* contents of the blocks on the device
  latest,       \* history: contents a process gave a block last
  cpc,          \* where each process is
  want, bh,     \* the block it asked for, the buffer it has its hands on
  idx,          \* where its sync loop is
  wq,           \* sleepers on the buffers and on buffer_wait
  cpu,
  pinned        \* buffers the super block's bitmaps hold for good

lists == <<hashed, next_free, prev_free, free_list>>
bufs == <<b_block, b_count, b_dirt, b_uptodate, b_lock, b_data, requests>>
cvars == <<bufs, lists, disk, latest, cpc, want, bh, idx, wq, cpu, pinned>>

Buffers == 1 .. NR_BUFFERS
buffer_wait == 0

-----------------------------------------------------------------------------
\* Process p is at label l and may go on.
At(p, l) == cpc[p] = l /\ cpu \in {p, NoTask} /\ p \notin wq.inside

\* It keeps the processor and goes on at l, or leaves the kernel at l.
Goes(p, l) == cpc' = [cpc EXCEPT ![p] = l] /\ cpu' = p
Leaves(p, l) == cpc' = [cpc EXCEPT ![p] = l] /\ cpu' = NoTask

Sleeps(p, q, l) ==
  /\ wq' = SleepOn(wq, p, q)
  /\ Leaves(p, l)
  /\ UNCHANGED <<bufs, lists, disk, latest, want, bh, idx>>

\* A sleeper that was woken gets the processor and leaves sleep_on.
Resumes(p) ==
  /\ cpu = NoTask /\ p \in wq.inside /\ p \notin wq.asleep
  /\ wq' = SleptOn(wq, p) /\ cpu' = p
  /\ UNCHANGED <<bufs, lists, disk, latest, cpc, want, bh, idx>>

\* wait_on_buffer(b), tested again after every sleep.
Waits(p, b, l) == At(p, l) /\ b_lock[b] /\ Sleeps(p, b, l)

\* ll_rw_block up to its own wait_on_buffer.
Submit(b, rw) ==
  /\ b_lock' = [b_lock EXCEPT ![b] = TRUE]
  /\ requests' = Append(requests, [bh |-> b, block |-> b_block[b], cmd |-> rw, sent |-> 0])

\* brelse behind its wait.
Brelse(b) ==
  /\ b_count' = [b_count EXCEPT ![b] = @ - 1]
  /\ wq' = WakeUp(wq, buffer_wait)

\* find_buffer.
Found(k) == {b \in hashed : b_block[b] = k}

-----------------------------------------------------------------------------
\* getblk(k), for bread.
Bread(p, k) ==
  /\ At(p, "user")
  /\ want' = [want EXCEPT ![p] = k]
  /\ Goes(p, "find")
  /\ UNCHANGED <<bufs, lists, disk, latest, bh, idx, wq>>

Hold(b) == b_count' = [b_count EXCEPT ![b] = @ + 1]

\* get_hash_table: a buffer that is there is held before it is waited for.
FindBuffer(p) ==
  /\ At(p, "find")
  /\ \/ \E b \in Found(want[p]) :
          /\ Hold(b) /\ bh' = [bh EXCEPT ![p] = b] /\ Goes(p, "found")
     \/ /\ Found(want[p]) = {}
        /\ bh' = [bh EXCEPT ![p] = free_list] /\ Goes(p, "scan")
        /\ UNCHANGED b_count
  /\ UNCHANGED <<b_block, b_dirt, b_uptodate, b_lock, b_data, requests, lists, disk, latest, want, idx, wq>>

\* Behind the wait the buffer is checked again, and released if it has become
\* another block's.
FoundCheck(p) ==
  /\ At(p, "found") /\ ~b_lock[bh[p]]
  /\ IF b_block[bh[p]] = want[p]
     THEN Goes(p, "got") /\ UNCHANGED <<b_count, wq>>
     ELSE Goes(p, "find") /\ Brelse(bh[p])
  /\ UNCHANGED <<b_block, b_dirt, b_uptodate, b_lock, b_data, requests, lists, disk, latest, want, bh, idx>>

\* The loop over the free list: a buffer nobody holds is waited for, others are
\* passed; back at the head of the list, the process sleeps for a free buffer.
Scan(p) ==
  /\ At(p, "scan") /\ b_count[bh[p]] = 0
  /\ Goes(p, "victim")
  /\ UNCHANGED <<bufs, lists, disk, latest, want, bh, idx, wq>>

ScanOn(p) ==
  /\ \/ At(p, "scan")
     \/ At(p, "victim") /\ ~b_lock[bh[p]]
  /\ b_count[bh[p]] # 0
  /\ LET n == next_free[bh[p]]
     IN  \/ n = free_list /\ Sleeps(p, buffer_wait, "find")
         \/ /\ n # free_list
            /\ bh' = [bh EXCEPT ![p] = n] /\ Goes(p, "scan")
            /\ UNCHANGED <<bufs, lists, disk, latest, want, idx, wq>>

\* For the mutation of MustSync: the victim is reused as it is.
MustSync_Never(b) == FALSE

MustSync(b) == b_dirt[b]

NextHead(b) == IF free_list = b THEN next_free[b] ELSE free_list

RemoveFromQueues(b) ==
  /\ hashed' = hashed \ {b}
  /\ next_free' = [next_free EXCEPT ![prev_free[b]] = next_free[b]]
  /\ prev_free' = [prev_free EXCEPT ![next_free[b]] = prev_free[b]]
  /\ free_list' = NextHead(b)

\* insert_into_queues; the hash chains take buffers with a device only.
InsertIntoQueues(b, dev) ==
  /\ next_free' = [next_free EXCEPT ![b] = free_list, ![prev_free[free_list]] = b]
  /\ prev_free' = [prev_free EXCEPT ![b] = prev_free[free_list], ![free_list] = b]
  /\ hashed' = IF dev = 0 THEN hashed ELSE hashed \cup {b}
  /\ UNCHANGED free_list

\* The victim is held, taken off both lists and, if dirty, written out by
\* sync_dev, with every other dirty buffer of the device.
TakeVictim(p) ==
  LET b == bh[p]
  IN  /\ At(p, "victim") /\ ~b_lock[b] /\ b_count[b] = 0
      /\ Hold(b)
      /\ RemoveFromQueues(b)
      /\ idx' = [idx EXCEPT ![p] = 1]
      /\ Goes(p, IF MustSync(b) THEN "sync" ELSE "taken")
      /\ UNCHANGED <<b_block, b_dirt, b_uptodate, b_lock, b_data, requests, disk, latest, want, bh, wq>>

\* sys_sync, behind sync_inodes; its process has no buffer in hand.
Sync(p) ==
  /\ At(p, "user")
  /\ bh' = [bh EXCEPT ![p] = 0] /\ idx' = [idx EXCEPT ![p] = 1]
  /\ Goes(p, "sync")
  /\ UNCHANGED <<bufs, lists, disk, latest, want, wq>>

\* One round of the loop of sync_dev or sys_sync.
SyncNext(p) ==
  LET i == idx[p]
  IN  /\ \/ /\ At(p, "sync") /\ i <= NR_BUFFERS /\ ~b_lock[i]
            /\ \/ /\ b_dirt[i] /\ b_block[i] # 0
                  /\ Submit(i, "write") /\ Goes(p, "write") /\ UNCHANGED idx
               \/ /\ ~(b_dirt[i] /\ b_block[i] # 0)
                  /\ idx' = [idx EXCEPT ![p] = @ + 1] /\ Goes(p, "sync")
                  /\ UNCHANGED <<b_lock, requests>>
         \/ /\ At(p, "write") /\ ~b_lock[i]
            /\ idx' = [idx EXCEPT ![p] = @ + 1] /\ Goes(p, "sync")
            /\ UNCHANGED <<b_lock, requests>>
         \/ /\ At(p, "sync") /\ i > NR_BUFFERS
            /\ IF bh[p] = 0 THEN Leaves(p, "user") ELSE Goes(p, "taken")
            /\ UNCHANGED <<b_lock, requests, idx>>
      /\ UNCHANGED <<b_block, b_count, b_dirt, b_uptodate, b_data, lists, disk, latest, want, bh, wq>>

\* For the mutation of Beaten: nobody is expected to have been faster.
Beaten_Never(k) == FALSE

\* Somebody else has made a buffer for the block meanwhile.
Beaten(k) == Found(k) # {}

\* The victim becomes the block's, or goes back to the free list without one.
Install(p) ==
  LET b == bh[p]
      beaten == Beaten(want[p])
  IN  /\ At(p, "taken")
      /\ b_block' = [b_block EXCEPT ![b] = IF beaten THEN 0 ELSE want[p]]
      /\ b_count' = [b_count EXCEPT ![b] = IF beaten THEN 0 ELSE @]
      /\ b_dirt' = [b_dirt EXCEPT ![b] = FALSE]
      /\ b_uptodate' = [b_uptodate EXCEPT ![b] = FALSE]
      /\ InsertIntoQueues(b, IF beaten THEN 0 ELSE 1)
      /\ Goes(p, IF beaten THEN "find" ELSE "got")
      /\ UNCHANGED <<b_lock, b_data, requests, disk, latest, want, bh, idx, wq>>

\* bread: the buffer is as it should be, or is read.
Got(p) ==
  /\ At(p, "got")
  /\ \/ b_uptodate[bh[p]] /\ Leaves(p, "hold") /\ UNCHANGED <<b_lock, requests>>
     \/ ~b_uptodate[bh[p]] /\ Submit(bh[p], "read") /\ Goes(p, "read")
  /\ UNCHANGED <<b_block, b_count, b_dirt, b_uptodate, b_data, lists, disk, latest, want, bh, idx, wq>>

\* Behind the read: a buffer that could not be read is released.
ReadDone(p) ==
  /\ At(p, "read") /\ ~b_lock[bh[p]]
  /\ \/ b_uptodate[bh[p]] /\ Leaves(p, "hold") /\ UNCHANGED <<b_count, wq>>
     \/ ~b_uptodate[bh[p]] /\ Brelse(bh[p]) /\ Leaves(p, "user")
  /\ UNCHANGED <<b_block, b_dirt, b_uptodate, b_lock, b_data, requests, lists, disk, latest, want, bh, idx>>

\* The holder changes the contents, as block_write does; it does not lock.
Modify(p) ==
  LET b == bh[p]
  IN  /\ At(p, "hold") /\ latest[want[p]] < MaxVersion
      /\ b_data' = [b_data EXCEPT ![b] = latest[want[p]] + 1]
      /\ latest' = [latest EXCEPT ![want[p]] = @ + 1]
      /\ b_dirt' = [b_dirt EXCEPT ![b] = TRUE]
      /\ UNCHANGED <<b_block, b_count, b_uptodate, b_lock, requests, lists, disk, cpc, want, bh, idx, wq, cpu>>

Release(p) ==
  /\ At(p, "hold")
  /\ Goes(p, "brelse")
  /\ UNCHANGED <<bufs, lists, disk, latest, want, bh, idx, wq>>

Released(p) ==
  /\ At(p, "brelse") /\ ~b_lock[bh[p]]
  /\ Brelse(bh[p]) /\ Leaves(p, "user")
  /\ UNCHANGED <<b_block, b_dirt, b_uptodate, b_lock, b_data, requests, lists, disk, latest, want, bh, idx>>

WaitOnBuffer(p) ==
  \/ \E l \in {"found", "victim", "read", "brelse"} : Waits(p, bh[p], l)
  \/ idx[p] <= NR_BUFFERS /\ (Waits(p, idx[p], "sync") \/ Waits(p, idx[p], "write"))

\* Requests for the same block are served in their order, others in any.
Served(i) == \A j \in 1 .. i - 1 : requests[j].block # requests[i].block

\* do_request and write_intr send the contents some time before the transfer ends.
DiskTakes(i) ==
  LET r == requests[i]
  IN  /\ r.cmd = "write" /\ Served(i) /\ r.sent # b_data[r.bh]
      /\ requests' = [requests EXCEPT ![i].sent = b_data[r.bh]]
      /\ UNCHANGED <<b_block, b_count, b_dirt, b_uptodate, b_lock, b_data, lists, disk, latest, cpc, want, bh, idx, wq, cpu>>

(***************************************************************************)
(* read_intr, write_intr, and bad_rw_intr after the last retry: the end of *)
(* a transfer, at any time.                                                *)
(***************************************************************************)
DiskInterrupt(i, ok) ==
  LET r == requests[i]
      b == r.bh
  IN  /\ Served(i) /\ (r.cmd = "write" /\ ok => r.sent # 0)
      /\ requests' = SubSeq(requests, 1, i - 1) \o SubSeq(requests, i + 1, Len(requests))
      /\ b_lock' = [b_lock EXCEPT ![b] = FALSE]
      /\ b_uptodate' = [b_uptodate EXCEPT ![b] = ok]
      /\ b_dirt' = [b_dirt EXCEPT ![b] = ~ok /\ @]
      /\ b_data' = IF ok /\ r.cmd = "read" THEN [b_data EXCEPT ![b] = disk[r.block]] ELSE b_data
      /\ disk' = IF ok /\ r.cmd = "write" THEN [disk EXCEPT ![r.block] = r.sent] ELSE disk
      /\ wq' = WakeUp(wq, b)
      /\ UNCHANGED <<b_block, b_count, lists, latest, cpc, want, bh, idx, cpu>>

-----------------------------------------------------------------------------
\* buffer_init, with every buffer on the free list; held is what the buffers have
\* been filled with since, and pins are the ones read_super keeps.
CInit(held, pins) ==
  /\ b_block = held /\ pinned = pins
  /\ b_count = [b \in Buffers |-> IF b \in pins THEN 1 ELSE 0]
  /\ b_data = [b \in Buffers |-> 0]
  /\ b_dirt = [b \in Buffers |-> FALSE] /\ b_lock = b_dirt
  /\ b_uptodate = [b \in Buffers |-> held[b] # 0]
  /\ hashed = {b \in Buffers : held[b] # 0} /\ free_list = 1
  /\ next_free = [b \in Buffers |-> IF b = NR_BUFFERS THEN 1 ELSE b + 1]
  /\ prev_free = [b \in Buffers |-> IF b = 1 THEN NR_BUFFERS ELSE b - 1]
  /\ requests = <<>>
  /\ disk = [k \in Blocks |-> 0] /\ latest = disk
  /\ cpc = [p \in Processes |-> "user"] /\ want = [p \in Processes |-> 0]
  /\ bh = want /\ idx = [p \in Processes |-> 1]
  /\ wq = NoSleepers(Buffers \cup {buffer_wait}, Processes) /\ cpu = NoTask

\* The kernel's own steps.
InKernel(p) ==
  \/ Resumes(p) \/ WaitOnBuffer(p)
  \/ FindBuffer(p) \/ FoundCheck(p) \/ Scan(p) \/ ScanOn(p) \/ TakeVictim(p)
  \/ SyncNext(p) \/ Install(p) \/ Got(p) \/ ReadDone(p) \/ Released(p)

DiskWorks ==
  \E i \in DOMAIN requests : DiskTakes(i) \/ \E ok \in Results : DiskInterrupt(i, ok)

CNext ==
  /\ \/ DiskWorks
     \/ \E p \in Processes :
          \/ InKernel(p) \/ Sync(p) \/ Modify(p) \/ Release(p)
          \/ \E k \in Blocks : Bread(p, k)
  /\ UNCHANGED pinned

CSpec == CInit([b \in Buffers |-> 0], {}) /\ [][CNext]_cvars

-----------------------------------------------------------------------------
\* Buffers have blocks, and counts that are not negative.
CTypeOK ==
  /\ b_block \in [Buffers -> Blocks \cup {0}]
  /\ b_count \in [Buffers -> 0 .. Cardinality(Processes) + 1]
  /\ hashed \subseteq Buffers /\ free_list \in Buffers
  /\ \A i \in DOMAIN requests : requests[i].bh \in Buffers /\ requests[i].sent \in 0 .. MaxVersion
  /\ bh \in [Processes -> Buffers \cup {0}] /\ idx \in [Processes -> 1 .. NR_BUFFERS + 1]

\* The labels between getblk taking hold of a buffer and brelse.
Holding == {"found", "sync", "write", "taken", "got", "read", "hold", "brelse"}

Holders(b) == {p \in Processes : bh[p] = b /\ cpc[p] \in Holding}

\* getblk and brelse: b_count is the number of processes between the two, so
\* brelse never finds 0 ("Trying to free free buffer").
CountIsHolders ==
  \A b \in Buffers : b_count[b] = Cardinality(Holders(b)) + (IF b \in pinned THEN 1 ELSE 0)

\* getblk: a block is never in two buffers, whatever happened while the caller
\* slept in sync_dev.
OneBufferPerBlock == \A b, c \in hashed : b_block[b] = b_block[c] => b = c

\* get_hash_table and getblk: a buffer stays the block it was asked for from the
\* moment it is found until it is released, the wait for its lock included.
HeldKeepsBlock ==
  \A p \in Processes : cpc[p] \in {"found", "got", "read", "hold", "brelse"} =>
    b_block[bh[p]] = want[p] /\ bh[p] \in hashed

\* getblk: a buffer marked as modified is not given to another block, unless the
\* disk could not write it.
NoDirtyReuse ==
  [][\A b \in Buffers : b_block[b] # 0 /\ b_block'[b] # b_block[b] =>
        ~b_dirt[b] \/ ~b_uptodate[b]]_cvars

\* The buffers that getblk has not taken out of the free list.
Ringed == {b \in Buffers : \A p \in Holders(b) : cpc[p] \notin {"sync", "write", "taken"}}

\* remove_from_queues and insert_into_queues: outside of getblk's hands the free
\* list is one ring, in both directions.
FreeListIsRing ==
  /\ free_list \in Ringed
  /\ \A b \in Ringed : next_free[b] \in Ringed /\ prev_free[next_free[b]] = b
  /\ \A b \in Ringed : prev_free[b] \in Ringed /\ next_free[prev_free[b]] = b
  /\ \A S \in SUBSET Ringed : S # {} /\ (\A b \in S : next_free[b] \in S) => S = Ringed

\* getblk against brelse, and wait_on_buffer against the interrupt: a process
\* sleeps for a free buffer only while somebody has one to release, and on a
\* buffer only while it is locked.
SleepersHaveReason ==
  /\ wq.head[buffer_wait] # NoTask =>
       \E q \in Processes \ {wq.head[buffer_wait]} : cpc[q] \in Holding \cup {"find"}
  /\ \A b \in Buffers : wq.head[b] # NoTask => b_lock[b]

\* sleep_on: no sleeper is out of reach of the one wake_up that its queue gets.
CacheSleepersReached == NoneLost(wq)

\* The comment in getblk that it can sleep "without fear of race-conditions": a
\* buffer that is up to date has what was last written to its block.
BufferIsCurrent == \A b \in hashed : b_uptodate[b] => b_data[b] = latest[b_block[b]]

\* getblk, bread and brelse with sleeps between any two: a buffer has one block, its
\* count is that of its holders, who keep it, the free list is whole, and nobody
\* sleeps for what is there already.
BuffersSound ==
  CTypeOK /\ CountIsHolders /\ OneBufferPerBlock /\ HeldKeepsBlock /\ FreeListIsRing /\ SleepersHaveReason

=============================================================================
