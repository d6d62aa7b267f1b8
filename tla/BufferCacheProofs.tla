-------------------------- MODULE BufferCacheProofs --------------------------
(***************************************************************************)
(* Proofs about the buffer cache, for any number of buffers, blocks and    *)
(* processes: sleep_on and wake_up, as it uses them, lose no sleeper.      *)
(* Then the parts of the inductive invariant of BuffersSound that need     *)
(* no counting: the ring of the free list, the pointers to sleepers, the   *)
(* requests of the disk, and the loops of getblk, in which a process       *)
(* sleeps only while somebody is going to wake it and a victim that        *)
(* sync_dev has been past stays clean.  BufferHoldProofs counts.           *)
(***************************************************************************)
EXTENDS BufferCache, TLAPS

\* A number of a buffer, and the step of a loop over the buffers.
LEMMA LoopNumbers ==
  /\ \A b \in Buffers : b \in Int /\ ~(1 > b) /\ b <= NR_BUFFERS
  /\ \A m, n \in Int : m + 1 > n => m > n \/ m = n
  /\ \A m, n, k \in Int : m > n /\ k <= n => m > k
BY CacheAssumption DEF Buffers

\* Storing what is there changes nothing.
LEMMA SameAgain ==
  ASSUME NEW S, NEW T, NEW f \in [S -> T], NEW x
  PROVE  [f EXCEPT ![x] = f[x]] = f
OBVIOUS

Queues == Buffers \cup {buffer_wait}

SleepState ==
  [head : [Queues -> Processes \cup {NoTask}], tmp : [Processes -> Processes \cup {NoTask}],
   inside : SUBSET Processes, asleep : SUBSET Processes]

QueueInv == wq \in SleepState /\ NoneLost(wq)

-----------------------------------------------------------------------------
\* sleep_on: the task that goes to sleep keeps the one the queue pointed to.
LEMMA SleepOnLosesNone ==
  ASSUME NEW w \in SleepState, NoneLost(w), NEW t \in Processes, t \notin w.inside,
         NEW q \in Queues
  PROVE  SleepOn(w, t, q) \in SleepState /\ NoneLost(SleepOn(w, t, q))
<1> DEFINE v == SleepOn(w, t, q)
<1>1. /\ v.head = [w.head EXCEPT ![q] = t] /\ v.tmp = [w.tmp EXCEPT ![t] = w.head[q]]
      /\ v.inside = w.inside \cup {t} /\ v.asleep = w.asleep \cup {t}
  BY DEF SleepOn, SleepState
<1>2. v \in SleepState
  BY Zenon DEF SleepOn, SleepState
<1>3. DOMAIN v.head = Queues /\ DOMAIN w.head = Queues
  BY <1>1 DEF SleepState
<1> HIDE DEF v
<1>4. ASSUME NEW u \in v.asleep
      PROVE  (\E r \in DOMAIN v.head : v.head[r] = u) \/ \E x \in v.inside : v.tmp[x] = u
  <2>1. CASE u = t
    BY <1>1, <1>3, <2>1 DEF SleepState
  <2>2. CASE u \in w.asleep /\ \E r \in DOMAIN w.head : w.head[r] = u
    BY <1>1, <1>3, <2>2 DEF SleepState
  <2>3. CASE u \in w.asleep /\ \E x \in w.inside : w.tmp[x] = u
    BY <1>1, <1>3, <2>3 DEF SleepState
  <2>4. QED
    BY <1>1, <1>4, <2>1, <2>2, <2>3 DEF NoneLost
<1>5. QED
  BY <1>2, <1>4 DEF NoneLost, v

\* sleep_on behind schedule(): whom the task kept, it wakes.
LEMMA SleptOnLosesNone ==
  ASSUME NEW w \in SleepState, NoneLost(w), NEW t \in Processes
  PROVE  SleptOn(w, t) \in SleepState /\ NoneLost(SleptOn(w, t))
<1> DEFINE v == SleptOn(w, t)
<1>1. /\ v.head = w.head /\ v.tmp = [w.tmp EXCEPT ![t] = NoTask]
      /\ v.inside = w.inside \ {t} /\ v.asleep = w.asleep \ {w.tmp[t]}
  BY DEF SleptOn, SleepState
<1>2. v \in SleepState
  BY Zenon DEF SleptOn, SleepState
<1> HIDE DEF v
<1>3. ASSUME NEW u \in v.asleep
      PROVE  (\E r \in DOMAIN v.head : v.head[r] = u) \/ \E x \in v.inside : v.tmp[x] = u
  <2>1. CASE \E r \in DOMAIN w.head : w.head[r] = u
    BY <1>1, <2>1
  <2>2. CASE \E x \in w.inside : w.tmp[x] = u
    BY <1>1, <1>3, <2>2 DEF SleepState
  <2>3. QED
    BY <1>1, <1>3, <2>1, <2>2 DEF NoneLost
<1>4. QED
  BY <1>2, <1>3 DEF NoneLost, v

\* wake_up: the one the queue points to is woken, and the queue is empty.
LEMMA WakeUpLosesNone ==
  ASSUME NEW w \in SleepState, NoneLost(w), NEW q
  PROVE  WakeUp(w, q) \in SleepState /\ NoneLost(WakeUp(w, q))
<1>1. CASE w.head[q] = NoTask
  BY <1>1 DEF WakeUp
<1>2. CASE w.head[q] # NoTask
  <2> DEFINE v == WakeUp(w, q)
  <2>1. /\ v.head = [w.head EXCEPT ![q] = NoTask] /\ v.tmp = w.tmp
        /\ v.inside = w.inside /\ v.asleep = w.asleep \ {w.head[q]}
    BY <1>2 DEF WakeUp, SleepState
  <2>2. v \in SleepState
    BY <1>2, Zenon DEF WakeUp, SleepState
  <2> HIDE DEF v
  <2>3. ASSUME NEW u \in v.asleep
        PROVE  (\E r \in DOMAIN v.head : v.head[r] = u) \/ \E x \in v.inside : v.tmp[x] = u
    <3>1. CASE \E r \in DOMAIN w.head : w.head[r] = u
      BY <2>1, <2>3, <3>1 DEF SleepState
    <3>2. CASE \E x \in w.inside : w.tmp[x] = u
      BY <2>1, <3>2
    <3>3. QED
      BY <2>1, <2>3, <3>1, <3>2 DEF NoneLost
  <2>4. QED
    BY <2>2, <2>3 DEF NoneLost, v
<1>3. QED
  BY <1>1, <1>2

-----------------------------------------------------------------------------
\* Where a process has a buffer in its hands.
InHand == {"found", "scan", "victim", "taken", "got", "read", "hold", "brelse"}
Labels == InHand \cup {"user", "find", "sync", "write"}

ListInv ==
  /\ next_free \in [Buffers -> Buffers] /\ prev_free \in [Buffers -> Buffers]
  /\ free_list \in Buffers /\ hashed \subseteq Buffers

(***************************************************************************)
(* sleep_on is called for the queue of a buffer that exists: what getblk   *)
(* finds, in the hash chains or on the free list, is a buffer, and the     *)
(* loops of sync_dev and sys_sync stay in the table.                       *)
(***************************************************************************)
HandInv ==
  /\ cpc \in [Processes -> Labels] /\ bh \in [Processes -> Buffers \cup {0}]
  /\ idx \in [Processes -> Nat \ {0}]
  /\ \A p \in Processes : cpc[p] \in InHand => bh[p] \in Buffers

CacheInv == QueueInv /\ ListInv /\ HandInv

\* A process goes on at another label and perhaps with another buffer.
LEMMA MovingOnKeepsHands ==
  ASSUME HandInv, NEW p \in Processes, NEW l \in Labels, NEW b \in Buffers \cup {0},
         l \in InHand => b \in Buffers,
         cpc' = [cpc EXCEPT ![p] = l], bh' = [bh EXCEPT ![p] = b],
         idx' \in [Processes -> Nat \ {0}]
  PROVE  HandInv'
BY Zenon DEF HandInv

\* The same, when the process keeps its buffer.
LEMMA KeepingOnKeepsHands ==
  ASSUME HandInv, NEW p \in Processes, NEW l \in Labels,
         l \in InHand => bh[p] \in Buffers,
         cpc' = [cpc EXCEPT ![p] = l], bh' = bh, idx' \in [Processes -> Nat \ {0}]
  PROVE  HandInv'
BY Zenon DEF HandInv

\* wait_on_buffer: the process tests b_lock again where it was.
LEMMA WaitingStays ==
  ASSUME HandInv, NEW p \in Processes, WaitOnBuffer(p)
  PROVE  UNCHANGED <<cpc, bufs, lists, disk, latest, want, bh, idx>>
<1>1. PICK b, l : Waits(p, b, l)
  BY Zenon DEF WaitOnBuffer
<1>2. /\ cpc[p] = l /\ cpc' = [cpc EXCEPT ![p] = l]
      /\ UNCHANGED <<bufs, lists, disk, latest, want, bh, idx>>
  BY <1>1, Zenon DEF Waits, At, Sleeps, Leaves
<1>3. cpc' = cpc
  BY <1>2 DEF HandInv
<1>4. QED
  BY <1>2, <1>3, Zenon

\* wait_on_buffer, and the sleep for a free buffer.
LEMMA SleepsKeepsInv ==
  ASSUME CacheInv, NEW p \in Processes, NEW q \in Queues, NEW l \in Labels,
         p \notin wq.inside, l \in InHand => bh[p] \in Buffers, Sleeps(p, q, l)
  PROVE  CacheInv'
<1>1. QueueInv'
  BY SleepOnLosesNone DEF Sleeps, CacheInv, QueueInv
<1>2. ListInv'
  BY DEF Sleeps, CacheInv, ListInv, lists
<1>3. HandInv'
  BY KeepingOnKeepsHands DEF Sleeps, Leaves, CacheInv, HandInv
<1>4. QED
  BY <1>1, <1>2, <1>3 DEF CacheInv

\* A step that leaves the queues and the lists alone.
LEMMA OnlyHands ==
  ASSUME CacheInv, HandInv', UNCHANGED <<lists, wq>>
  PROVE  CacheInv'
BY DEF CacheInv, QueueInv, ListInv, lists

\* A step that wakes a queue up and leaves the lists alone.
LEMMA WakesUpKeepsInv ==
  ASSUME CacheInv, HandInv', UNCHANGED lists, NEW q, wq' = WakeUp(wq, q)
  PROVE  CacheInv'
<1>1. QueueInv'
  BY WakeUpLosesNone DEF CacheInv, QueueInv
<1>2. QED
  BY <1>1 DEF CacheInv, ListInv, lists

-----------------------------------------------------------------------------
\* remove_from_queues and insert_into_queues keep the list inside the table.
LEMMA QueuesKeepList ==
  ASSUME ListInv, NEW b \in Buffers, NEW dev, RemoveFromQueues(b) \/ InsertIntoQueues(b, dev)
  PROVE  ListInv'
<1>1. CASE RemoveFromQueues(b)
  BY <1>1 DEF ListInv, RemoveFromQueues, NextHead
<1>2. CASE InsertIntoQueues(b, dev)
  BY <1>2 DEF ListInv, InsertIntoQueues
<1>3. QED
  BY <1>1, <1>2

\* The kernel's steps for a process in getblk, bread, brelse and sync.
LEMMA InKernelKeepsInv ==
  ASSUME CacheInv, NEW p \in Processes, InKernel(p)
  PROVE  CacheInv'
<1>0. /\ cpc[p] \in Labels /\ bh[p] \in Buffers \cup {0} /\ idx[p] \in Nat \ {0}
      /\ cpc[p] \in InHand => bh[p] \in Buffers
      /\ idx \in [Processes -> Nat \ {0}] /\ HandInv
  BY DEF CacheInv, HandInv
<1>1. CASE Resumes(p)
  <2>1. QueueInv'
    BY <1>1, SleptOnLosesNone DEF Resumes, CacheInv, QueueInv
  <2>2. QED
    BY <1>1, <2>1 DEF Resumes, CacheInv, ListInv, HandInv, lists
<1>2. CASE WaitOnBuffer(p)
  <2>1. ASSUME NEW l \in {"found", "victim", "read", "brelse"}, Waits(p, bh[p], l)
        PROVE  CacheInv'
    <3>1. l \in InHand /\ l \in Labels /\ bh[p] \in Buffers /\ bh[p] \in Queues
      BY <1>0, <2>1 DEF Waits, At, InHand, Labels, Queues
    <3>2. p \notin wq.inside /\ Sleeps(p, bh[p], l)
      BY <2>1 DEF Waits, At
    <3>3. QED
      BY <3>1, <3>2, SleepsKeepsInv
  <2>2. ASSUME NEW l \in {"sync", "write"}, idx[p] <= NR_BUFFERS, Waits(p, idx[p], l)
        PROVE  CacheInv'
    <3>1. l \in Labels /\ l \notin InHand
      BY DEF InHand, Labels
    <3>2. idx[p] \in Queues
      BY <1>0, <2>2, CacheAssumption DEF Queues, Buffers
    <3>3. p \notin wq.inside /\ Sleeps(p, idx[p], l)
      BY <2>2 DEF Waits, At
    <3>4. QED
      BY <3>1, <3>2, <3>3, SleepsKeepsInv
  <2>3. QED
    BY <1>2, <2>1, <2>2 DEF WaitOnBuffer
<1>3. CASE FindBuffer(p)
  <2>1. ASSUME NEW b \in Found(want[p]), bh' = [bh EXCEPT ![p] = b], Goes(p, "found")
        PROVE  HandInv'
    <3>1. b \in Buffers /\ "found" \in Labels
      BY DEF Found, CacheInv, ListInv, InHand, Labels
    <3>2. QED
      BY <1>0, <1>3, <2>1, <3>1, MovingOnKeepsHands, Zenon DEF Goes, FindBuffer
  <2>2. ASSUME bh' = [bh EXCEPT ![p] = free_list], Goes(p, "scan")
        PROVE  HandInv'
    <3>1. free_list \in Buffers /\ "scan" \in Labels
      BY DEF CacheInv, ListInv, InHand, Labels
    <3>2. QED
      BY <1>0, <1>3, <2>2, <3>1, MovingOnKeepsHands, Zenon DEF Goes, FindBuffer
  <2>3. HandInv'
    BY <1>3, <2>1, <2>2 DEF FindBuffer
  <2>4. QED
    BY <1>3, <2>3, OnlyHands DEF FindBuffer
<1>4. CASE FoundCheck(p)
  <2>1. bh[p] \in Buffers /\ {"got", "find"} \subseteq Labels
    BY <1>0, <1>4 DEF FoundCheck, At, InHand, Labels
  <2>2. HandInv'
    BY <1>0, <1>4, <2>1, KeepingOnKeepsHands DEF FoundCheck, Goes
  <2>3. CASE UNCHANGED wq
    BY <1>4, <2>2, <2>3, OnlyHands DEF FoundCheck
  <2>4. CASE Brelse(bh[p])
    BY <1>4, <2>2, <2>4, WakesUpKeepsInv DEF FoundCheck, Brelse
  <2>5. QED
    BY <1>4, <2>3, <2>4 DEF FoundCheck
<1>5. CASE Scan(p)
  <2>1. bh[p] \in Buffers /\ "victim" \in Labels
    BY <1>0, <1>5 DEF Scan, At, InHand, Labels
  <2>2. HandInv'
    BY <1>0, <1>5, <2>1, KeepingOnKeepsHands, Zenon DEF Scan, Goes
  <2>3. QED
    BY <1>5, <2>2, OnlyHands DEF Scan
<1>6. CASE ScanOn(p)
  <2>1. /\ bh[p] \in Buffers /\ p \notin wq.inside /\ {"find", "scan"} \subseteq Labels
        /\ "find" \notin InHand /\ buffer_wait \in Queues /\ next_free[bh[p]] \in Buffers
    BY <1>0, <1>6 DEF ScanOn, At, InHand, Labels, Queues, CacheInv, ListInv
  <2>2. CASE Sleeps(p, buffer_wait, "find")
    BY <2>1, <2>2, SleepsKeepsInv
  <2>3. CASE /\ bh' = [bh EXCEPT ![p] = next_free[bh[p]]] /\ Goes(p, "scan")
             /\ UNCHANGED <<bufs, lists, disk, latest, want, idx, wq>>
    <3>1. HandInv'
      BY <1>0, <2>1, <2>3, MovingOnKeepsHands, Zenon DEF Goes
    <3>2. QED
      BY <2>3, <3>1, OnlyHands
  <2>4. QED
    BY <1>6, <2>2, <2>3 DEF ScanOn
<1>7. CASE TakeVictim(p)
  <2>1. bh[p] \in Buffers /\ {"sync", "taken"} \subseteq Labels
    BY <1>0, <1>7 DEF TakeVictim, At, InHand, Labels
  <2>2. HandInv'
    <3>1. idx' \in [Processes -> Nat \ {0}] /\ bh' = bh
      BY <1>0, <1>7 DEF TakeVictim
    <3>2. PICK l \in {"sync", "taken"} : cpc' = [cpc EXCEPT ![p] = l]
      BY <1>7, Zenon DEF TakeVictim, Goes
    <3>3. QED
      BY <1>0, <2>1, <3>1, <3>2, KeepingOnKeepsHands, Zenon
  <2>3. ListInv'
    BY <1>7, <2>1, QueuesKeepList DEF TakeVictim, CacheInv
  <2>4. QED
    BY <1>7, <2>2, <2>3 DEF TakeVictim, CacheInv, QueueInv
<1>8. CASE SyncNext(p)
  <2>1. idx' \in [Processes -> Nat \ {0}] /\ {"write", "sync", "user", "taken"} \subseteq Labels
    BY <1>0, <1>8 DEF SyncNext, InHand, Labels
  <2>2. {"write", "sync", "user"} \cap InHand = {}
    BY DEF InHand
  <2>3. CASE cpc' = [cpc EXCEPT ![p] = "write"] \/ cpc' = [cpc EXCEPT ![p] = "sync"]
             \/ cpc' = [cpc EXCEPT ![p] = "user"]
    <3>1. HandInv'
      BY <1>0, <1>8, <2>1, <2>2, <2>3, KeepingOnKeepsHands DEF SyncNext
    <3>2. QED
      BY <1>8, <3>1, OnlyHands DEF SyncNext
  <2>4. CASE bh[p] # 0 /\ cpc' = [cpc EXCEPT ![p] = "taken"]
    <3>1. HandInv'
      BY <1>0, <1>8, <2>1, <2>4, KeepingOnKeepsHands, Zenon DEF SyncNext
    <3>2. QED
      BY <1>8, <3>1, OnlyHands DEF SyncNext
  <2>5. QED
    BY <1>8, <2>3, <2>4 DEF SyncNext, Goes, Leaves
<1>9. CASE Install(p)
  <2>1. bh[p] \in Buffers /\ {"find", "got"} \subseteq Labels
    BY <1>0, <1>9 DEF Install, At, InHand, Labels
  <2>2. HandInv'
    BY <1>0, <1>9, <2>1, KeepingOnKeepsHands, Zenon DEF Install, Goes
  <2>3. ListInv'
    BY <1>9, <2>1, QueuesKeepList, Zenon DEF Install, CacheInv
  <2>4. QED
    BY <1>9, <2>2, <2>3 DEF Install, CacheInv, QueueInv
<1>10. CASE Got(p)
  <2>1. bh[p] \in Buffers /\ {"hold", "read"} \subseteq Labels
    BY <1>0, <1>10 DEF Got, At, InHand, Labels
  <2>2. HandInv'
    BY <1>0, <1>10, <2>1, KeepingOnKeepsHands, Zenon DEF Got, Goes, Leaves
  <2>3. QED
    BY <1>10, <2>2, OnlyHands, Zenon DEF Got
<1>11. CASE ReadDone(p)
  <2>1. bh[p] \in Buffers /\ {"hold", "user"} \subseteq Labels
    BY <1>0, <1>11 DEF ReadDone, At, InHand, Labels
  <2>2. HandInv'
    BY <1>0, <1>11, <2>1, KeepingOnKeepsHands, Zenon DEF ReadDone, Leaves
  <2>3. CASE UNCHANGED wq
    BY <1>11, <2>2, <2>3, OnlyHands DEF ReadDone
  <2>4. CASE Brelse(bh[p])
    BY <1>11, <2>2, <2>4, WakesUpKeepsInv DEF ReadDone, Brelse
  <2>5. QED
    BY <1>11, <2>3, <2>4 DEF ReadDone
<1>12. CASE Released(p)
  <2>1. "user" \in Labels /\ "user" \notin InHand
    BY DEF InHand, Labels
  <2>2. HandInv'
    BY <1>0, <1>12, <2>1, KeepingOnKeepsHands, Zenon DEF Released, Leaves
  <2>3. QED
    BY <1>12, <2>2, WakesUpKeepsInv DEF Released, Brelse
<1>13. QED
  BY <1>1, <1>2, <1>3, <1>4, <1>5, <1>6, <1>7, <1>8, <1>9, <1>10, <1>11, <1>12 DEF InKernel

LEMMA CacheInit ==
  ASSUME CInit([b \in Buffers |-> 0], {})
  PROVE  CacheInv
<1>1. QueueInv
  BY DEF CInit, QueueInv, NoSleepers, NoneLost, SleepState, Queues
<1>2. ListInv
  BY CacheAssumption DEF CInit, ListInv, Buffers
<1>3. HandInv
  BY DEF CInit, HandInv, Labels, InHand
<1>4. QED
  BY <1>1, <1>2, <1>3 DEF CacheInv

LEMMA CacheStep ==
  ASSUME CacheInv, [CNext]_cvars
  PROVE  CacheInv'
<1>0. HandInv /\ idx \in [Processes -> Nat \ {0}]
  BY DEF CacheInv, HandInv
<1>1. ASSUME NEW p \in Processes, InKernel(p)
      PROVE  CacheInv'
  BY <1>1, InKernelKeepsInv
<1>2. ASSUME NEW p \in Processes, Sync(p)
      PROVE  CacheInv'
  <2>1. "sync" \in Labels /\ "sync" \notin InHand /\ 0 \in Buffers \cup {0}
    BY DEF InHand, Labels
  <2>2. idx' \in [Processes -> Nat \ {0}]
    BY <1>0, <1>2 DEF Sync
  <2>3. HandInv'
    BY <1>0, <1>2, <2>1, <2>2, MovingOnKeepsHands, Zenon DEF Sync, Goes
  <2>4. QED
    BY <1>2, <2>3, OnlyHands DEF Sync
<1>3. ASSUME NEW p \in Processes, NEW k \in Blocks, Bread(p, k)
      PROVE  CacheInv'
  <2>1. "find" \in Labels /\ "find" \notin InHand
    BY DEF InHand, Labels
  <2>2. HandInv'
    BY <1>0, <1>3, <2>1, KeepingOnKeepsHands, Zenon DEF Bread, Goes
  <2>3. QED
    BY <1>3, <2>2, OnlyHands DEF Bread
<1>4. ASSUME NEW p \in Processes, Modify(p)
      PROVE  CacheInv'
  BY <1>4, OnlyHands DEF Modify, CacheInv, HandInv
<1>5. ASSUME NEW p \in Processes, Release(p)
      PROVE  CacheInv'
  <2>1. "brelse" \in Labels /\ bh[p] \in Buffers
    BY <1>0, <1>5 DEF Release, At, HandInv, InHand, Labels
  <2>2. HandInv'
    BY <1>0, <1>5, <2>1, KeepingOnKeepsHands, Zenon DEF Release, Goes
  <2>3. QED
    BY <1>5, <2>2, OnlyHands DEF Release
<1>6. ASSUME NEW i \in DOMAIN requests, DiskTakes(i)
      PROVE  CacheInv'
  BY <1>6, OnlyHands DEF DiskTakes, CacheInv, HandInv
<1>7. ASSUME NEW i \in DOMAIN requests, NEW ok \in Results, DiskInterrupt(i, ok)
      PROVE  CacheInv'
  <2>1. HandInv' /\ UNCHANGED lists /\ wq' = WakeUp(wq, requests[i].bh)
    BY <1>7 DEF DiskInterrupt, CacheInv, HandInv
  <2>2. QED
    BY <2>1, WakesUpKeepsInv, Zenon
<1>8. CASE UNCHANGED cvars
  BY <1>8 DEF cvars, CacheInv, QueueInv, ListInv, HandInv, lists
<1>9. QED
  BY <1>1, <1>2, <1>3, <1>4, <1>5, <1>6, <1>7, <1>8 DEF CNext, DiskWorks

\* getblk, bread, brelse, sync and the disk's interrupt: a process asleep is what a
\* queue points to or is kept by one that will wake it, however the sleeps on
\* buffers and on buffer_wait interleave.
THEOREM SleepersStayReached == CSpec => []CacheSleepersReached
<1>1. CacheInv => CacheSleepersReached
  BY DEF CacheInv, QueueInv, CacheSleepersReached
<1>2. CInit([b \in Buffers |-> 0], {}) => CacheInv
  BY CacheInit
<1>3. CacheInv /\ [CNext]_cvars => CacheInv'
  BY CacheStep
<1>4. QED
  BY <1>1, <1>2, <1>3, PTL DEF CSpec

-----------------------------------------------------------------------------
\* Where getblk has a buffer that is on neither list, and where a process has one
\* that it found or made for its block.
Taking == {"sync", "write", "taken"}
Keeping == {"found", "got", "read", "hold", "brelse"}

\* remove_from_queues: a victim is out of the hash chains and nobody else has it.
VictimIsOwn ==
  \A p \in Processes : cpc[p] \in Taking /\ bh[p] # 0 =>
    bh[p] \notin hashed /\ Holders(bh[p]) = {p}

(***************************************************************************)
(* What getblk keeps true across its sleeps.  The counts make it work: a   *)
(* buffer somebody holds has a count, and one that has a count is not      *)
(* chosen as a victim.                                                     *)
(***************************************************************************)
HoldInv ==
  /\ pinned = {} /\ b_count \in [Buffers -> Nat]
  /\ b_block \in [Buffers -> Blocks \cup {0}] /\ want \in [Processes -> Blocks \cup {0}]
  /\ CountIsHolders /\ OneBufferPerBlock /\ HeldKeepsBlock /\ VictimIsOwn

LEMMA LabelSets ==
  /\ Holding = Taking \cup Keeping /\ Taking \cap Keeping = {}
  /\ {"user", "find", "scan", "victim"} \cap Holding = {}
BY DEF Holding, Taking, Keeping

-----------------------------------------------------------------------------
\* Followed forwards and backwards the pointers stay in R, and pass all of it.
IsRing(R, next, prev) ==
  /\ \A b \in R : next[b] \in R /\ prev[next[b]] = b
  /\ \A b \in R : prev[b] \in R /\ next[prev[b]] = b
  /\ \A S \in SUBSET R : S # {} /\ (\A b \in S : next[b] \in S) => S = R

\* remove_from_queues: with another buffer left, the ring closes over the gap.
LEMMA RingLosesOne ==
  ASSUME NEW R \in SUBSET Buffers, NEW next \in [Buffers -> Buffers], NEW prev \in [Buffers -> Buffers],
         IsRing(R, next, prev), NEW b \in R, NEW c \in R, c # b
  PROVE  /\ IsRing(R \ {b}, [next EXCEPT ![prev[b]] = next[b]], [prev EXCEPT ![next[b]] = prev[b]])
         /\ next[b] \in R \ {b}
<1> DEFINE n == [next EXCEPT ![prev[b]] = next[b]]
           m == [prev EXCEPT ![next[b]] = prev[b]]
           Q == R \ {b}
<1>1. /\ \A x \in R : next[x] \in R /\ prev[next[x]] = x
      /\ \A x \in R : prev[x] \in R /\ next[prev[x]] = x
  BY DEF IsRing
<1>2. next[b] # b
  <2> SUFFICES ASSUME next[b] = b PROVE FALSE
    OBVIOUS
  <2>1. {b} \in SUBSET R /\ {b} # {} /\ \A x \in {b} : next[x] \in {b}
    OBVIOUS
  <2>2. {b} = R
    BY <2>1, Zenon DEF IsRing
  <2>3. QED
    BY <2>2
<1>3. prev[b] # b /\ prev[b] \in Q /\ next[b] \in Q
  BY <1>1, <1>2
<1>4. \A x \in Q : n[x] = IF x = prev[b] THEN next[b] ELSE next[x]
  OBVIOUS
<1>5. \A x \in Q : m[x] = IF x = next[b] THEN prev[b] ELSE prev[x]
  OBVIOUS
<1> HIDE DEF n, m
<1>6. \A x \in Q : n[x] \in Q /\ m[n[x]] = x
  BY <1>1, <1>3, <1>4, <1>5
<1>7. \A x \in Q : m[x] \in Q /\ n[m[x]] = x
  BY <1>1, <1>3, <1>4, <1>5
<1>8. ASSUME NEW S \in SUBSET Q, S # {}, \A x \in S : n[x] \in S
      PROVE  S = Q
  <2>1. CASE prev[b] \in S
    <3>1. next[b] \in S
      BY <1>3, <1>4, <1>8, <2>1
    <3>2. \A x \in S \cup {b} : next[x] \in S \cup {b}
      BY <1>1, <1>4, <1>8, <3>1
    <3>3. S \cup {b} = R
      <4>1. S \cup {b} \in SUBSET R /\ S \cup {b} # {}
        OBVIOUS
      <4>2. QED
        BY <3>2, <4>1, Zenon DEF IsRing
    <3>4. QED
      BY <3>3
  <2>2. CASE prev[b] \notin S
    <3>1. \A x \in S : next[x] \in S
      BY <1>4, <1>8, <2>2
    <3>2. S = R
      <4>1. S \in SUBSET R
        OBVIOUS
      <4>2. QED
        BY <1>8, <3>1, <4>1 DEF IsRing
    <3>3. QED
      BY <3>2
  <2>3. QED
    BY <2>1, <2>2
<1>9. IsRing(Q, n, m)
  BY <1>6, <1>7, <1>8 DEF IsRing
<1>10. QED
  BY <1>3, <1>9 DEF n, m

\* insert_into_queues: the buffer comes in before the head of the list.
LEMMA RingGainsOne ==
  ASSUME NEW R \in SUBSET Buffers, NEW next \in [Buffers -> Buffers], NEW prev \in [Buffers -> Buffers],
         IsRing(R, next, prev), NEW f \in R, NEW b \in Buffers \ R
  PROVE  IsRing(R \cup {b}, [next EXCEPT ![b] = f, ![prev[f]] = b], [prev EXCEPT ![b] = prev[f], ![f] = b])
<1> DEFINE n == [next EXCEPT ![b] = f, ![prev[f]] = b]
           m == [prev EXCEPT ![b] = prev[f], ![f] = b]
           Q == R \cup {b}
<1>1. /\ \A x \in R : next[x] \in R /\ prev[next[x]] = x
      /\ \A x \in R : prev[x] \in R /\ next[prev[x]] = x
  BY DEF IsRing
<1>2. prev[f] \in R /\ prev[f] # b /\ f # b
  BY <1>1
<1>3. \A x \in Q : n[x] = IF x = b THEN f ELSE IF x = prev[f] THEN b ELSE next[x]
  BY <1>2
<1>4. \A x \in Q : m[x] = IF x = b THEN prev[f] ELSE IF x = f THEN b ELSE prev[x]
  BY <1>2
<1> HIDE DEF n, m
<1>5. \A x \in Q : n[x] \in Q /\ m[n[x]] = x
  BY <1>1, <1>2, <1>3, <1>4
<1>6. \A x \in Q : m[x] \in Q /\ n[m[x]] = x
  BY <1>1, <1>2, <1>3, <1>4
<1>7. ASSUME NEW S \in SUBSET Q, S # {}, \A x \in S : n[x] \in S
      PROVE  S = Q
  <2> DEFINE T == S \ {b}
  <2>1. T \in SUBSET R
    OBVIOUS
  <2>2. T # {}
    <3>1. CASE b \in S
      BY <1>2, <1>3, <1>7, <3>1
    <3>2. CASE b \notin S
      BY <1>7, <3>2
    <3>3. QED
      BY <3>1, <3>2
  <2>3. \A x \in T : next[x] \in T
    <3> SUFFICES ASSUME NEW x \in T PROVE next[x] \in S /\ next[x] \in R
      OBVIOUS
    <3>1. CASE x = prev[f]
      BY <1>1, <1>2, <1>3, <1>7, <3>1
    <3>2. CASE x # prev[f]
      BY <1>1, <1>3, <1>7, <3>2
    <3>3. QED
      BY <3>1, <3>2
  <2>4. T = R
    BY <2>1, <2>2, <2>3, Zenon DEF IsRing
  <2>5. b \in S
    BY <1>2, <1>3, <1>7, <2>4
  <2>6. QED
    BY <2>4, <2>5
<1>8. IsRing(Q, n, m)
  BY <1>5, <1>6, <1>7 DEF IsRing
<1>9. QED
  BY <1>8 DEF n, m

\* Which buffers are out of the list depends on the processes in getblk alone.
LEMMA RingedIsRest ==
  Ringed = {b \in Buffers : \A p \in Processes : bh[p] = b => cpc[p] \notin Taking}
BY LabelSets DEF Ringed, Holders, Taking

\* A process goes on without taking a buffer or putting one back.
LEMMA OthersKeepRing ==
  ASSUME HandInv, FreeListIsRing, UNCHANGED <<next_free, prev_free, free_list>>,
         \A q \in Processes : (bh[q] # 0 /\ cpc[q] \in Taking) <=> (bh'[q] # 0 /\ cpc'[q] \in Taking),
         \A q \in Processes : cpc[q] \in Taking => bh'[q] = bh[q]
  PROVE  FreeListIsRing'
<1>1. 0 \notin Buffers
  BY CacheAssumption DEF Buffers
<1>2. Ringed' = {b \in Buffers : \A p \in Processes : bh'[p] = b => cpc'[p] \notin Taking}
  BY LabelSets DEF Ringed, Holders, Taking
<1>3. Ringed' = Ringed
  BY <1>1, <1>2, RingedIsRest DEF HandInv
<1>4. QED
  BY <1>3 DEF FreeListIsRing

-----------------------------------------------------------------------------
(***************************************************************************)
(* sleep_on and wake_up: at most one pointer, a queue's or a sleeper's tmp,*)
(* leads to a task, and only to one that is asleep.                        *)
(***************************************************************************)
OnePointer(w) ==
  /\ w.asleep \subseteq w.inside
  /\ \A q \in Queues : w.head[q] # NoTask => w.head[q] \in w.asleep
  /\ \A t \in Processes : w.tmp[t] # NoTask => w.tmp[t] \in w.asleep
  /\ \A q, r \in Queues : w.head[q] # NoTask /\ w.head[q] = w.head[r] => q = r
  /\ \A t, u \in Processes : w.tmp[t] # NoTask /\ w.tmp[t] = w.tmp[u] => t = u
  /\ \A q \in Queues, t \in Processes : w.head[q] # NoTask => w.head[q] # w.tmp[t]

LEMMA SleepOnKeepsPointers ==
  ASSUME NEW w \in SleepState, OnePointer(w), NEW t \in Processes, t \notin w.inside, NEW q \in Queues
  PROVE  OnePointer(SleepOn(w, t, q)) /\ SleepOn(w, t, q).head = [w.head EXCEPT ![q] = t]
         /\ SleepOn(w, t, q).inside = w.inside \cup {t}
<1> DEFINE v == SleepOn(w, t, q)
<1>1. /\ v.head = [w.head EXCEPT ![q] = t] /\ v.tmp = [w.tmp EXCEPT ![t] = w.head[q]]
      /\ v.inside = w.inside \cup {t} /\ v.asleep = w.asleep \cup {t}
  BY DEF SleepOn, SleepState
<1>2. /\ \A r \in Queues : v.head[r] = IF r = q THEN t ELSE w.head[r]
      /\ \A u \in Processes : v.tmp[u] = IF u = t THEN w.head[q] ELSE w.tmp[u]
  BY <1>1 DEF SleepState
<1>3. t \notin w.asleep /\ t # NoTask
  BY CacheAssumption, Zenon DEF OnePointer
<1> HIDE DEF v
<1>4. OnePointer(v)
  BY <1>1, <1>2, <1>3 DEF OnePointer
<1>5. QED
  BY <1>1, <1>4 DEF v

LEMMA SleptOnKeepsPointers ==
  ASSUME NEW w \in SleepState, OnePointer(w), NEW t \in Processes, t \notin w.asleep
  PROVE  OnePointer(SleptOn(w, t)) /\ SleptOn(w, t).head = w.head
         /\ SleptOn(w, t).inside = w.inside \ {t}
<1> DEFINE v == SleptOn(w, t)
<1>1. /\ v.head = w.head /\ v.tmp = [w.tmp EXCEPT ![t] = NoTask]
      /\ v.inside = w.inside \ {t} /\ v.asleep = w.asleep \ {w.tmp[t]}
  BY DEF SleptOn, SleepState
<1>2. \A u \in Processes : v.tmp[u] = IF u = t THEN NoTask ELSE w.tmp[u]
  BY <1>1, Zenon DEF SleepState
<1> HIDE DEF v
<1>3. OnePointer(v)
  BY <1>1, <1>2 DEF OnePointer
<1>4. QED
  BY <1>1, <1>3 DEF v

LEMMA WakeUpKeepsPointers ==
  ASSUME NEW w \in SleepState, OnePointer(w), NEW q \in Queues
  PROVE  OnePointer(WakeUp(w, q)) /\ WakeUp(w, q).head = [w.head EXCEPT ![q] = NoTask]
         /\ WakeUp(w, q).inside = w.inside
<1>1. CASE w.head[q] = NoTask
  BY <1>1 DEF WakeUp, SleepState
<1>2. CASE w.head[q] # NoTask
  <2> DEFINE v == WakeUp(w, q)
  <2>1. /\ v.head = [w.head EXCEPT ![q] = NoTask] /\ v.tmp = w.tmp
        /\ v.inside = w.inside /\ v.asleep = w.asleep \ {w.head[q]}
    BY <1>2 DEF WakeUp, SleepState
  <2>2. \A r \in Queues : v.head[r] = IF r = q THEN NoTask ELSE w.head[r]
    BY <2>1, Zenon DEF SleepState
  <2> HIDE DEF v
  <2>3. OnePointer(v)
    BY <2>1, <2>2 DEF OnePointer
  <2>4. QED
    BY <2>1, <2>3 DEF v
<1>3. QED
  BY <1>1, <1>2

-----------------------------------------------------------------------------
Versions == 0 .. MaxVersion
Request == [bh : Buffers, block : Blocks, cmd : {"read", "write"}, sent : Versions]

\* What the numbers of buffers, queues and versions are to each other.
LEMMA CacheNumbers ==
  /\ NR_BUFFERS \in Nat \ {0} /\ NR_BUFFERS \in Nat /\ 0 \notin Buffers /\ 1 \in 1 .. NR_BUFFERS + 1
  /\ 0 \in Versions /\ buffer_wait \in Queues /\ buffer_wait \notin Buffers /\ Buffers \subseteq Queues
BY CacheAssumption DEF Versions, Queues, buffer_wait, Buffers

\* A request that is changed, and one that is taken out, leave requests.
LEMMA ChangedRequests ==
  ASSUME NEW S, NEW s \in Seq(S), NEW i \in DOMAIN s, NEW x \in S
  PROVE  [s EXCEPT ![i] = x] \in Seq(S)
OBVIOUS

LEMMA FewerRequests ==
  ASSUME NEW S, NEW s \in Seq(S), NEW i \in DOMAIN s
  PROVE  SubSeq(s, 1, i - 1) \o SubSeq(s, i + 1, Len(s)) \in Seq(S)
OBVIOUS

\* Of sys_sync's loop there is no block to speak of.
ForBlock(p) == cpc[p] # "user" /\ (cpc[p] \in Taking => bh[p] # 0)

(***************************************************************************)
(* The requests, and what comes from the disk and goes to it, is what it   *)
(* should be: a request is for a buffer that has a block.                  *)
(***************************************************************************)
TransferInv ==
  /\ b_dirt \in [Buffers -> BOOLEAN] /\ b_uptodate \in [Buffers -> BOOLEAN]
  /\ b_lock \in [Buffers -> BOOLEAN] /\ b_data \in [Buffers -> Versions]
  /\ disk \in [Blocks -> Versions] /\ latest \in [Blocks -> Versions]
  /\ requests \in Seq(Request)
  /\ idx \in [Processes -> 1 .. NR_BUFFERS + 1]
  /\ \A p \in Processes : cpc[p] = "write" => idx[p] <= NR_BUFFERS
  /\ \A p \in Processes : ForBlock(p) => want[p] \in Blocks

LEMMA RequestsInOrder ==
  ASSUME TransferInv
  PROVE  \A i \in DOMAIN requests : requests[i] \in Request
BY DEF TransferInv

\* ll_rw_block for a buffer that has a block.
LEMMA SubmitKeepsRequests ==
  ASSUME TransferInv, NEW b \in Buffers, b_block[b] \in Blocks, NEW rw \in {"read", "write"},
         Submit(b, rw)
  PROVE  b_lock' \in [Buffers -> BOOLEAN] /\ requests' \in Seq(Request)
<1>1. [bh |-> b, block |-> b_block[b], cmd |-> rw, sent |-> 0] \in Request
  BY CacheNumbers, Zenon DEF Request
<1>2. QED
  BY <1>1 DEF TransferInv, Submit

\* A step of a process that leaves the buffers' contents and the disk alone.
LEMMA MovingOnKeepsTransfer ==
  ASSUME TransferInv, HandInv, NEW p \in Processes, NEW l,
         UNCHANGED <<b_dirt, b_uptodate, b_data, disk, latest>>,
         b_lock' \in [Buffers -> BOOLEAN], requests' \in Seq(Request),
         cpc' = [cpc EXCEPT ![p] = l], \A q \in Processes \ {p} : bh'[q] = bh[q],
         want' = want, idx' \in [Processes -> 1 .. NR_BUFFERS + 1],
         \A q \in Processes \ {p} : idx'[q] = idx[q],
         l = "write" => idx'[p] <= NR_BUFFERS,
         l # "user" /\ (l \in Taking => bh'[p] # 0) => ForBlock(p)
  PROVE  TransferInv'
<1>1. \A q \in Processes \ {p} : cpc'[q] = cpc[q]
  BY DEF HandInv
<1>2. cpc'[p] = l
  BY DEF HandInv
<1>3. \A q \in Processes : cpc'[q] = "write" => idx'[q] <= NR_BUFFERS
  BY <1>1, <1>2 DEF TransferInv
<1>4. \A q \in Processes : ForBlock(q)' => want'[q] \in Blocks
  BY <1>1, <1>2, ZenonT(30) DEF TransferInv, ForBlock
<1>5. QED
  BY <1>3, <1>4 DEF TransferInv

LEMMA InKernelKeepsTransfer ==
  ASSUME CacheInv, HoldInv, TransferInv, NEW p \in Processes, InKernel(p)
  PROVE  TransferInv'
<1>0. /\ HandInv /\ (cpc[p] \in InHand => bh[p] \in Buffers) /\ bh[p] \in Buffers \cup {0}
      /\ idx \in [Processes -> 1 .. NR_BUFFERS + 1] /\ NR_BUFFERS \in Nat \ {0} /\ 0 \notin Buffers
      /\ b_lock \in [Buffers -> BOOLEAN] /\ requests \in Seq(Request)
  BY CacheNumbers, Zenon DEF CacheInv, HandInv, TransferInv
<1>1. CASE Resumes(p) \/ WaitOnBuffer(p)
  <2>1. cpc' = cpc /\ UNCHANGED <<bufs, disk, latest, want, bh, idx>>
    BY <1>0, <1>1, WaitingStays, Zenon DEF Resumes
  <2>2. QED
    BY <2>1 DEF TransferInv, ForBlock, bufs
<1>2. CASE FindBuffer(p)
  <2>1. /\ UNCHANGED <<b_dirt, b_uptodate, b_data, disk, latest, want, idx, b_lock, requests>>
        /\ \A q \in Processes \ {p} : bh'[q] = bh[q]
    BY <1>0, <1>2 DEF FindBuffer, HandInv
  <2>2. PICK l \in {"found", "scan"} : cpc' = [cpc EXCEPT ![p] = l]
    BY <1>2, Zenon DEF FindBuffer, Goes
  <2>3. ForBlock(p) /\ l # "write"
    BY <1>2, <2>2 DEF FindBuffer, At, ForBlock, Taking
  <2>4. QED
    BY <1>0, <2>1, <2>2, <2>3, MovingOnKeepsTransfer, Zenon
<1>3. CASE FoundCheck(p) \/ Scan(p) \/ ReadDone(p) \/ Released(p)
  <2>1. /\ UNCHANGED <<b_dirt, b_uptodate, b_data, disk, latest, want, idx, b_lock, requests, bh>>
        /\ ForBlock(p)
    BY <1>0, <1>3, SMTT(30) DEF FoundCheck, Scan, ReadDone, Released, At, ForBlock, Taking, bufs
  <2>2. PICK l \in {"got", "find", "victim", "hold", "user"} : cpc' = [cpc EXCEPT ![p] = l]
    BY <1>3, Zenon DEF FoundCheck, Scan, ReadDone, Released, Goes, Leaves
  <2>3. l # "write"
    BY <2>2
  <2>4. QED
    BY <1>0, <2>1, <2>2, <2>3, MovingOnKeepsTransfer, Zenon
<1>4. CASE ScanOn(p)
  <2>1. /\ UNCHANGED <<b_dirt, b_uptodate, b_data, disk, latest, want, idx, b_lock, requests>>
        /\ \A q \in Processes \ {p} : bh'[q] = bh[q]
    BY <1>0, <1>4 DEF ScanOn, Sleeps, HandInv, bufs
  <2>2. PICK l \in {"find", "scan"} : cpc' = [cpc EXCEPT ![p] = l]
    BY <1>4, Zenon DEF ScanOn, Sleeps, Goes, Leaves
  <2>3. ForBlock(p) /\ l # "write"
    BY <1>4, <2>2 DEF ScanOn, At, ForBlock, Taking
  <2>4. QED
    BY <1>0, <2>1, <2>2, <2>3, MovingOnKeepsTransfer, Zenon
<1>5. CASE TakeVictim(p)
  <2>1. /\ UNCHANGED <<b_dirt, b_uptodate, b_data, disk, latest, want, b_lock, requests, bh>>
        /\ idx' = [idx EXCEPT ![p] = 1]
    BY <1>5, Zenon DEF TakeVictim
  <2>2. PICK l \in {"sync", "taken"} : cpc' = [cpc EXCEPT ![p] = l]
    BY <1>5, Zenon DEF TakeVictim, Goes
  <2>3. ForBlock(p) /\ l # "write"
    BY <1>5, <2>2 DEF TakeVictim, At, ForBlock, Taking
  <2>4. idx' \in [Processes -> 1 .. NR_BUFFERS + 1] /\ \A q \in Processes \ {p} : idx'[q] = idx[q]
    BY <1>0, <2>1, CacheNumbers, ZenonT(30)
  <2>5. QED
    BY <1>0, <2>1, <2>2, <2>3, <2>4, MovingOnKeepsTransfer, Zenon
<1>6. CASE SyncNext(p)
  <2>1. UNCHANGED <<b_dirt, b_uptodate, b_data, disk, latest, want, bh>>
    BY <1>6, Zenon DEF SyncNext
  <2>2. cpc[p] \in Taking /\ cpc[p] # "user"
    BY <1>6 DEF SyncNext, At, Taking
  <2>3. CASE idx[p] <= NR_BUFFERS /\ b_block[idx[p]] # 0 /\ Submit(idx[p], "write") /\ Goes(p, "write")
             /\ UNCHANGED idx
    <3>1. idx[p] \in Buffers
      BY <1>0, <2>3 DEF Buffers
    <3>2. b_block[idx[p]] \in Blocks
      BY <2>3, <3>1 DEF HoldInv
    <3>3. b_lock' \in [Buffers -> BOOLEAN] /\ requests' \in Seq(Request)
      BY <2>3, <3>1, <3>2, SubmitKeepsRequests
    <3>4. QED
      BY <1>0, <2>1, <2>2, <2>3, <3>3, MovingOnKeepsTransfer, Zenon DEF Goes, ForBlock, Taking
  <2>4. CASE idx[p] <= NR_BUFFERS /\ idx' = [idx EXCEPT ![p] = @ + 1] /\ Goes(p, "sync")
             /\ UNCHANGED <<b_lock, requests>>
    <3>1. idx[p] + 1 \in 1 .. NR_BUFFERS + 1
      BY <1>0, <2>4
    <3>2. idx' \in [Processes -> 1 .. NR_BUFFERS + 1] /\ \A q \in Processes \ {p} : idx'[q] = idx[q]
      BY <1>0, <2>4, <3>1
    <3>3. QED
      BY <1>0, <2>1, <2>2, <2>4, <3>2, MovingOnKeepsTransfer, Zenon DEF Goes, ForBlock, Taking
  <2>5. CASE (IF bh[p] = 0 THEN Leaves(p, "user") ELSE Goes(p, "taken"))
             /\ UNCHANGED <<b_lock, requests, idx>>
    BY <1>0, <2>1, <2>2, <2>5, MovingOnKeepsTransfer, ZenonT(30) DEF Goes, Leaves, ForBlock, Taking
  <2>6. cpc[p] = "write" => idx[p] <= NR_BUFFERS
    BY Zenon DEF TransferInv
  <2>7. QED
    BY <1>6, <2>3, <2>4, <2>5, <2>6 DEF SyncNext, At
<1>7. CASE Install(p)
  <2>1. UNCHANGED <<b_data, disk, latest, want, b_lock, requests, bh, idx>> /\ cpc[p] = "taken"
    BY <1>7 DEF Install, At
  <2>2. PICK l \in {"find", "got"} : cpc' = [cpc EXCEPT ![p] = l]
    BY <1>7, Zenon DEF Install, Goes
  <2>3. ForBlock(p)
    BY <1>0, <2>1 DEF ForBlock, InHand
  <2>4. b_dirt' \in [Buffers -> BOOLEAN] /\ b_uptodate' \in [Buffers -> BOOLEAN]
    BY <1>7, Zenon DEF Install, TransferInv
  <2>5. \A q \in Processes : cpc'[q] = "write" => cpc[q] = "write"
    BY <1>0, <2>2 DEF HandInv
  <2>6. \A q \in Processes : ForBlock(q)' => ForBlock(q)
    BY <1>0, <2>1, <2>2, <2>3, Zenon DEF HandInv, ForBlock
  <2>7. QED
    BY <2>1, <2>4, <2>5, <2>6, Zenon DEF TransferInv
<1>8. CASE Got(p)
  <2>1. UNCHANGED <<b_dirt, b_uptodate, b_data, disk, latest, want, bh, idx>> /\ ForBlock(p)
    BY <1>8 DEF Got, At, ForBlock, Taking
  <2>2. CASE Leaves(p, "hold") /\ UNCHANGED <<b_lock, requests>>
    BY <1>0, <2>1, <2>2, MovingOnKeepsTransfer, Zenon DEF Leaves
  <2>3. CASE Submit(bh[p], "read") /\ Goes(p, "read")
    <3>1. bh[p] \in Buffers /\ b_block[bh[p]] = want[p] /\ want[p] \in Blocks
      BY <1>0, <1>8, <2>1, Zenon DEF Got, At, InHand, HoldInv, HeldKeepsBlock, TransferInv
    <3>2. b_lock' \in [Buffers -> BOOLEAN] /\ requests' \in Seq(Request)
      BY <2>3, <3>1, SubmitKeepsRequests
    <3>3. QED
      BY <1>0, <2>1, <2>3, <3>2, MovingOnKeepsTransfer, ZenonT(30) DEF Goes
  <2>4. QED
    BY <1>8, <2>2, <2>3, Zenon DEF Got
<1>9. QED
  BY <1>1, <1>2, <1>3, <1>4, <1>5, <1>6, <1>7, <1>8 DEF InKernel

\* The disk sends and gets what buffers and blocks may have.
LEMMA DiskKeepsTransfer ==
  ASSUME TransferInv, DiskWorks
  PROVE  TransferInv' /\ UNCHANGED <<cpc, bh, want>>
<1>0. \A i \in DOMAIN requests : requests[i] \in Request
  BY RequestsInOrder
<1>1. ASSUME NEW i \in DOMAIN requests, DiskTakes(i)
      PROVE  TransferInv'
  <2> DEFINE r == requests[i]
  <2>1. r \in Request /\ r.bh \in Buffers /\ b_data[r.bh] \in Versions
    BY <1>0 DEF Request, TransferInv
  <2>2. requests' = [requests EXCEPT ![i] = [r EXCEPT !.sent = b_data[r.bh]]]
    BY <1>1 DEF DiskTakes
  <2>3. [r EXCEPT !.sent = b_data[r.bh]] \in Request
    BY <2>1 DEF Request
  <2>4. requests' \in Seq(Request)
    BY <2>2, <2>3, ChangedRequests, ZenonT(30) DEF TransferInv
  <2>5. QED
    BY <1>1, <2>4, SMTT(30) DEF TransferInv, DiskTakes, ForBlock
<1>2. ASSUME NEW i \in DOMAIN requests, NEW ok \in Results, DiskInterrupt(i, ok)
      PROVE  TransferInv'
  <2> DEFINE r == requests[i]
  <2>1. r.bh \in Buffers /\ r.block \in Blocks /\ r.sent \in Versions /\ ok \in BOOLEAN
    BY <1>0, <1>2, CacheAssumption, Zenon DEF Request
  <2>2. requests' \in Seq(Request)
    BY <1>2, FewerRequests, Zenon DEF DiskInterrupt, TransferInv
  <2>3. /\ b_lock' = [b_lock EXCEPT ![r.bh] = FALSE]
        /\ b_uptodate' = [b_uptodate EXCEPT ![r.bh] = ok]
        /\ b_dirt' = [b_dirt EXCEPT ![r.bh] = ~ok /\ @]
        /\ b_data' = b_data \/ b_data' = [b_data EXCEPT ![r.bh] = disk[r.block]]
        /\ disk' = disk \/ disk' = [disk EXCEPT ![r.block] = r.sent]
    BY <1>2, ZenonT(30) DEF DiskInterrupt
  <2> HIDE DEF r
  <2>4. b_lock' \in [Buffers -> BOOLEAN] /\ b_uptodate' \in [Buffers -> BOOLEAN]
        /\ b_dirt' \in [Buffers -> BOOLEAN]
    BY <2>1, <2>3 DEF TransferInv
  <2>5. b_data' \in [Buffers -> Versions] /\ disk' \in [Blocks -> Versions]
    BY <2>1, <2>3, Zenon DEF TransferInv
  <2>6. QED
    BY <1>2, <2>2, <2>4, <2>5 DEF TransferInv, DiskInterrupt, ForBlock
<1>3. UNCHANGED <<cpc, bh, want>>
  BY DEF DiskWorks, DiskTakes, DiskInterrupt
<1>4. QED
  BY <1>1, <1>2, <1>3 DEF DiskWorks

LEMMA StepKeepsTransfer ==
  ASSUME CacheInv, HoldInv, TransferInv, [CNext]_cvars
  PROVE  TransferInv'
<1>0. HandInv /\ NR_BUFFERS \in Nat \ {0}
  BY CacheAssumption DEF CacheInv
<1>1. ASSUME NEW p \in Processes, Sync(p)
      PROVE  TransferInv'
  <2>1. /\ UNCHANGED <<b_dirt, b_uptodate, b_data, disk, latest, want, b_lock, requests>>
        /\ idx' = [idx EXCEPT ![p] = 1] /\ bh' = [bh EXCEPT ![p] = 0]
        /\ cpc' = [cpc EXCEPT ![p] = "sync"]
    BY <1>1 DEF Sync, Goes, bufs
  <2>2. /\ idx' \in [Processes -> 1 .. NR_BUFFERS + 1] /\ bh'[p] = 0
        /\ \A q \in Processes \ {p} : idx'[q] = idx[q] /\ bh'[q] = bh[q]
    BY <1>0, <2>1, CacheNumbers, Zenon DEF TransferInv, HandInv
  <2>3. b_lock' \in [Buffers -> BOOLEAN] /\ requests' \in Seq(Request) /\ "sync" \in Taking
    BY <2>1, Zenon DEF TransferInv, Taking
  <2>4. QED
    BY <1>0, <2>1, <2>2, <2>3, MovingOnKeepsTransfer, Zenon
<1>2. ASSUME NEW p \in Processes, NEW k \in Blocks, Bread(p, k)
      PROVE  TransferInv'
  <2>1. /\ UNCHANGED <<bufs, disk, latest, bh, idx>> /\ want' = [want EXCEPT ![p] = k]
        /\ cpc' = [cpc EXCEPT ![p] = "find"]
    BY <1>2 DEF Bread, Goes
  <2>2. \A q \in Processes : cpc'[q] = "write" => cpc[q] = "write"
    BY <1>0, <2>1 DEF HandInv
  <2>3. \A q \in Processes : ForBlock(q)' => want'[q] \in Blocks
    BY <1>0, <2>1, Zenon DEF HandInv, ForBlock, TransferInv, HoldInv
  <2>4. QED
    BY <2>1, <2>2, <2>3 DEF TransferInv, bufs
<1>3. ASSUME NEW p \in Processes, Modify(p)
      PROVE  TransferInv'
  <2>1. ForBlock(p) /\ bh[p] \in Buffers
    <3>1. cpc[p] = "hold"
      BY <1>3, Zenon DEF Modify, At
    <3>2. "hold" \in InHand /\ "hold" # "user" /\ "hold" \notin Taking
      BY ZenonT(30) DEF InHand, Taking
    <3>3. QED
      BY <1>0, <3>1, <3>2, Zenon DEF ForBlock, HandInv
  <2>2. want[p] \in Blocks
    BY <2>1, Zenon DEF TransferInv
  <2>3. latest[want[p]] + 1 \in Versions
    <3>1. latest[want[p]] \in Versions /\ latest[want[p]] < MaxVersion
      BY <1>3, <2>2, Zenon DEF Modify, TransferInv
    <3>2. QED
      BY <3>1, CacheAssumption DEF Versions
  <2>4. /\ latest' \in [Blocks -> Versions] /\ b_data' \in [Buffers -> Versions]
        /\ b_dirt' \in [Buffers -> BOOLEAN]
    BY <1>3, <2>2, <2>3, Zenon DEF Modify, TransferInv
  <2>5. QED
    BY <1>3, <2>4, Zenon DEF Modify, TransferInv, ForBlock
<1>4. ASSUME NEW p \in Processes, Release(p)
      PROVE  TransferInv'
  <2>1. UNCHANGED <<b_dirt, b_uptodate, b_data, disk, latest, want, b_lock, requests, bh, idx>> /\ ForBlock(p)
        /\ cpc' = [cpc EXCEPT ![p] = "brelse"]
    BY <1>4, Zenon DEF Release, At, ForBlock, Taking, bufs, Goes
  <2>2. b_lock' \in [Buffers -> BOOLEAN] /\ requests' \in Seq(Request)
        /\ idx' \in [Processes -> 1 .. NR_BUFFERS + 1]
    BY <2>1, ZenonT(30) DEF TransferInv
  <2>3. QED
    BY <1>0, <2>1, <2>2, MovingOnKeepsTransfer, Zenon
<1>5. CASE UNCHANGED cvars
  BY <1>5, Zenon DEF cvars, bufs, TransferInv, ForBlock
<1>6. QED
  BY <1>1, <1>2, <1>3, <1>4, <1>5, InKernelKeepsTransfer, DiskKeepsTransfer DEF CNext

-----------------------------------------------------------------------------
\* The process has a buffer that it will release, or is about to get one: getblk
\* gives a victim back without a wake_up only when it goes on to a buffer it can see.
WillRelease(q) ==
  \/ cpc[q] \in Holding /\ bh[q] \in Buffers
  \/ cpc[q] = "find" /\ cpu = q /\ Found(want[q]) # {}

ReasonInv ==
  /\ OnePointer(wq) /\ cpu \notin wq.inside
  /\ wq.head[buffer_wait] # NoTask =>
       cpc[wq.head[buffer_wait]] = "find" /\ \E q \in Processes : WillRelease(q)
  /\ \A b \in Buffers : wq.head[b] # NoTask => b_lock[b]

\* getblk scans on past a buffer that somebody holds.
CountsAreHeld == \A b \in Buffers : b_count[b] # 0 => Holders(b) # {}

LEMMA ReasonSuffices ==
  ASSUME CacheInv, ReasonInv
  PROVE  SleepersHaveReason
<1> SUFFICES ASSUME wq.head[buffer_wait] # NoTask
             PROVE  \E q \in Processes \ {wq.head[buffer_wait]} : cpc[q] \in Holding \cup {"find"}
  BY Zenon DEF SleepersHaveReason, ReasonInv
<1> DEFINE h == wq.head[buffer_wait]
<1>1. PICK q \in Processes : WillRelease(q)
  BY ZenonT(30) DEF ReasonInv
<1>2. cpc[h] = "find" /\ h \in wq.inside
  BY DEF ReasonInv, OnePointer, Queues
<1>3. q # h
  BY <1>1, <1>2, Zenon DEF WillRelease, ReasonInv, Holding
<1>4. QED
  BY <1>1, <1>3, Zenon DEF WillRelease

\* A process goes on, with the queues as they are: whoever was to release a buffer
\* still is, and the locks stay.
LEMMA MovingOnKeepsReason ==
  ASSUME CacheInv, ReasonInv, NEW p \in Processes, p \notin wq.inside, NEW l,
         cpc' = [cpc EXCEPT ![p] = l], cpu' \in {p, NoTask}, UNCHANGED wq,
         \A b \in Buffers : b_lock[b] => b_lock'[b],
         \A q \in Processes : WillRelease(q) => WillRelease(q)'
  PROVE  ReasonInv'
<1>1. NoTask \notin wq.inside
  BY CacheAssumption, Zenon DEF CacheInv, QueueInv, SleepState
<1>2. wq.head[buffer_wait] # NoTask => wq.head[buffer_wait] \in wq.inside
  BY Zenon DEF ReasonInv, OnePointer, Queues
<1>3. wq.head[buffer_wait] # NoTask => cpc'[wq.head[buffer_wait]] = cpc[wq.head[buffer_wait]]
  BY <1>2 DEF CacheInv, HandInv
<1>4. QED
  BY <1>1, <1>3 DEF ReasonInv

LEMMA QueueFacts ==
  ASSUME CacheInv
  PROVE  /\ wq \in SleepState /\ NoTask \notin wq.inside /\ NoTask \notin Processes
         /\ buffer_wait \in Queues /\ buffer_wait \notin Buffers /\ Buffers \subseteq Queues
<1>1. wq \in SleepState
  BY DEF CacheInv, QueueInv
<1>2. NoTask \notin wq.inside /\ NoTask \notin Processes
  BY <1>1, CacheAssumption, Zenon DEF SleepState
<1>3. buffer_wait \in Queues /\ buffer_wait \notin Buffers /\ Buffers \subseteq Queues
  BY CacheNumbers, Zenon
<1>4. QED
  BY <1>1, <1>2, <1>3

\* Its buffer is released: with the wake_up nobody waits for one any more.
LEMMA BrelseKeepsReason ==
  ASSUME CacheInv, ReasonInv, NEW p \in Processes, p \notin wq.inside, cpu' \in {p, NoTask},
         wq' = WakeUp(wq, buffer_wait), b_lock' = b_lock
  PROVE  ReasonInv'
<1>1. NoTask \notin wq.inside /\ wq \in SleepState /\ buffer_wait \in Queues /\ buffer_wait \notin Buffers
  BY QueueFacts, Zenon
<1>2. OnePointer(wq') /\ wq'.head = [wq.head EXCEPT ![buffer_wait] = NoTask] /\ wq'.inside = wq.inside
  BY <1>1, WakeUpKeepsPointers DEF ReasonInv
<1>3. wq'.head[buffer_wait] = NoTask /\ \A b \in Buffers : wq'.head[b] = wq.head[b]
  BY <1>1, <1>2, Zenon DEF SleepState, Queues
<1>4. QED
  BY <1>1, <1>2, <1>3 DEF ReasonInv

\* The interrupt unlocks a buffer and wakes those who wait for that.
LEMMA InterruptKeepsReason ==
  ASSUME CacheInv, ReasonInv, TransferInv, NEW b \in Buffers, b_lock' = [b_lock EXCEPT ![b] = FALSE],
         wq' = WakeUp(wq, b), UNCHANGED <<cpc, bh, want, cpu, hashed, b_block>>
  PROVE  ReasonInv'
<1>1. wq \in SleepState /\ b \in Queues /\ buffer_wait \in Queues /\ buffer_wait # b
  BY CacheNumbers, Zenon DEF CacheInv, QueueInv
<1>2. OnePointer(wq') /\ wq'.head = [wq.head EXCEPT ![b] = NoTask] /\ wq'.inside = wq.inside
  BY <1>1, WakeUpKeepsPointers DEF ReasonInv
<1>3. wq'.head[buffer_wait] = wq.head[buffer_wait]
  BY <1>1, <1>2, Zenon DEF SleepState
<1>4. \A c \in Buffers : wq'.head[c] # NoTask => b_lock'[c]
  BY <1>1, <1>2, Zenon DEF SleepState, ReasonInv, TransferInv, Queues
<1>5. \A q \in Processes : WillRelease(q) => WillRelease(q)'
  BY Zenon DEF WillRelease, Found
<1>6. QED
  BY <1>2, <1>3, <1>4, <1>5 DEF ReasonInv

\* wait_on_buffer of a locked buffer, and the sleep for a free one.
LEMMA SleepsKeepsReason ==
  ASSUME CacheInv, ReasonInv, NEW p \in Processes, NEW q \in Queues, NEW l,
         At(p, cpc[p]), cpc[p] # "find", Sleeps(p, q, l),
         q \in Buffers => b_lock[q] /\ l = cpc[p],
         q = buffer_wait => l = "find" /\ \E r \in Processes \ {p} : cpc[r] \in Holding /\ bh[r] \in Buffers
  PROVE  ReasonInv'
<1>1. /\ wq \in SleepState /\ buffer_wait \in Queues /\ buffer_wait \notin Buffers /\ NoTask \notin wq.inside
      /\ NoTask \notin Processes /\ Buffers \subseteq Queues /\ p \notin wq.inside /\ cpu \in {p, NoTask}
  BY QueueFacts DEF At
<1>2. wq' = SleepOn(wq, p, q) /\ UNCHANGED <<b_lock, b_block, hashed, want, bh>>
      /\ cpc' = [cpc EXCEPT ![p] = l] /\ cpu' = NoTask
  BY Zenon DEF Sleeps, Leaves, bufs, lists
<1>3. OnePointer(wq') /\ wq'.head = [wq.head EXCEPT ![q] = p] /\ wq'.inside = wq.inside \cup {p}
  BY <1>1, <1>2, SleepOnKeepsPointers, Zenon DEF ReasonInv, Queues
<1>4. cpu' \notin wq'.inside
  BY <1>1, <1>2, <1>3, Zenon
<1>5. \A b \in Buffers : wq'.head[b] # NoTask => b_lock'[b]
  BY <1>1, <1>2, <1>3 DEF SleepState, ReasonInv
<1>6. \A x \in Processes \ {p} : cpc'[x] = cpc[x]
  BY <1>2, Zenon DEF CacheInv, HandInv
<1>7. CASE q = buffer_wait
  <2>1. wq'.head[buffer_wait] = p /\ cpc'[p] = "find"
    BY <1>1, <1>2, <1>3, <1>7, Zenon DEF SleepState, CacheInv, HandInv
  <2>2. PICK r \in Processes \ {p} : cpc[r] \in Holding /\ bh[r] \in Buffers
    BY <1>7, Zenon
  <2>3. WillRelease(r)'
    BY <1>2, <1>6, <2>2, Zenon DEF WillRelease
  <2>4. QED
    BY <1>3, <1>4, <1>5, <2>1, <2>3, Zenon DEF ReasonInv
<1>8. CASE q \in Buffers
  <2>1. cpc' = cpc /\ wq'.head[buffer_wait] = wq.head[buffer_wait]
    <3>1. cpc' = cpc
      BY <1>2, <1>8, SameAgain, Zenon DEF CacheInv, HandInv
    <3>2. wq'.head[buffer_wait] = wq.head[buffer_wait]
      BY <1>1, <1>3, <1>8, Zenon DEF SleepState
    <3>3. QED
      BY <3>1, <3>2, Zenon
  <2>2. \A r \in Processes : WillRelease(r) => WillRelease(r)'
    BY <1>1, <1>2, <2>1, Zenon DEF WillRelease
  <2>3. QED
    BY <1>3, <1>4, <1>5, <2>1, <2>2, Zenon DEF ReasonInv
<1>9. QED
  BY <1>7, <1>8 DEF Queues

\* Of a step of p only p's own hands matter.
LEMMA GoingOnKeepsReason ==
  ASSUME CacheInv, ReasonInv, NEW p \in Processes, At(p, cpc[p]), NEW l,
         cpc' = [cpc EXCEPT ![p] = l], cpu' \in {p, NoTask}, UNCHANGED wq,
         \A b \in Buffers : b_lock[b] => b_lock'[b],
         \A q \in Processes \ {p} : bh'[q] = bh[q], WillRelease(p) => WillRelease(p)'
  PROVE  ReasonInv'
<1>1. NoTask \notin Processes /\ p \notin wq.inside /\ cpu \in {p, NoTask}
  BY QueueFacts, Zenon DEF At
<1>2. ASSUME NEW q \in Processes \ {p}, WillRelease(q) PROVE WillRelease(q)'
  <2>1. cpc'[q] = cpc[q] /\ bh'[q] = bh[q]
    BY Zenon DEF CacheInv, HandInv
  <2>2. cpu # q
    BY <1>1, Zenon
  <2>3. cpc[q] \in Holding /\ bh[q] \in Buffers
    BY <1>2, <2>2, Zenon DEF WillRelease
  <2>4. QED
    BY <2>1, <2>3, Zenon DEF WillRelease
<1>3. QED
  BY <1>1, <1>2, MovingOnKeepsReason, ZenonT(30)

LEMMA InKernelKeepsReason ==
  ASSUME CacheInv, HoldInv, CountsAreHeld, TransferInv, ReasonInv, NEW p \in Processes, InKernel(p)
  PROVE  ReasonInv'
<1>0. /\ HandInv /\ (cpc[p] \in InHand => bh[p] \in Buffers) /\ bh[p] \in Buffers \cup {0}
      /\ 0 \notin Buffers /\ idx \in [Processes -> 1 .. NR_BUFFERS + 1] /\ NR_BUFFERS \in Nat
      /\ b_lock \in [Buffers -> BOOLEAN] /\ NoTask \notin Processes
  BY CacheNumbers, QueueFacts, Zenon DEF CacheInv, HandInv, TransferInv
<1>1. CASE Resumes(p)
  <2>1. wq \in SleepState /\ NoTask \notin wq.inside
    BY QueueFacts
  <2>2. wq' = SleptOn(wq, p) /\ p \notin wq.asleep /\ cpu = NoTask /\ cpu' = p
    BY <1>1, Zenon DEF Resumes
  <2>3. OnePointer(wq') /\ wq'.head = wq.head /\ wq'.inside = wq.inside \ {p}
    BY <2>1, <2>2, SleptOnKeepsPointers, Zenon DEF ReasonInv
  <2>4. \A q \in Processes : WillRelease(q) => WillRelease(q)'
    <3>1. UNCHANGED <<cpc, bh>>
      BY <1>1, Zenon DEF Resumes
    <3>2. QED
      BY <1>0, <2>2, <3>1, Zenon DEF WillRelease
  <2>5. QED
    BY <1>1, <2>2, <2>3, <2>4, Zenon DEF Resumes, ReasonInv, bufs
<1>2. CASE WaitOnBuffer(p)
  <2>1. ASSUME NEW b \in Buffers, NEW l, l # "find", Waits(p, b, l) PROVE ReasonInv'
    <3>1. At(p, cpc[p]) /\ cpc[p] = l /\ b_lock[b] /\ Sleeps(p, b, l) /\ b \in Queues /\ b # buffer_wait
      BY <2>1, QueueFacts, Zenon DEF Waits, At
    <3>2. QED
      BY <2>1, <3>1, SleepsKeepsReason, Zenon
  <2>2. ASSUME NEW l \in {"found", "victim", "read", "brelse"}, Waits(p, bh[p], l) PROVE ReasonInv'
    BY <1>0, <2>1, <2>2 DEF Waits, At, InHand
  <2>3. ASSUME NEW l \in {"sync", "write"}, idx[p] <= NR_BUFFERS, Waits(p, idx[p], l) PROVE ReasonInv'
    <3>1. idx[p] \in Buffers
      BY <1>0, <2>3, SMTT(30) DEF Buffers
    <3>2. QED
      BY <2>1, <2>3, <3>1
  <2>4. QED
    BY <1>2, <2>2, <2>3, Zenon DEF WaitOnBuffer
<1>3. CASE FindBuffer(p)
  <2>1. /\ At(p, cpc[p]) /\ cpc[p] = "find" /\ UNCHANGED <<wq, b_lock>> /\ cpu' = p
        /\ \A q \in Processes \ {p} : bh'[q] = bh[q]
    BY <1>0, <1>3 DEF FindBuffer, At, Goes, HandInv
  <2>2. PICK l : cpc' = [cpc EXCEPT ![p] = l]
    BY <1>3 DEF FindBuffer, Goes
  <2>3. WillRelease(p) => WillRelease(p)'
    <3>1. SUFFICES ASSUME Found(want[p]) # {} PROVE WillRelease(p)'
      BY <2>1 DEF WillRelease, Holding
    <3>2. PICK b \in Found(want[p]) : bh' = [bh EXCEPT ![p] = b] /\ Goes(p, "found")
      BY <1>3, <3>1, Zenon DEF FindBuffer
    <3>3. b \in Buffers
      BY <3>2 DEF Found, CacheInv, ListInv
    <3>4. cpc'[p] = "found" /\ bh'[p] = b
      BY <1>0, <3>2, Zenon DEF Goes, HandInv
    <3>5. QED
      BY <3>3, <3>4, Zenon DEF WillRelease, Holding
  <2>4. QED
    BY <2>1, <2>2, <2>3, GoingOnKeepsReason, ZenonT(30)
<1>4. CASE FoundCheck(p)
  <2>1. At(p, cpc[p]) /\ cpc[p] = "found" /\ p \notin wq.inside /\ UNCHANGED <<b_lock, bh>> /\ cpu' = p
    BY <1>4, SMTT(30) DEF FoundCheck, At, Goes
  <2>2. CASE Goes(p, "got") /\ UNCHANGED wq
    <3>1. WillRelease(p)'
      BY <1>0, <2>1, <2>2, Zenon DEF WillRelease, Goes, Holding, HandInv, InHand
    <3>2. QED
      BY <2>1, <2>2, <3>1, GoingOnKeepsReason, Zenon DEF Goes
  <2>3. CASE Brelse(bh[p])
    BY <2>1, <2>3, BrelseKeepsReason DEF Brelse
  <2>4. QED
    BY <1>4, <2>2, <2>3, ZenonT(30) DEF FoundCheck
<1>5. CASE Scan(p)
  <2>1. At(p, cpc[p]) /\ cpc[p] = "scan" /\ ~WillRelease(p) /\ UNCHANGED <<b_lock, bh, wq>> /\ cpu' = p
        /\ cpc' = [cpc EXCEPT ![p] = "victim"]
    BY <1>5 DEF Scan, At, Goes, bufs, WillRelease, Holding
  <2>2. QED
    BY <2>1, GoingOnKeepsReason, ZenonT(30)
<1>6. CASE ScanOn(p)
  <2>1. At(p, cpc[p]) /\ cpc[p] \in {"scan", "victim"} /\ b_count[bh[p]] # 0 /\ ~WillRelease(p)
    BY <1>6, Zenon DEF ScanOn, At, WillRelease, Holding
  <2>2. CASE Sleeps(p, buffer_wait, "find")
    <3>1. bh[p] \in Buffers
      BY <1>0, <2>1 DEF InHand
    <3>2. Holders(bh[p]) # {}
      BY <2>1, <3>1 DEF CountsAreHeld
    <3>3. PICK r \in Processes : bh[r] = bh[p] /\ cpc[r] \in Holding
      BY <3>2 DEF Holders
    <3>4. r # p
      BY <2>1, <3>3 DEF Holding
    <3>5. buffer_wait \in Queues /\ buffer_wait \notin Buffers
      BY QueueFacts
    <3>6. cpc[p] # "find"
      BY <2>1, SMTT(30)
    <3>7. QED
      BY <2>1, <2>2, <3>1, <3>3, <3>4, <3>5, <3>6, SleepsKeepsReason, Zenon
  <2>3. CASE /\ bh' = [bh EXCEPT ![p] = next_free[bh[p]]] /\ Goes(p, "scan")
             /\ UNCHANGED <<bufs, lists, disk, latest, want, idx, wq>>
    <3>1. \A q \in Processes \ {p} : bh'[q] = bh[q]
      BY <1>0, <2>3 DEF HandInv
    <3>2. QED
      BY <2>1, <2>3, <3>1, GoingOnKeepsReason, Zenon DEF Goes, bufs
  <2>4. QED
    BY <1>6, <2>2, <2>3, Zenon DEF ScanOn
<1>7. CASE TakeVictim(p)
  <2>1. At(p, cpc[p]) /\ cpc[p] = "victim" /\ ~WillRelease(p) /\ UNCHANGED <<b_lock, bh, wq>> /\ cpu' = p
    BY <1>7 DEF TakeVictim, At, Goes, WillRelease, Holding
  <2>2. PICK l : cpc' = [cpc EXCEPT ![p] = l]
    BY <1>7, Zenon DEF TakeVictim, Goes
  <2>3. QED
    BY <2>1, <2>2, GoingOnKeepsReason, ZenonT(30)
<1>8. CASE SyncNext(p)
  <2>1. At(p, cpc[p]) /\ cpc[p] # "find" /\ UNCHANGED <<bh, wq>> /\ cpu' \in {p, NoTask}
    BY <1>8, Zenon DEF SyncNext, At, Goes, Leaves
  <2>2. PICK l \in {"write", "sync", "taken", "user"} :
          cpc' = [cpc EXCEPT ![p] = l] /\ (l = "user" => bh[p] = 0)
    BY <1>8, Zenon DEF SyncNext, Goes, Leaves
  <2>3. WillRelease(p) => WillRelease(p)'
    BY <1>0, <2>1, <2>2, Zenon DEF WillRelease, Holding, HandInv
  <2>4. \A b \in Buffers : b_lock[b] => b_lock'[b]
    BY <1>0, <1>8, Zenon DEF SyncNext, Submit
  <2>5. QED
    BY <2>1, <2>2, <2>3, <2>4, GoingOnKeepsReason, Zenon
<1>9. CASE Install(p)
  <2>1. At(p, cpc[p]) /\ cpc[p] = "taken" /\ UNCHANGED <<bh, wq, b_lock, want>> /\ cpu' = p
    BY <1>9 DEF Install, At, Goes
  <2>2. PICK l : cpc' = [cpc EXCEPT ![p] = l]
    BY <1>9, Zenon DEF Install, Goes
  <2>3. WillRelease(p)'
    <3>1. CASE Beaten(want[p])
      <4>1. PICK c \in hashed : b_block[c] = want[p]
        BY <3>1, Zenon DEF Beaten, Found
      <4>2. bh[p] \notin hashed /\ bh[p] # 0
        BY <1>0, <2>1, Zenon DEF HoldInv, VictimIsOwn, InHand, Taking
      <4>3. hashed' = hashed /\ b_block'[c] = b_block[c]
        BY <1>9, <3>1, <4>1, <4>2, Zenon DEF Install, InsertIntoQueues, HoldInv, CacheInv, ListInv
      <4>4. cpc'[p] = "find"
        BY <1>0, <1>9, <3>1 DEF Install, Goes, HandInv
      <4>5. QED
        BY <2>1, <4>1, <4>3, <4>4 DEF WillRelease, Found
    <3>2. CASE ~Beaten(want[p])
      <4>1. cpc'[p] = "got" /\ bh[p] \in Buffers
        BY <1>0, <1>9, <2>1, <3>2, SMTT(30) DEF Install, Goes, HandInv, InHand
      <4>2. QED
        BY <2>1, <4>1, Zenon DEF WillRelease, Holding
    <3>3. QED
      BY <3>1, <3>2, ZenonT(30)
  <2>4. QED
    BY <2>1, <2>2, <2>3, GoingOnKeepsReason, ZenonT(30)
<1>10. CASE Got(p)
  <2>1. At(p, cpc[p]) /\ cpc[p] = "got" /\ UNCHANGED <<bh, wq>> /\ cpu' \in {p, NoTask}
    BY <1>10, Zenon DEF Got, At, Goes, Leaves
  <2>2. PICK l \in {"hold", "read"} : cpc' = [cpc EXCEPT ![p] = l]
    BY <1>10 DEF Got, Goes, Leaves
  <2>3. WillRelease(p)'
    BY <1>0, <2>1, <2>2, Zenon DEF WillRelease, Holding, HandInv, InHand
  <2>4. \A b \in Buffers : b_lock[b] => b_lock'[b]
    BY <1>0, <1>10, Zenon DEF Got, Submit
  <2>5. QED
    BY <2>1, <2>2, <2>3, <2>4, GoingOnKeepsReason, ZenonT(30)
<1>11. CASE ReadDone(p)
  <2>1. At(p, cpc[p]) /\ cpc[p] = "read" /\ p \notin wq.inside /\ UNCHANGED <<b_lock, bh>> /\ cpu' = NoTask
    BY <1>11, SMTT(30) DEF ReadDone, At, Leaves
  <2>2. CASE Leaves(p, "hold") /\ UNCHANGED wq
    <3>1. WillRelease(p)'
      BY <1>0, <2>1, <2>2, Zenon DEF WillRelease, Leaves, Holding, HandInv, InHand
    <3>2. QED
      BY <2>1, <2>2, <3>1, GoingOnKeepsReason, Zenon DEF Leaves
  <2>3. CASE Brelse(bh[p])
    BY <2>1, <2>3, BrelseKeepsReason, Zenon DEF Brelse
  <2>4. QED
    BY <1>11, <2>2, <2>3, ZenonT(30) DEF ReadDone
<1>12. CASE Released(p)
  BY <1>12, BrelseKeepsReason DEF Released, Brelse, At, Leaves
<1>13. QED
  BY <1>1, <1>2, <1>3, <1>4, <1>5, <1>6, <1>7, <1>8, <1>9, <1>10, <1>11, <1>12, Zenon DEF InKernel

LEMMA StepKeepsReason ==
  ASSUME CacheInv, HoldInv, CountsAreHeld, TransferInv, ReasonInv, [CNext]_cvars
  PROVE  ReasonInv'
<1>0. HandInv
  BY DEF CacheInv
<1>1. ASSUME NEW p \in Processes, Sync(p) PROVE ReasonInv'
  <2>1. At(p, cpc[p]) /\ cpc[p] = "user" /\ ~WillRelease(p) /\ UNCHANGED <<b_lock, wq>> /\ cpu' = p
        /\ cpc' = [cpc EXCEPT ![p] = "sync"]
    BY <1>1 DEF Sync, At, Goes, bufs, WillRelease, Holding
  <2>2. \A q \in Processes \ {p} : bh'[q] = bh[q]
    BY <1>0, <1>1 DEF Sync, HandInv
  <2>3. QED
    BY <2>1, <2>2, GoingOnKeepsReason, Zenon
<1>2. ASSUME NEW p \in Processes, NEW k \in Blocks, Bread(p, k) PROVE ReasonInv'
  <2>1. At(p, cpc[p]) /\ cpc[p] = "user" /\ ~WillRelease(p) /\ UNCHANGED <<b_lock, wq, bh>> /\ cpu' = p
        /\ cpc' = [cpc EXCEPT ![p] = "find"]
    BY <1>2 DEF Bread, At, Goes, bufs, WillRelease, Holding
  <2>2. QED
    BY <2>1, GoingOnKeepsReason, Zenon
<1>3. ASSUME NEW p \in Processes, Release(p) PROVE ReasonInv'
  <2>1. At(p, cpc[p]) /\ cpc[p] = "hold" /\ UNCHANGED <<b_lock, wq, bh>> /\ cpu' = p
        /\ cpc' = [cpc EXCEPT ![p] = "brelse"]
    BY <1>3 DEF Release, At, Goes, bufs
  <2>2. WillRelease(p)'
    BY <1>0, <2>1, Zenon DEF WillRelease, Holding, HandInv, InHand
  <2>3. QED
    BY <2>1, <2>2, GoingOnKeepsReason, ZenonT(30)
<1>4. ASSUME UNCHANGED <<wq, cpc, bh, want, cpu, hashed, b_block, b_lock>> PROVE ReasonInv'
  <2>1. \A q \in Processes : WillRelease(q) => WillRelease(q)'
    BY <1>4, Zenon DEF WillRelease, Found
  <2>2. QED
    BY <1>4, <2>1, Zenon DEF ReasonInv
<1>5. ASSUME NEW p \in Processes, Modify(p) PROVE ReasonInv'
  BY <1>4, <1>5 DEF Modify, lists
<1>6. ASSUME NEW i \in DOMAIN requests, DiskTakes(i) PROVE ReasonInv'
  BY <1>4, <1>6, SMTT(30) DEF DiskTakes, lists
<1>7. ASSUME NEW i \in DOMAIN requests, NEW ok \in Results, DiskInterrupt(i, ok) PROVE ReasonInv'
  <2>1. requests[i].bh \in Buffers
    BY <1>7, RequestsInOrder, Zenon DEF Request
  <2>2. QED
    BY <1>7, <2>1, InterruptKeepsReason, Zenon DEF DiskInterrupt, lists
<1>8. CASE UNCHANGED cvars
  BY <1>4, <1>8 DEF cvars, bufs, lists
<1>9. QED
  BY <1>1, <1>2, <1>3, <1>5, <1>6, <1>7, <1>8, InKernelKeepsReason DEF CNext, DiskWorks

-----------------------------------------------------------------------------
(***************************************************************************)
(* The inductive invariant of the cache.  BuffersSound is not inductive:   *)
(* that a victim is nobody else's, that pointers to sleepers do not split, *)
(* and that requests are for buffers with a block has to come with it.     *)
(***************************************************************************)
BuffersInv == CacheInv /\ HoldInv /\ FreeListIsRing /\ TransferInv /\ ReasonInv

-----------------------------------------------------------------------------
\* A buffer whose contents the disk has, or could not take, or that has no block.
Clean(b) == ~b_dirt[b] \/ ~b_uptodate[b] \/ b_block[b] = 0

\* The loop of sync_dev has been past the victim that it is called for.
Passed(p) ==
  /\ bh[p] # 0
  /\ \/ cpc[p] = "taken"
     \/ cpc[p] \in {"sync", "write"} /\ idx[p] > bh[p]
     \/ cpc[p] = "write" /\ idx[p] = bh[p] /\ ~b_lock[bh[p]]

\* getblk's sync_dev: a victim that the loop is past is clean, whatever other
\* processes and the disk do while the loop sleeps.
DirtInv == \A p \in Processes : Passed(p) => Clean(bh[p])

\* The end of a transfer leaves its buffer clean.
LEMMA UnlockedIsClean ==
  ASSUME BuffersInv, [CNext]_cvars, NEW b \in Buffers, b_lock[b], ~b_lock'[b]
  PROVE  Clean(b)'
<1>0. TransferInv /\ \A i \in DOMAIN requests : requests[i].bh \in Buffers
  BY RequestsInOrder DEF BuffersInv, Request
<1>1. b_lock' # b_lock
  OBVIOUS
<1>2. ASSUME NEW i \in DOMAIN requests, NEW ok \in Results, DiskInterrupt(i, ok) PROVE Clean(b)'
  <2>1. requests[i].bh = b
    BY <1>0, <1>2, Zenon DEF DiskInterrupt, TransferInv
  <2>2. b_uptodate'[b] = ok /\ b_dirt'[b] = (~ok /\ b_dirt[b])
    BY <1>2, <2>1, ZenonT(30) DEF DiskInterrupt, TransferInv, BuffersInv
  <2>3. QED
    BY <2>2, ZenonT(30) DEF Clean
<1>3. ASSUME NEW p \in Processes, SyncNext(p) \/ Got(p) PROVE FALSE
  BY <1>0, <1>3, Zenon DEF SyncNext, Got, Submit, TransferInv
<1>4. ASSUME NEW p \in Processes, InKernel(p) \/ Sync(p) \/ Modify(p) \/ Release(p) \/ \E k \in Blocks : Bread(p, k)
      PROVE  b_lock' = b_lock \/ SyncNext(p) \/ Got(p)
  <2>1. CASE Resumes(p) \/ WaitOnBuffer(p) \/ Sync(p) \/ Modify(p) \/ Release(p) \/ \E k \in Blocks : Bread(p, k)
    BY <2>1, ZenonT(30) DEF Resumes, WaitOnBuffer, Waits, Sleeps, Sync, Modify, Release, Bread, bufs
  <2>2. CASE FindBuffer(p) \/ FoundCheck(p) \/ Scan(p) \/ ScanOn(p)
    BY <2>2, ZenonT(30) DEF FindBuffer, FoundCheck, Scan, ScanOn, Sleeps, bufs
  <2>3. CASE TakeVictim(p) \/ Install(p) \/ ReadDone(p) \/ Released(p)
    BY <2>3, Zenon DEF TakeVictim, Install, ReadDone, Released
  <2>4. QED
    BY <1>4, <2>1, <2>2, <2>3, SMTT(30) DEF InKernel
<1>5. ASSUME NEW i \in DOMAIN requests, DiskTakes(i) PROVE b_lock' = b_lock
  BY <1>5 DEF DiskTakes
<1>6. CASE UNCHANGED cvars
  BY <1>1, <1>6, SMTT(30) DEF cvars, bufs
<1>7. QED
  BY <1>1, <1>2, <1>3, <1>4, <1>5, <1>6 DEF CNext, DiskWorks

\* A victim that is clean stays so: only its holder may modify a buffer.
LEMMA CleanStays ==
  ASSUME BuffersInv, [CNext]_cvars, NEW p \in Processes, cpc[p] \in Taking, cpc'[p] \in Taking,
         NEW b \in Buffers, b = bh[p], Clean(b)
  PROVE  Clean(b)'
<1>0. /\ HoldInv /\ HandInv /\ TransferInv /\ \A i \in DOMAIN requests : requests[i].bh \in Buffers
      /\ b # 0
  BY RequestsInOrder, CacheNumbers, ZenonT(30) DEF BuffersInv, CacheInv, Request
<1>1. \A q \in Processes : cpc[q] \in Holding /\ bh[q] = b => q = p
  BY <1>0, LabelSets DEF HoldInv, VictimIsOwn, Holders
<1>2. ASSUME UNCHANGED <<b_dirt, b_uptodate, b_block>> PROVE Clean(b)'
  BY <1>2 DEF Clean
<1>3. ASSUME NEW i \in DOMAIN requests, NEW ok \in Results, DiskInterrupt(i, ok) PROVE Clean(b)'
  <2> DEFINE c == requests[i].bh
  <2>1. /\ b_uptodate' = [b_uptodate EXCEPT ![c] = ok] /\ b_dirt' = [b_dirt EXCEPT ![c] = ~ok /\ @]
        /\ b_block' = b_block /\ c \in Buffers
    BY <1>0, <1>3, Zenon DEF DiskInterrupt
  <2> HIDE DEF c
  <2>2. CASE c = b
    <3>1. b_uptodate'[b] = ok /\ b_dirt'[b] = (~ok /\ b_dirt[b])
      BY <1>0, <2>1, <2>2, Zenon DEF TransferInv
    <3>2. QED
      BY <3>1, ZenonT(30) DEF Clean
  <2>3. CASE c # b
    BY <1>0, <2>1, <2>3, Zenon DEF TransferInv, Clean
  <2>4. QED
    BY <2>2, <2>3, Zenon
<1>4. ASSUME NEW q \in Processes, Install(q) PROVE Clean(b)'
  <2>1. cpc[q] \in Holding /\ bh[q] \in Buffers /\ q # p
    <3>1. cpc[q] = "taken" /\ cpc'[q] \notin Taking
      BY <1>0, <1>4, Zenon DEF Install, At, Goes, HandInv, Taking
    <3>2. QED
      BY <1>0, <3>1, Zenon DEF HandInv, InHand, Holding
  <2>2. bh[q] # b
    BY <1>1, <2>1, SMTT(30)
  <2>3. b_dirt'[b] = b_dirt[b] /\ b_uptodate'[b] = b_uptodate[b] /\ b_block'[b] = b_block[b]
    BY <1>0, <1>4, <2>2, Zenon DEF Install, TransferInv, HoldInv
  <2>4. QED
    BY <2>3, Zenon DEF Clean
<1>5. ASSUME NEW q \in Processes, Modify(q) PROVE Clean(b)'
  <2>1. cpc[q] \in Holding /\ q # p
    BY <1>5, ZenonT(30) DEF Modify, At, Holding, Taking
  <2>2. bh[q] # b
    BY <1>1, <2>1, SMTT(30)
  <2>3. b_dirt'[b] = b_dirt[b] /\ UNCHANGED <<b_uptodate, b_block>>
    BY <1>0, <1>5, <2>2, ZenonT(30) DEF Modify, TransferInv
  <2>4. QED
    BY <2>3, SMTT(30) DEF Clean
<1>6. ASSUME NEW q \in Processes, InKernel(q) \/ Sync(q) \/ Release(q) \/ \E k \in Blocks : Bread(q, k)
      PROVE  UNCHANGED <<b_dirt, b_uptodate, b_block>> \/ Install(q)
  <2>1. CASE Resumes(q) \/ WaitOnBuffer(q) \/ Sync(q) \/ Release(q) \/ \E k \in Blocks : Bread(q, k)
    BY <2>1, ZenonT(30) DEF Resumes, WaitOnBuffer, Waits, Sleeps, Sync, Release, Bread, bufs
  <2>2. CASE FindBuffer(q) \/ FoundCheck(q) \/ Scan(q) \/ ScanOn(q)
    BY <2>2, ZenonT(30) DEF FindBuffer, FoundCheck, Scan, ScanOn, Sleeps, bufs
  <2>3. CASE TakeVictim(q) \/ SyncNext(q) \/ Got(q) \/ ReadDone(q) \/ Released(q)
    BY <2>3, Zenon DEF TakeVictim, SyncNext, Got, ReadDone, Released
  <2>4. QED
    BY <1>6, <2>1, <2>2, <2>3, ZenonT(30) DEF InKernel
<1>7. ASSUME NEW i \in DOMAIN requests, DiskTakes(i) PROVE UNCHANGED <<b_dirt, b_uptodate, b_block>>
  BY <1>7, SMTT(30) DEF DiskTakes
<1>8. CASE UNCHANGED cvars
  BY <1>2, <1>8, ZenonT(30) DEF cvars, bufs
<1>9. QED
  BY <1>2, <1>3, <1>4, <1>5, <1>6, <1>7, <1>8, Zenon DEF CNext, DiskWorks

\* What a step may mean for the loop of p.
LEMMA LoopSteps ==
  ASSUME BuffersInv, [CNext]_cvars, NEW p \in Processes, cpc'[p] \in Taking, bh'[p] # 0
  PROVE  \/ cpc'[p] = cpc[p] /\ idx'[p] = idx[p] /\ bh'[p] = bh[p]
         \/ TakeVictim(p) \/ SyncNext(p)
<1>0. HandInv /\ idx \in [Processes -> 1 .. NR_BUFFERS + 1]
  BY ZenonT(30) DEF BuffersInv, CacheInv, TransferInv
<1>1. ASSUME NEW q \in Processes, NEW l, cpc' = [cpc EXCEPT ![q] = l], q # p \/ l \notin Taking,
             \A r \in Processes \ {q} : bh'[r] = bh[r] /\ idx'[r] = idx[r]
      PROVE  cpc'[p] = cpc[p] /\ idx'[p] = idx[p] /\ bh'[p] = bh[p]
  BY <1>0, <1>1, ZenonT(30) DEF HandInv
<1>2. ASSUME UNCHANGED <<cpc, idx, bh>>
      PROVE  cpc'[p] = cpc[p] /\ idx'[p] = idx[p] /\ bh'[p] = bh[p]
  BY <1>2, ZenonT(30)
<1>3. ASSUME NEW q \in Processes, TakeVictim(q) \/ SyncNext(q), q # p
      PROVE  cpc'[p] = cpc[p] /\ idx'[p] = idx[p] /\ bh'[p] = bh[p]
  BY <1>0, <1>3 DEF TakeVictim, SyncNext, Goes, Leaves, HandInv
<1>4. ASSUME NEW q \in Processes, Sync(q)
      PROVE  cpc'[p] = cpc[p] /\ idx'[p] = idx[p] /\ bh'[p] = bh[p]
  BY <1>0, <1>4, SMTT(30) DEF Sync, Goes, HandInv
<1>5. ASSUME NEW q \in Processes, Resumes(q) \/ WaitOnBuffer(q) \/ Modify(q)
      PROVE  cpc'[p] = cpc[p] /\ idx'[p] = idx[p] /\ bh'[p] = bh[p]
  BY <1>0, <1>5, WaitingStays, Zenon DEF Resumes, Modify
<1>6. ASSUME NEW q \in Processes, FindBuffer(q) \/ ScanOn(q)
      PROVE  cpc'[p] = cpc[p] /\ idx'[p] = idx[p] /\ bh'[p] = bh[p]
  <2>1. \A r \in Processes \ {q} : bh'[r] = bh[r] /\ idx'[r] = idx[r]
    BY <1>0, <1>6, ZenonT(30) DEF FindBuffer, ScanOn, Sleeps, HandInv
  <2>2. PICK l \in {"found", "scan", "find"} : cpc' = [cpc EXCEPT ![q] = l]
    BY <1>6, Zenon DEF FindBuffer, ScanOn, Sleeps, Goes, Leaves
  <2>3. l \notin Taking
    BY <2>2, Zenon DEF Taking
  <2>4. QED
    BY <1>1, <2>1, <2>2, <2>3, Zenon
<1>7. ASSUME NEW q \in Processes, FoundCheck(q) \/ Scan(q) \/ Install(q) \/ Got(q) \/ ReadDone(q)
             \/ Released(q) \/ Release(q) \/ \E k \in Blocks : Bread(q, k)
      PROVE  cpc'[p] = cpc[p] /\ idx'[p] = idx[p] /\ bh'[p] = bh[p]
  <2>1. UNCHANGED <<bh, idx>>
    BY <1>7, ZenonT(30) DEF FoundCheck, Scan, Install, Got, ReadDone, Released, Release, Bread
  <2>2. PICK l \in {"got", "find", "victim", "hold", "read", "user", "brelse"} : cpc' = [cpc EXCEPT ![q] = l]
    BY <1>7, Zenon DEF FoundCheck, Scan, Install, Got, ReadDone, Released, Release, Bread, Goes, Leaves
  <2>3. l \notin Taking
    BY <2>2 DEF Taking
  <2>4. QED
    BY <1>1, <2>1, <2>2, <2>3, SMTT(30)
<1>8. ASSUME DiskWorks PROVE cpc'[p] = cpc[p] /\ idx'[p] = idx[p] /\ bh'[p] = bh[p]
  BY <1>2, <1>8, SMTT(30) DEF DiskWorks, DiskTakes, DiskInterrupt
<1>9. CASE UNCHANGED cvars
  BY <1>2, <1>9, ZenonT(30) DEF cvars
<1>10. QED
  BY <1>3, <1>4, <1>5, <1>6, <1>7, <1>8, <1>9, ZenonT(30) DEF CNext, InKernel

LEMMA StepKeepsDirt ==
  ASSUME BuffersInv, DirtInv, [CNext]_cvars
  PROVE  DirtInv'
<1> SUFFICES ASSUME NEW p \in Processes, Passed(p)' PROVE Clean(bh[p])'
  BY Zenon DEF DirtInv
<1>0. /\ HandInv /\ TransferInv /\ CacheInv /\ HoldInv /\ bh[p] \in Buffers \cup {0} /\ 0 \notin Buffers
      /\ Buffers = 1 .. NR_BUFFERS /\ NR_BUFFERS \in Nat /\ idx \in [Processes -> 1 .. NR_BUFFERS + 1]
  <2>1. HandInv /\ TransferInv /\ CacheInv /\ HoldInv
    BY DEF BuffersInv, CacheInv
  <2>2. bh[p] \in Buffers \cup {0} /\ idx \in [Processes -> 1 .. NR_BUFFERS + 1]
    BY <2>1 DEF HandInv, TransferInv
  <2>3. Buffers = 1 .. NR_BUFFERS /\ NR_BUFFERS \in Nat
    BY CacheNumbers, Zenon DEF Buffers
  <2>4. 0 \notin Buffers
    BY CacheNumbers, Zenon
  <2>5. QED
    BY <2>1, <2>2, <2>3, <2>4
<1>1. cpc'[p] \in Taking /\ bh'[p] # 0
  BY DEF Passed, Taking
<1>2. ASSUME NEW b \in Buffers, b = bh[p], bh'[p] = bh[p], cpc[p] \in Taking, Clean(b)
      PROVE  Clean(bh[p])'
  <2>1. Clean(b)'
    BY <1>1, <1>2, CleanStays
  <2>2. QED
    BY <1>2, <2>1, Zenon DEF Clean
<1>3. ASSUME bh[p] \in Buffers, bh'[p] = bh[p], cpc[p] \in Taking, Passed(p)
      PROVE  Clean(bh[p])'
  BY <1>2, <1>3 DEF DirtInv
<1>4. CASE cpc'[p] = cpc[p] /\ idx'[p] = idx[p] /\ bh'[p] = bh[p]
  <2>1. bh[p] \in Buffers /\ cpc[p] \in Taking
    BY <1>0, <1>1, <1>4, Zenon
  <2>2. CASE Passed(p)
    BY <1>3, <1>4, <2>1, <2>2, Zenon
  <2>3. CASE ~Passed(p)
    <3>1. PICK b \in Buffers : b = bh[p]
      BY <2>1, Zenon
    <3>2. b_lock[b] /\ ~b_lock'[b]
      BY <1>4, <2>3, <3>1, Zenon DEF Passed
    <3>3. Clean(b)'
      BY <3>2, UnlockedIsClean, Zenon
    <3>4. QED
      BY <1>4, <3>1, <3>3 DEF Clean
  <2>4. QED
    BY <2>2, <2>3
<1>5. CASE TakeVictim(p)
  <2>1. /\ cpc[p] = "victim" /\ bh' = bh /\ bh[p] \in Buffers /\ idx'[p] = 1
        /\ UNCHANGED <<b_dirt, b_uptodate, b_block, b_lock>>
    BY <1>0, <1>5, ZenonT(30) DEF TakeVictim, At, HandInv, InHand
  <2>2. cpc'[p] = IF b_dirt[bh[p]] THEN "sync" ELSE "taken"
    BY <1>0, <1>5, SMTT(30) DEF TakeVictim, Goes, MustSync, HandInv
  <2>3. CASE b_dirt[bh[p]]
    <3>1. cpc'[p] = "sync" /\ bh'[p] = bh[p] /\ ~(idx'[p] > bh[p])
      <4>1. bh[p] \in Buffers /\ idx'[p] = 1
        BY <2>1
      <4>2. ~(idx'[p] > bh[p])
        BY <4>1, LoopNumbers, Zenon
      <4>3. QED
        BY <2>1, <2>2, <2>3, <4>2, Zenon
    <3>2. ~Passed(p)'
      BY <3>1, Zenon DEF Passed
    <3>3. QED
      BY <3>2, Zenon
  <2>4. CASE ~b_dirt[bh[p]]
    BY <2>1, <2>4 DEF Clean
  <2>5. QED
    BY <2>3, <2>4, SMTT(30)
<1>6. CASE SyncNext(p)
  <2>1. /\ UNCHANGED <<b_dirt, b_uptodate, b_block, bh>> /\ cpc[p] \in Taking /\ bh[p] \in Buffers
    BY <1>0, <1>1, <1>6, ZenonT(30) DEF SyncNext, At, Taking
  <2>2. ASSUME Passed(p) \/ Clean(bh[p]) PROVE Clean(bh[p])'
    BY <1>2, <1>3, <2>1, <2>2, ZenonT(30)
  <2>3. CASE cpc[p] = "sync" /\ Submit(idx[p], "write") /\ Goes(p, "write") /\ UNCHANGED idx
    <3>1. cpc'[p] = "write" /\ idx'[p] = idx[p]
      BY <1>0, <2>3, SMTT(30) DEF Goes, HandInv
    <3>2. idx[p] = bh[p] => b_lock'[bh[p]]
      BY <1>0, <2>1, <2>3, ZenonT(30) DEF Submit, TransferInv
    <3>3. idx[p] > bh[p]
      BY <2>1, <3>1, <3>2, Zenon DEF Passed
    <3>4. QED
      BY <2>1, <2>2, <2>3, <3>3, <1>0, Zenon DEF Passed
  <2>4. CASE cpc[p] = "sync" /\ ~(b_dirt[idx[p]] /\ b_block[idx[p]] # 0) /\ idx'[p] = idx[p] + 1
             /\ Goes(p, "sync")
    <3>1. cpc'[p] = "sync" /\ idx[p] \in Int /\ bh[p] \in Int
      BY <1>0, <2>1, <2>4, SMTT(30) DEF Goes, HandInv
    <3>2. idx[p] + 1 > bh[p]
      BY <2>1, <2>4, <3>1, ZenonT(30) DEF Passed
    <3>3. CASE idx[p] = bh[p]
      BY <2>2, <2>4, <3>3, ZenonT(30) DEF Clean
    <3>4. CASE idx[p] > bh[p]
      BY <1>0, <2>1, <2>2, <2>4, <3>4, Zenon DEF Passed
    <3>5. QED
      BY <3>1, <3>2, <3>3, <3>4
  <2>5. CASE cpc[p] = "write" /\ ~b_lock[idx[p]] /\ idx'[p] = idx[p] + 1 /\ Goes(p, "sync")
    <3>1. cpc'[p] = "sync" /\ idx[p] \in Int /\ bh[p] \in Int
      BY <1>0, <2>1, <2>5, SMTT(30) DEF Goes, HandInv
    <3>2. idx[p] + 1 > bh[p]
      BY <2>1, <2>5, <3>1, Zenon DEF Passed
    <3>3. Passed(p)
      <4>1. idx[p] > bh[p] \/ idx[p] = bh[p]
        BY <3>1, <3>2, LoopNumbers, Zenon
      <4>2. QED
        BY <1>0, <2>1, <2>5, <4>1, Zenon DEF Passed
    <3>4. QED
      BY <2>2, <3>3
  <2>6. CASE cpc[p] = "sync" /\ idx[p] > NR_BUFFERS
    <3>1. idx[p] > bh[p]
      BY <1>0, <2>1, <2>6
    <3>2. QED
      BY <1>0, <2>1, <2>2, <2>6, <3>1, Zenon DEF Passed
  <2>7. QED
    <3>1. \A n : idx' = [idx EXCEPT ![p] = n] => idx'[p] = n
      BY <1>0
    <3>2. QED
      BY <1>6, <2>3, <2>4, <2>5, <2>6, <3>1, Zenon DEF SyncNext, At
<1>7. QED
  BY <1>1, <1>4, <1>5, <1>6, LoopSteps, ZenonT(30)

=============================================================================
