-------------------------- MODULE BufferHoldProofs ---------------------------
(***************************************************************************)
(* Counting in the buffer cache: b_count is the number of a buffer's       *)
(* holders, and with more buffers than processes the free list never runs  *)
(* out.  With BufferCacheProofs this makes BuffersInv inductive.           *)
(***************************************************************************)
EXTENDS BufferCacheProofs, FiniteSetTheorems

\* Any nonempty set of naturals has a least element.
LEMMA LeastNatural ==
  ASSUME NEW S, S \subseteq Nat, S # {}
  PROVE  \E n \in S : \A m \in S : n <= m
<1>1. PICK n \in S : \A m \in S : <<m, n>> \notin OpToRel(<, Nat)
  BY NatLessThanWellFounded, WFMin, Zenon
<1>2. OpToRel(<, Nat) = {ss \in Nat \X Nat : ss[1] < ss[2]}
  BY DEF OpToRel
<1>3. \A m \in S : ~(m < n)
  BY <1>1, <1>2, Zenon
<1>4. QED
  BY <1>3

LEMMA HoldersFinite ==
  ASSUME NEW b
  PROVE  IsFiniteSet(Holders(b)) /\ Cardinality(Holders(b)) \in Nat
         /\ (Cardinality(Holders(b)) = 0 <=> Holders(b) = {})
<1>1. Holders(b) \in SUBSET Processes
  BY DEF Holders
<1>2. IsFiniteSet(Holders(b))
  BY <1>1, FS_Subset, CacheAssumption
<1>3. QED
  BY <1>2, FS_CardinalityType, FS_EmptySet

\* A process that holds nothing goes on without holding anything.
LEMMA EmptyHandsGoOn ==
  ASSUME HoldInv, HandInv, NEW p \in Processes, NEW l, NEW b, NEW k \in Blocks \cup {0},
         cpc[p] \notin Holding, l \notin Holding \/ (b = 0 /\ l = "sync"),
         cpc' = [cpc EXCEPT ![p] = l], bh' = [bh EXCEPT ![p] = b], want' = [want EXCEPT ![p] = k],
         UNCHANGED <<pinned, b_count, b_block, hashed>>
  PROVE  HoldInv'
<1>0. 0 \notin Buffers /\ "sync" \notin Keeping
  BY CacheAssumption DEF Buffers, Keeping
<1>1. ASSUME NEW c \in Buffers PROVE Holders(c)' = Holders(c)
  BY <1>0 DEF Holders, HandInv
<1>2. CountIsHolders'
  BY <1>1 DEF CountIsHolders, HoldInv
<1>3. HeldKeepsBlock'
  BY <1>0, LabelSets DEF HeldKeepsBlock, HoldInv, HandInv, Keeping
<1>4. VictimIsOwn'
  BY <1>1, LabelSets DEF VictimIsOwn, HoldInv, HandInv
<1>5. QED
  BY <1>2, <1>3, <1>4 DEF HoldInv, OneBufferPerBlock

\* A process goes on with what it has.
LEMMA FullHandsGoOn ==
  ASSUME HoldInv, HandInv, NEW p \in Processes, NEW l,
         \/ cpc[p] \in Taking /\ l \in Taking
         \/ cpc[p] \in Keeping /\ l \in Keeping
         \/ bh[p] = 0 /\ l \notin Holding
         \/ cpc[p] \notin Holding /\ l \notin Holding,
         cpc' = [cpc EXCEPT ![p] = l], bh' = bh, want' = want,
         UNCHANGED <<pinned, b_count, b_block, hashed>>
  PROVE  HoldInv'
<1>0. 0 \notin Buffers
  BY CacheAssumption DEF Buffers
<1>1. ASSUME NEW c \in Buffers PROVE Holders(c)' = Holders(c)
  BY <1>0, LabelSets DEF Holders, HandInv
<1>2. CountIsHolders'
  BY <1>1 DEF CountIsHolders, HoldInv
<1>3. HeldKeepsBlock'
  BY LabelSets DEF HeldKeepsBlock, HoldInv, HandInv, Keeping
<1>4. VictimIsOwn'
  BY <1>1, LabelSets DEF VictimIsOwn, HoldInv, HandInv
<1>5. QED
  BY <1>2, <1>3, <1>4 DEF HoldInv, OneBufferPerBlock

\* A process gets hold of a buffer, and nobody lets go of one.
LEMMA OneMoreHolder ==
  ASSUME HoldInv, HandInv, NEW p \in Processes, cpc[p] \notin Holding,
         NEW b \in Buffers, NEW l \in Holding,
         cpc' = [cpc EXCEPT ![p] = l], bh' = [bh EXCEPT ![p] = b], Hold(b), UNCHANGED pinned
  PROVE  /\ \A c \in Buffers : Holders(c)' = IF c = b THEN Holders(c) \cup {p} ELSE Holders(c)
         /\ CountIsHolders' /\ b_count' \in [Buffers -> Nat]
<1>1. ASSUME NEW c \in Buffers
      PROVE  Holders(c)' = IF c = b THEN Holders(c) \cup {p} ELSE Holders(c)
  BY DEF Holders, HandInv
<1>2. p \notin Holders(b)
  BY DEF Holders
<1>3. Cardinality(Holders(b) \cup {p}) = Cardinality(Holders(b)) + 1
  BY <1>2, HoldersFinite, FS_AddElement, Zenon
<1>4. b_count' \in [Buffers -> Nat]
  BY DEF HoldInv, Hold
<1>5. ASSUME NEW c \in Buffers PROVE b_count'[c] = Cardinality(Holders(c)')
  <2>1. b_count[c] = Cardinality(Holders(c)) /\ Cardinality(Holders(c)) \in Nat
    BY HoldersFinite DEF HoldInv, CountIsHolders
  <2>2. b_count'[c] = IF c = b THEN b_count[c] + 1 ELSE b_count[c]
    BY DEF Hold, HoldInv
  <2>3. QED
    BY <1>1, <1>3, <2>1, <2>2
<1>6. CountIsHolders'
  <2>1. ASSUME NEW c \in Buffers
        PROVE  b_count'[c] = Cardinality(Holders(c)') + (IF c \in pinned' THEN 1 ELSE 0)
    <3>1. c \notin pinned' /\ b_count'[c] \in Nat
      BY <1>4 DEF HoldInv
    <3>2. QED
      BY <1>5, <3>1
  <2>2. QED
    BY <2>1 DEF CountIsHolders
<1>7. QED
  BY <1>1, <1>4, <1>6

\* A process lets go of its buffer.
LEMMA OneHolderLess ==
  ASSUME HoldInv, HandInv, NEW p \in Processes, cpc[p] \in Holding, bh[p] \in Buffers,
         NEW l, l \notin Holding, cpc' = [cpc EXCEPT ![p] = l], bh' = bh,
         b_count' = [b_count EXCEPT ![bh[p]] = @ - 1], UNCHANGED pinned
  PROVE  /\ \A c \in Buffers : Holders(c)' = IF c = bh[p] THEN Holders(c) \ {p} ELSE Holders(c)
         /\ CountIsHolders' /\ b_count' \in [Buffers -> Nat]
<1> DEFINE b == bh[p]
<1>1. ASSUME NEW c \in Buffers
      PROVE  Holders(c)' = IF c = b THEN Holders(c) \ {p} ELSE Holders(c)
  BY DEF Holders, HandInv
<1>2. p \in Holders(b)
  BY DEF Holders
<1>3. Cardinality(Holders(b) \ {p}) = Cardinality(Holders(b)) - 1
  BY <1>2, HoldersFinite, FS_RemoveElement, Zenon
<1>4. Cardinality(Holders(b) \ {p}) \in Nat
  <2>1. Holders(b) \ {p} \in SUBSET Holders(b)
    OBVIOUS
  <2>2. QED
    BY <2>1, HoldersFinite, FS_Subset, FS_CardinalityType
<1>5. ASSUME NEW c \in Buffers
      PROVE  b_count'[c] = Cardinality(Holders(c)') /\ b_count'[c] \in Nat
  <2>1. b_count[c] = Cardinality(Holders(c)) /\ Cardinality(Holders(c)) \in Nat
    BY HoldersFinite DEF HoldInv, CountIsHolders
  <2>2. b_count'[c] = IF c = b THEN b_count[c] - 1 ELSE b_count[c]
    BY DEF HoldInv
  <2>3. QED
    BY <1>1, <1>3, <1>4, <2>1, <2>2, Zenon
<1>6. b_count' \in [Buffers -> Nat]
  BY <1>5 DEF HoldInv
<1>7. CountIsHolders'
  <2>1. ASSUME NEW c \in Buffers
        PROVE  b_count'[c] = Cardinality(Holders(c)') + (IF c \in pinned' THEN 1 ELSE 0)
    <3>1. c \notin pinned' /\ b_count'[c] \in Nat
      BY <1>5 DEF HoldInv
    <3>2. QED
      BY <1>5, <3>1
  <2>2. QED
    BY <2>1 DEF CountIsHolders
<1>8. QED
  BY <1>1, <1>6, <1>7

\* brelse, where the process goes on without a buffer.
LEMMA BrelseKeepsHold ==
  ASSUME HoldInv, HandInv, NEW p \in Processes, cpc[p] \in Keeping, bh[p] \in Buffers,
         NEW l, l \notin Holding, cpc' = [cpc EXCEPT ![p] = l], bh' = bh, want' = want,
         Brelse(bh[p]), UNCHANGED <<pinned, b_block, hashed>>
  PROVE  HoldInv'
<1>0. cpc[p] \in Holding /\ cpc[p] \notin Taking
  BY LabelSets
<1>1. /\ \A c \in Buffers : Holders(c)' = IF c = bh[p] THEN Holders(c) \ {p} ELSE Holders(c)
      /\ CountIsHolders' /\ b_count' \in [Buffers -> Nat]
  BY <1>0, OneHolderLess, Zenon DEF Brelse
<1>2. HeldKeepsBlock'
  BY LabelSets DEF HeldKeepsBlock, HoldInv, HandInv, Keeping
<1>3. VictimIsOwn'
  <2> SUFFICES ASSUME NEW q \in Processes, cpc'[q] \in Taking, bh[q] # 0
               PROVE  bh[q] \notin hashed /\ Holders(bh[q])' = {q}
    BY DEF VictimIsOwn
  <2>1. q # p /\ cpc[q] \in Taking
    BY LabelSets DEF HandInv
  <2>2. bh[q] \notin hashed /\ Holders(bh[q]) = {q} /\ bh[q] \in Buffers
    BY <2>1 DEF HoldInv, VictimIsOwn, HandInv
  <2>3. bh[q] # bh[p]
    BY <1>0, <2>1, <2>2 DEF Holders
  <2>4. QED
    BY <1>1, <2>2, <2>3
<1>4. QED
  BY <1>1, <1>2, <1>3 DEF HoldInv, OneBufferPerBlock

\* get_hash_table takes hold of a buffer of its block.
LEMMA FindKeepsHold ==
  ASSUME CacheInv, HoldInv, NEW p \in Processes, FindBuffer(p), UNCHANGED pinned
  PROVE  HoldInv'
<1>0. HandInv /\ cpc[p] = "find" /\ cpc[p] \notin Holding /\ want[p] \in Blocks \cup {0}
  BY LabelSets DEF CacheInv, FindBuffer, At, HoldInv
<1>1. CASE Found(want[p]) = {} /\ bh' = [bh EXCEPT ![p] = free_list] /\ Goes(p, "scan")
           /\ UNCHANGED b_count
  <2>1. want' = [want EXCEPT ![p] = want[p]] /\ "scan" \notin Holding
    BY LabelSets DEF FindBuffer, HoldInv
  <2>2. QED
    BY <1>0, <1>1, <2>1, EmptyHandsGoOn, Zenon DEF FindBuffer, Goes, lists
<1>2. ASSUME NEW b \in Found(want[p]), Hold(b), bh' = [bh EXCEPT ![p] = b], Goes(p, "found")
      PROVE  HoldInv'
  <2>1. b \in Buffers /\ b \in hashed /\ b_block[b] = want[p]
    BY <1>2 DEF Found, CacheInv, ListInv
  <2>2. "found" \in Keeping /\ "found" \in Holding /\ "found" \notin Taking
    BY DEF Keeping, Holding, Taking
  <2>3. UNCHANGED <<b_block, hashed, want>>
    BY DEF FindBuffer, lists
  <2>4. /\ \A c \in Buffers : Holders(c)' = IF c = b THEN Holders(c) \cup {p} ELSE Holders(c)
        /\ CountIsHolders' /\ b_count' \in [Buffers -> Nat]
    BY <1>0, <1>2, <2>1, <2>2, OneMoreHolder, Zenon DEF Goes
  <2>5. HeldKeepsBlock'
    BY <1>0, <1>2, <2>1, <2>2, <2>3, Zenon DEF HeldKeepsBlock, HoldInv, HandInv, Goes
  <2>6. VictimIsOwn'
    <3> SUFFICES ASSUME NEW q \in Processes, NEW c, c = bh'[q], cpc'[q] \in Taking, c # 0
                 PROVE  c \notin hashed /\ Holders(c)' = {q}
      BY <2>3 DEF VictimIsOwn, Holders
    <3>1. q # p /\ cpc[q] \in Taking /\ c = bh[q]
      BY <1>0, <1>2, <2>2 DEF HandInv, Goes
    <3>2. c \notin hashed /\ Holders(c) = {q} /\ c \in Buffers
      BY <1>0, <3>1 DEF HoldInv, VictimIsOwn, HandInv
    <3>3. QED
      BY <2>1, <2>4, <3>1, <3>2
  <2>7. QED
    BY <2>3, <2>4, <2>5, <2>6 DEF HoldInv, OneBufferPerBlock
<1>3. QED
  BY <1>1, <1>2 DEF FindBuffer

\* getblk takes a victim: its count is zero, so nobody has it.
LEMMA TakeVictimKeepsHold ==
  ASSUME CacheInv, HoldInv, NEW p \in Processes, TakeVictim(p), UNCHANGED pinned
  PROVE  /\ HoldInv'
         /\ bh[p] \in Buffers /\ Holders(bh[p]) = {}
         /\ \A c \in Buffers : Holders(c)' = IF c = bh[p] THEN {p} ELSE Holders(c)
<1> DEFINE b == bh[p]
<1>0. HandInv /\ cpc[p] = "victim" /\ cpc[p] \notin Holding /\ b \in Buffers
  BY LabelSets DEF CacheInv, TakeVictim, At, HandInv, InHand
<1>1. Holders(b) = {}
  BY <1>0, HoldersFinite DEF TakeVictim, HoldInv, CountIsHolders
<1>2. PICK l \in {"sync", "taken"} : cpc' = [cpc EXCEPT ![p] = l]
  BY Zenon DEF TakeVictim, Goes
<1>3. l \in Taking /\ l \in Holding /\ l \notin Keeping
  BY <1>2 DEF Taking, Holding, Keeping
<1>4. UNCHANGED <<b_block, want, bh>> /\ hashed' = hashed \ {b} /\ Hold(b)
  BY DEF TakeVictim, RemoveFromQueues
<1>5. bh' = [bh EXCEPT ![p] = b]
  BY <1>0, <1>4 DEF HandInv
<1>6. /\ \A c \in Buffers : Holders(c)' = IF c = b THEN Holders(c) \cup {p} ELSE Holders(c)
      /\ CountIsHolders' /\ b_count' \in [Buffers -> Nat]
  BY <1>0, <1>2, <1>3, <1>4, <1>5, OneMoreHolder, Zenon
<1>7. HeldKeepsBlock'
  <2> SUFFICES ASSUME NEW q \in Processes, cpc'[q] \in Keeping
               PROVE  b_block[bh[q]] = want[q] /\ bh[q] \in hashed \ {b}
    BY <1>4 DEF HeldKeepsBlock, Keeping
  <2>1. q # p /\ cpc[q] \in Keeping
    BY <1>0, <1>2, <1>3 DEF HandInv
  <2>2. b_block[bh[q]] = want[q] /\ bh[q] \in hashed
    BY <2>1 DEF HoldInv, HeldKeepsBlock, Keeping
  <2>3. bh[q] # b
    BY <1>1, <2>1, LabelSets DEF Holders
  <2>4. QED
    BY <2>2, <2>3
<1>8. VictimIsOwn'
  <2> SUFFICES ASSUME NEW q \in Processes, NEW c, c = bh[q], cpc'[q] \in Taking, c # 0
               PROVE  c \notin hashed \ {b} /\ Holders(c)' = {q}
    BY <1>4 DEF VictimIsOwn, Holders
  <2>1. CASE q = p
    BY <1>0, <1>1, <1>6, <2>1
  <2>2. CASE q # p
    <3>1. cpc[q] \in Taking
      BY <1>0, <1>2, <2>2 DEF HandInv
    <3>2. c \notin hashed /\ Holders(c) = {q} /\ c \in Buffers
      BY <1>0, <3>1 DEF HoldInv, VictimIsOwn, HandInv
    <3>3. QED
      BY <1>1, <1>6, <3>2
  <2>3. QED
    BY <2>1, <2>2
<1>9. OneBufferPerBlock' /\ pinned' = {}
  BY <1>4 DEF OneBufferPerBlock, HoldInv
<1>10. HoldInv'
  BY <1>4, <1>6, <1>7, <1>8, <1>9, Zenon DEF HoldInv
<1>11. QED
  BY <1>0, <1>1, <1>6, <1>10, Zenon

\* getblk puts the victim back, as a buffer of the block if nobody was faster.
LEMMA InstallKeepsHold ==
  ASSUME CacheInv, HoldInv, NEW p \in Processes, Install(p), UNCHANGED pinned
  PROVE  /\ HoldInv'
         /\ bh[p] \in Buffers /\ Holders(bh[p]) = {p}
         /\ \A c \in Buffers \ {bh[p]} : Holders(c)' = Holders(c)
<1> DEFINE b == bh[p]
<1>0. /\ HandInv /\ cpc[p] = "taken" /\ cpc[p] \in Taking /\ cpc[p] \in Holding /\ b \in Buffers /\ b # 0
      /\ want[p] \in Blocks \cup {0}
  BY CacheAssumption DEF CacheInv, Install, At, HandInv, InHand, Taking, Holding, HoldInv, Buffers
<1>1. b \notin hashed /\ Holders(b) = {p}
  BY <1>0 DEF HoldInv, VictimIsOwn
<1>2. {"find"} \cap (Holding \cup Taking \cup Keeping) = {} /\ "got" \in Keeping /\ "got" \notin Taking
      /\ "got" \in Holding
  BY Zenon DEF Holding, Taking, Keeping
<1>3. UNCHANGED <<want, bh>>
  BY DEF Install
<1>4. PICK l \in {"find", "got"} : cpc' = [cpc EXCEPT ![p] = l]
  BY Zenon DEF Install, Goes
<1>5. ASSUME NEW c \in Buffers \ {b} PROVE Holders(c)' = Holders(c) /\ b_count'[c] = b_count[c]
  BY <1>0, <1>3, <1>4, Zenon DEF Holders, HandInv, Install, HoldInv
<1>6. b_block' \in [Buffers -> Blocks \cup {0}] /\ \A c \in Buffers \ {b} : b_block'[c] = b_block[c]
  BY <1>0 DEF Install, HoldInv
<1>7. \A q \in Processes : q # p /\ cpc[q] \in Holding => bh[q] # b
  BY <1>1 DEF Holders
<1>8. \A q \in Processes \ {p} : cpc'[q] = cpc[q]
  BY <1>0, <1>4 DEF HandInv
<1>9. ASSUME NEW q \in Processes \ {p}, cpc[q] \in Taking, NEW c, c = bh[q], c # 0
      PROVE  c \notin hashed /\ c # b /\ c \in Buffers /\ Holders(c) = {q}
  <2>1. cpc[q] \in Holding /\ bh[q] \in Buffers
    BY <1>0, <1>9, LabelSets DEF HandInv
  <2>2. QED
    BY <1>7, <1>9, <2>1 DEF HoldInv, VictimIsOwn
<1>10. ASSUME NEW q \in Processes \ {p}, cpc[q] \in Keeping
       PROVE  b_block[bh[q]] = want[q] /\ bh[q] \in hashed /\ bh[q] # b /\ bh[q] \in Buffers
  <2>1. cpc[q] \in Holding
    BY <1>10, LabelSets
  <2>2. QED
    BY <1>7, <1>10, <2>1 DEF HoldInv, HeldKeepsBlock, Keeping, CacheInv, ListInv
<1>11. ASSUME Beaten(want[p])
       PROVE  HoldInv'
  <2>1. cpc' = [cpc EXCEPT ![p] = "find"] /\ hashed' = hashed /\ b_count' = [b_count EXCEPT ![b] = 0]
    BY <1>11 DEF Install, Goes, InsertIntoQueues
  <2>2. cpc'[p] = "find"
    BY <1>0, <2>1 DEF HandInv
  <2>3. (\A c : c = b => Holders(c)' = {}) /\ Cardinality({}) = 0
    BY <1>2, <1>3, <1>7, <1>8, <2>2, FS_EmptySet, Zenon DEF Holders
  <2>4. b_count' \in [Buffers -> Nat]
    BY <2>1, Zenon DEF HoldInv
  <2>5. CountIsHolders'
    <3> SUFFICES ASSUME NEW c \in Buffers PROVE b_count'[c] = Cardinality(Holders(c)')
      BY <2>4 DEF CountIsHolders, HoldInv
    <3>1. CASE c = b
      BY <1>0, <2>1, <2>3, <3>1, Zenon DEF HoldInv
    <3>2. CASE c # b
      BY <1>5, <3>2, HoldersFinite DEF HoldInv, CountIsHolders
    <3>3. QED
      BY <3>1, <3>2
  <2>6. OneBufferPerBlock'
    BY <1>1, <1>6, <2>1 DEF OneBufferPerBlock, HoldInv, CacheInv, ListInv
  <2>7. HeldKeepsBlock'
    BY <1>2, <1>3, <1>6, <1>8, <1>10, <2>1, <2>2, ZenonT(30) DEF HeldKeepsBlock, Keeping
  <2>8. VictimIsOwn'
    <3> SUFFICES ASSUME NEW q \in Processes, NEW c, c = bh[q], cpc'[q] \in Taking, c # 0
                 PROVE  c \notin hashed /\ Holders(c)' = {q}
      BY <1>3, <2>1 DEF VictimIsOwn, Holders
    <3>1. q # p /\ cpc[q] \in Taking
      BY <1>2, <1>8, <2>2
    <3>2. QED
      BY <1>5, <1>9, <3>1
  <2>9. QED
    BY <1>3, <1>6, <2>4, <2>5, <2>6, <2>7, <2>8, Zenon DEF HoldInv
<1>12. ASSUME ~Beaten(want[p])
       PROVE  HoldInv'
  <2>1. /\ cpc' = [cpc EXCEPT ![p] = "got"] /\ hashed' = hashed \cup {b}
        /\ b_count' = b_count /\ b_block'[b] = want[p]
    BY <1>0, <1>12 DEF Install, Goes, InsertIntoQueues, HoldInv
  <2>2. cpc'[p] = "got"
    BY <1>0, <2>1 DEF HandInv
  <2>3. \A c : c = b => Holders(c)' = Holders(c)
    BY <1>0, <1>2, <1>3, <1>8, <2>2, Zenon DEF Holders
  <2>4. CountIsHolders'
    BY <1>5, <2>1, <2>3 DEF CountIsHolders, HoldInv
  <2>5. \A c \in hashed : b_block[c] # want[p]
    BY <1>12 DEF Beaten, Found
  <2>6. OneBufferPerBlock'
    BY <1>1, <1>6, <2>1, <2>5 DEF OneBufferPerBlock, HoldInv, CacheInv, ListInv
  <2>7. HeldKeepsBlock'
    BY <1>3, <1>6, <1>8, <1>10, <2>1, Zenon DEF HeldKeepsBlock, Keeping
  <2>8. VictimIsOwn'
    <3> SUFFICES ASSUME NEW q \in Processes, NEW c, c = bh[q], cpc'[q] \in Taking, c # 0
                 PROVE  c \notin hashed \cup {b} /\ Holders(c)' = {q}
      BY <1>3, <2>1 DEF VictimIsOwn, Holders
    <3>1. q # p /\ cpc[q] \in Taking
      BY <1>2, <1>8, <2>2
    <3>2. QED
      BY <1>5, <1>9, <3>1, Zenon
  <2>9. QED
    BY <1>3, <1>6, <2>1, <2>4, <2>6, <2>7, <2>8, Zenon DEF HoldInv
<1>13. QED
  BY <1>0, <1>1, <1>5, <1>11, <1>12, Zenon

\* The kernel's steps for a process, with what it has in its hands.
LEMMA InKernelKeepsHold ==
  ASSUME CacheInv, HoldInv, NEW p \in Processes, InKernel(p), UNCHANGED pinned
  PROVE  HoldInv'
<1>0. HandInv /\ bh = [bh EXCEPT ![p] = bh[p]] /\ want = [want EXCEPT ![p] = want[p]]
      /\ want[p] \in Blocks \cup {0} /\ (cpc[p] \in InHand => bh[p] \in Buffers)
  BY DEF CacheInv, HandInv, HoldInv
<1>1. CASE Resumes(p)
  <2>1. UNCHANGED <<pinned, b_count, b_block, hashed, cpc, want, bh>>
    BY <1>1 DEF Resumes, bufs, lists
  <2>2. cpc' = [cpc EXCEPT ![p] = cpc[p]]
    BY <1>0, <2>1, Zenon DEF HandInv
  <2>3. QED
    BY <1>0, <2>1 DEF HoldInv, CountIsHolders, Holders, OneBufferPerBlock, HeldKeepsBlock, VictimIsOwn
<1>2. CASE WaitOnBuffer(p)
  <2>1. UNCHANGED <<pinned, b_count, b_block, hashed, want, bh>> /\ cpc' = cpc
    BY <1>0, <1>2 DEF WaitOnBuffer, Waits, Sleeps, At, Leaves, bufs, lists, HandInv
  <2>2. QED
    BY <1>0, <2>1 DEF HoldInv, CountIsHolders, Holders, OneBufferPerBlock, HeldKeepsBlock, VictimIsOwn
<1>3. CASE FindBuffer(p)
  BY <1>3, FindKeepsHold
<1>4. CASE FoundCheck(p)
  <2>1. cpc[p] \in Keeping /\ bh[p] \in Buffers /\ "got" \in Keeping /\ "find" \notin Holding
    BY <1>0, <1>4 DEF FoundCheck, At, Keeping, InHand, Holding
  <2>2. UNCHANGED <<b_block, hashed, want, bh>>
    BY <1>4 DEF FoundCheck, lists
  <2>3. CASE Goes(p, "got") /\ UNCHANGED <<b_count, wq>>
    BY <1>0, <2>1, <2>2, <2>3, FullHandsGoOn, Zenon DEF Goes
  <2>4. CASE Goes(p, "find") /\ Brelse(bh[p])
    BY <1>0, <2>1, <2>2, <2>4, BrelseKeepsHold, Zenon DEF Goes
  <2>5. QED
    BY <1>4, <2>3, <2>4 DEF FoundCheck
<1>5. CASE Scan(p)
  <2>1. cpc[p] \notin Holding /\ "victim" \notin Holding
    BY <1>5 DEF Scan, At, Holding
  <2>2. QED
    BY <1>0, <1>5, <2>1, FullHandsGoOn, Zenon DEF Scan, Goes, bufs, lists
<1>6. CASE ScanOn(p)
  <2>1. cpc[p] \notin Holding /\ "find" \notin Holding /\ "scan" \notin Holding
    BY <1>6 DEF ScanOn, At, Holding
  <2>2. CASE Sleeps(p, buffer_wait, "find")
    BY <1>0, <2>1, <2>2, FullHandsGoOn, Zenon DEF Sleeps, Leaves, bufs, lists
  <2>3. CASE /\ bh' = [bh EXCEPT ![p] = next_free[bh[p]]] /\ Goes(p, "scan")
             /\ UNCHANGED <<bufs, lists, disk, latest, want, idx, wq>>
    <3>1. want' = [want EXCEPT ![p] = want[p]]
      BY <1>0, <2>3
    <3>2. QED
      BY <1>0, <2>1, <2>3, <3>1, EmptyHandsGoOn, Zenon DEF Goes, bufs, lists
  <2>4. QED
    BY <1>6, <2>2, <2>3, Zenon DEF ScanOn
<1>7. CASE TakeVictim(p)
  BY <1>7, TakeVictimKeepsHold
<1>8. CASE SyncNext(p)
  <2>1. cpc[p] \in Taking /\ {"sync", "write", "taken"} \subseteq Taking /\ "user" \notin Holding
    BY <1>8 DEF SyncNext, At, Taking, Holding
  <2>2. UNCHANGED <<b_count, b_block, hashed, want, bh>>
    BY <1>8 DEF SyncNext, lists
  <2>3. CASE bh[p] = 0 /\ Leaves(p, "user")
    BY <1>0, <2>1, <2>2, <2>3, FullHandsGoOn, Zenon DEF Leaves
  <2>4. CASE \E l \in {"sync", "write", "taken"} : Goes(p, l)
    BY <1>0, <2>1, <2>2, <2>4, FullHandsGoOn, Zenon DEF Goes
  <2>5. QED
    BY <1>8, <2>3, <2>4, Zenon DEF SyncNext
<1>9. CASE Install(p)
  BY <1>9, InstallKeepsHold
<1>10. CASE Got(p)
  <2>1. cpc[p] \in Keeping /\ {"hold", "read"} \subseteq Keeping
    BY <1>10 DEF Got, At, Keeping
  <2>2. UNCHANGED <<b_count, b_block, hashed, want, bh>>
    BY <1>10 DEF Got, lists
  <2>3. PICK l \in {"hold", "read"} : cpc' = [cpc EXCEPT ![p] = l]
    BY <1>10 DEF Got, Goes, Leaves
  <2>4. QED
    BY <1>0, <2>1, <2>2, <2>3, FullHandsGoOn, Zenon
<1>11. CASE ReadDone(p)
  <2>1. cpc[p] \in Keeping /\ bh[p] \in Buffers /\ "hold" \in Keeping /\ "user" \notin Holding
    BY <1>0, <1>11 DEF ReadDone, At, Keeping, InHand, Holding
  <2>2. UNCHANGED <<b_block, hashed, want, bh>>
    BY <1>11 DEF ReadDone, lists
  <2>3. CASE Leaves(p, "hold") /\ UNCHANGED <<b_count, wq>>
    BY <1>0, <2>1, <2>2, <2>3, FullHandsGoOn, Zenon DEF Leaves
  <2>4. CASE Leaves(p, "user") /\ Brelse(bh[p])
    BY <1>0, <2>1, <2>2, <2>4, BrelseKeepsHold, Zenon DEF Leaves
  <2>5. QED
    BY <1>11, <2>3, <2>4, Zenon DEF ReadDone
<1>12. CASE Released(p)
  <2>1. cpc[p] \in Keeping /\ bh[p] \in Buffers /\ "user" \notin Holding
    BY <1>0, <1>12 DEF Released, At, Keeping, InHand, Holding
  <2>2. UNCHANGED <<b_block, hashed, want, bh>>
    BY <1>12 DEF Released, lists
  <2>3. QED
    BY <1>0, <1>12, <2>1, <2>2, BrelseKeepsHold, ZenonT(30) DEF Released, Leaves
<1>13. QED
  BY <1>1, <1>2, <1>3, <1>4, <1>5, <1>6, <1>7, <1>8, <1>9, <1>10, <1>11, <1>12, Zenon DEF InKernel

LEMMA StepKeepsHold ==
  ASSUME CacheInv, HoldInv, [CNext]_cvars
  PROVE  HoldInv'
<1>0. HandInv /\ CacheAssumption
  BY CacheAssumption, Zenon DEF CacheInv
<1>1. ASSUME NEW p \in Processes, InKernel(p), UNCHANGED pinned
      PROVE  HoldInv'
  BY <1>1, InKernelKeepsHold
<1>2. ASSUME NEW p \in Processes, Sync(p), UNCHANGED pinned
      PROVE  HoldInv'
  <2>1. cpc[p] \notin Holding /\ want[p] \in Blocks \cup {0} /\ want' = [want EXCEPT ![p] = want[p]]
    BY <1>2 DEF Sync, At, Holding, HoldInv
  <2>2. QED
    BY <1>0, <1>2, <2>1, EmptyHandsGoOn, Zenon DEF Sync, Goes, bufs, lists
<1>3. ASSUME NEW p \in Processes, NEW k \in Blocks, Bread(p, k), UNCHANGED pinned
      PROVE  HoldInv'
  <2>1. cpc[p] \notin Holding /\ "find" \notin Holding /\ bh' = [bh EXCEPT ![p] = bh[p]]
    BY <1>0, <1>3 DEF Bread, At, Holding, HandInv
  <2>2. QED
    BY <1>0, <1>3, <2>1, EmptyHandsGoOn, Zenon DEF Bread, Goes, bufs, lists
<1>4. ASSUME NEW p \in Processes, Release(p), UNCHANGED pinned
      PROVE  HoldInv'
  <2>1. cpc[p] \in Keeping /\ "brelse" \in Keeping
    BY <1>4, Zenon DEF Release, At, Keeping
  <2>2. QED
    BY <1>0, <1>4, <2>1, FullHandsGoOn, ZenonT(30) DEF Release, Goes, bufs, lists
<1>5. ASSUME UNCHANGED <<pinned, b_count, b_block, hashed, cpc, want, bh>>
      PROVE  HoldInv'
  BY <1>5 DEF HoldInv, CountIsHolders, Holders, OneBufferPerBlock, HeldKeepsBlock, VictimIsOwn
<1>6. ASSUME NEW p \in Processes, Modify(p), UNCHANGED pinned
      PROVE  HoldInv'
  BY <1>5, <1>6, Zenon DEF Modify, lists
<1>7. ASSUME DiskWorks, UNCHANGED pinned
      PROVE  HoldInv'
  BY <1>5, <1>7 DEF DiskWorks, DiskTakes, DiskInterrupt, lists
<1>8. CASE UNCHANGED cvars
  BY <1>5, <1>8 DEF cvars, bufs, lists
<1>9. QED
  BY <1>1, <1>2, <1>3, <1>4, <1>6, <1>7, <1>8, Zenon DEF CNext

-----------------------------------------------------------------------------
\* There are more buffers than processes, so a victim is not the last one on the list.
LEMMA AnotherOneLeft ==
  ASSUME HandInv, NEW p \in Processes, cpc[p] \notin Taking, NEW b \in Buffers
  PROVE  \E c \in Ringed : c # b
<1> SUFFICES ASSUME \A c \in Ringed : c = b PROVE FALSE
  OBVIOUS
<1> DEFINE out(c) == CHOOSE q \in Processes : bh[q] = c /\ cpc[q] \in Taking
           f == [c \in Buffers \ {b} |-> out(c)]
<1>1. ASSUME NEW c \in Buffers \ {b}
      PROVE  out(c) \in Processes \ {p} /\ bh[out(c)] = c
  <2>1. \E q \in Processes : bh[q] = c /\ cpc[q] \in Taking
    BY RingedIsRest
  <2>2. out(c) \in Processes /\ bh[out(c)] = c /\ cpc[out(c)] \in Taking
    BY <2>1
  <2>3. QED
    BY <2>2
<1>2. f \in [Buffers \ {b} -> Processes \ {p}] /\ \A c \in Buffers \ {b} : bh[f[c]] = c
  BY <1>1
<1> HIDE DEF f
<1>3. IsFiniteSet(Buffers) /\ Cardinality(Buffers) = NR_BUFFERS
  BY CacheAssumption, FS_Interval DEF Buffers
<1>4. IsFiniteSet(Buffers \ {b}) /\ Cardinality(Buffers \ {b}) = NR_BUFFERS - 1
  BY <1>3, FS_RemoveElement
<1>5. IsFiniteSet(Processes \ {p}) /\ Cardinality(Processes \ {p}) = Cardinality(Processes) - 1
  BY CacheAssumption, FS_RemoveElement, Zenon
<1>6. Cardinality(Processes \ {p}) < Cardinality(Buffers \ {b})
  BY <1>4, <1>5, CacheAssumption, FS_CardinalityType, SMTT(30)
<1>7. \E x, y \in Buffers \ {b} : x # y /\ f[x] = f[y]
  BY <1>2, <1>4, <1>5, <1>6, FS_PigeonHole, Zenon
<1>8. QED
  BY <1>2, <1>7

LEMMA TakeVictimKeepsRing ==
  ASSUME CacheInv, HoldInv, FreeListIsRing, NEW p \in Processes, TakeVictim(p), UNCHANGED pinned
  PROVE  FreeListIsRing'
<1> DEFINE b == bh[p]
<1>1. b \in Buffers /\ Holders(b) = {} /\ cpc[p] = "victim" /\ HandInv /\ cpc[p] \notin Taking
  BY TakeVictimKeepsHold, Zenon DEF TakeVictim, At, CacheInv, Taking
<1>2. PICK l \in Taking : cpc' = [cpc EXCEPT ![p] = l]
  BY Zenon DEF TakeVictim, Goes, Taking
<1>3. bh' = bh
  BY Zenon DEF TakeVictim
<1>4. b \in Ringed
  BY <1>1, Zenon DEF Ringed
<1>5. PICK c \in Ringed : c # b
  BY <1>1, AnotherOneLeft, Zenon
<1>6. Ringed' = {x \in Buffers : \A q \in Processes : bh'[q] = x => cpc'[q] \notin Taking}
  BY LabelSets DEF Ringed, Holders, Taking
<1>7. Ringed' = Ringed \ {b}
  BY <1>1, <1>2, <1>3, <1>6, RingedIsRest, Zenon DEF HandInv
<1>8. /\ next_free' = [next_free EXCEPT ![prev_free[b]] = next_free[b]]
      /\ prev_free' = [prev_free EXCEPT ![next_free[b]] = prev_free[b]]
      /\ free_list' = IF free_list = b THEN next_free[b] ELSE free_list
  BY Zenon DEF TakeVictim, RemoveFromQueues, NextHead
<1>9. /\ Ringed \in SUBSET Buffers /\ IsRing(Ringed, next_free, prev_free)
      /\ next_free \in [Buffers -> Buffers] /\ prev_free \in [Buffers -> Buffers] /\ free_list \in Ringed
  BY DEF Ringed, FreeListIsRing, IsRing, CacheInv, ListInv
<1>10. IsRing(Ringed \ {b}, next_free', prev_free') /\ next_free[b] \in Ringed \ {b}
  BY <1>4, <1>5, <1>8, <1>9, RingLosesOne, ZenonT(30)
<1>11. free_list' \in Ringed \ {b}
  BY <1>8, <1>9, <1>10, Zenon
<1>12. QED
  BY <1>7, <1>10, <1>11, Zenon DEF FreeListIsRing, IsRing

LEMMA InstallKeepsRing ==
  ASSUME CacheInv, HoldInv, FreeListIsRing, NEW p \in Processes, Install(p), UNCHANGED pinned
  PROVE  FreeListIsRing'
<1> DEFINE b == bh[p]
<1>1. b \in Buffers /\ Holders(b) = {p} /\ cpc[p] = "taken" /\ HandInv /\ cpc[p] \in Taking
  BY InstallKeepsHold, Zenon DEF Install, At, CacheInv, Taking
<1>2. PICK l \in {"find", "got"} : cpc' = [cpc EXCEPT ![p] = l]
  BY Zenon DEF Install, Goes
<1>3. bh' = bh /\ l \notin Taking
  BY Zenon DEF Install, Taking
<1>4. b \notin Ringed
  BY <1>1, RingedIsRest, Zenon
<1>5. \A q \in Processes \ {p} : bh[q] = b => cpc[q] \notin Taking
  BY <1>1, LabelSets DEF Holders
<1>6. Ringed' = {x \in Buffers : \A q \in Processes : bh'[q] = x => cpc'[q] \notin Taking}
  BY LabelSets DEF Ringed, Holders, Taking
<1>7. Ringed' = Ringed \cup {b}
  BY <1>1, <1>2, <1>3, <1>5, <1>6, RingedIsRest, Zenon DEF HandInv
<1>8. /\ next_free' = [next_free EXCEPT ![b] = free_list, ![prev_free[free_list]] = b]
      /\ prev_free' = [prev_free EXCEPT ![b] = prev_free[free_list], ![free_list] = b]
      /\ free_list' = free_list
  BY Zenon DEF Install, InsertIntoQueues
<1>9. /\ Ringed \in SUBSET Buffers /\ IsRing(Ringed, next_free, prev_free)
      /\ next_free \in [Buffers -> Buffers] /\ prev_free \in [Buffers -> Buffers] /\ free_list \in Ringed
  BY SMTT(30) DEF Ringed, FreeListIsRing, IsRing, CacheInv, ListInv
<1>10. IsRing(Ringed \cup {b}, next_free', prev_free')
  BY <1>1, <1>4, <1>8, <1>9, RingGainsOne, ZenonT(30)
<1>11. free_list' \in Ringed \cup {b}
  BY <1>8, <1>9, Zenon
<1>12. QED
  BY <1>7, <1>10, <1>11 DEF FreeListIsRing, IsRing

LEMMA StepKeepsRing ==
  ASSUME CacheInv, HoldInv, FreeListIsRing, [CNext]_cvars
  PROVE  FreeListIsRing'
<1>0. HandInv
  BY DEF CacheInv
<1>1. ASSUME UNCHANGED <<next_free, prev_free, free_list>>, NEW p \in Processes, NEW l, NEW b,
             cpc' = [cpc EXCEPT ![p] = l], bh' = [bh EXCEPT ![p] = b],
             cpc[p] \notin Taking, l \notin Taking \/ b = 0
      PROVE  FreeListIsRing'
  BY <1>0, <1>1, OthersKeepRing, Zenon DEF HandInv
<1>2. ASSUME UNCHANGED <<next_free, prev_free, free_list>>, NEW p \in Processes, NEW l,
             cpc' = [cpc EXCEPT ![p] = l], bh' = bh,
             bh[p] = 0 \/ (cpc[p] \in Taking <=> l \in Taking)
      PROVE  FreeListIsRing'
  BY <1>0, <1>2, OthersKeepRing, Zenon DEF HandInv
<1>3. ASSUME UNCHANGED <<next_free, prev_free, free_list, cpc, bh>>
      PROVE  FreeListIsRing'
  BY <1>0, <1>3, OthersKeepRing, Zenon
<1>4. ASSUME NEW p \in Processes, FindBuffer(p)
      PROVE  FreeListIsRing'
  <2>1. cpc[p] \notin Taking /\ {"found", "scan"} \cap Taking = {} /\ UNCHANGED <<next_free, prev_free, free_list>>
    <3>1. cpc[p] = "find" /\ UNCHANGED lists
      BY <1>4, Zenon DEF FindBuffer, At
    <3>2. QED
      BY <3>1, Zenon DEF Taking, lists
  <2>2. QED
    BY <1>1, <1>4, <2>1, Zenon DEF FindBuffer, Goes
<1>5. ASSUME NEW p \in Processes, ScanOn(p)
      PROVE  FreeListIsRing'
  <2>1. cpc[p] \notin Taking /\ {"find", "scan"} \cap Taking = {} /\ UNCHANGED <<next_free, prev_free, free_list>>
    <3>1. cpc[p] \in {"scan", "victim"} /\ UNCHANGED lists
      BY <1>5, Zenon DEF ScanOn, At, Sleeps
    <3>2. QED
      BY <3>1, Zenon DEF Taking, lists
  <2>2. QED
    BY <1>1, <1>2, <1>5, <2>1, Zenon DEF ScanOn, Sleeps, Leaves, Goes
<1>6. ASSUME NEW p \in Processes, SyncNext(p)
      PROVE  FreeListIsRing'
  <2>1. cpc[p] \in Taking /\ {"sync", "write", "taken"} \subseteq Taking /\ UNCHANGED <<next_free, prev_free, free_list, bh>>
    BY <1>6, Zenon DEF SyncNext, At, Taking, lists
  <2>2. QED
    BY <1>2, <1>6, <2>1, Zenon DEF SyncNext, Leaves, Goes
<1>7. ASSUME NEW p \in Processes,
             FoundCheck(p) \/ Scan(p) \/ Got(p) \/ ReadDone(p) \/ Released(p) \/ Release(p)
      PROVE  FreeListIsRing'
  <2>1. cpc[p] \notin Taking /\ UNCHANGED <<next_free, prev_free, free_list, bh>>
    BY <1>7 DEF FoundCheck, Scan, Got, ReadDone, Released, Release, At, Taking, lists
  <2>2. PICK l \in {"got", "find", "victim", "hold", "read", "user", "brelse"} : cpc' = [cpc EXCEPT ![p] = l]
    BY <1>7, Zenon DEF FoundCheck, Scan, Got, ReadDone, Released, Release, Goes, Leaves
  <2>3. l \notin Taking
    BY <2>2 DEF Taking
  <2>4. QED
    BY <1>2, <2>1, <2>2, <2>3, ZenonT(30)
<1>8. ASSUME NEW p \in Processes, Resumes(p) \/ WaitOnBuffer(p) \/ Modify(p)
      PROVE  FreeListIsRing'
  <2>1. UNCHANGED <<next_free, prev_free, free_list, cpc, bh>>
    BY <1>0, <1>8, WaitingStays, Zenon DEF Resumes, Modify, lists
  <2>2. QED
    BY <1>3, <2>1, Zenon
<1>9. ASSUME NEW p \in Processes, Sync(p)
      PROVE  FreeListIsRing'
  <2>1. cpc[p] \notin Taking
    BY <1>9 DEF Sync, At, Taking
  <2>2. QED
    BY <1>1, <1>9, <2>1, Zenon DEF Sync, Goes, lists
<1>10. ASSUME NEW p \in Processes, NEW k \in Blocks, Bread(p, k)
       PROVE  FreeListIsRing'
  <2>1. cpc[p] \notin Taking /\ "find" \notin Taking
    BY <1>10 DEF Bread, At, Taking
  <2>2. QED
    BY <1>2, <1>10, <2>1, Zenon DEF Bread, Goes, lists
<1>11. ASSUME DiskWorks
       PROVE  FreeListIsRing'
  BY <1>3, <1>11 DEF DiskWorks, DiskTakes, DiskInterrupt, lists
<1>12. CASE UNCHANGED cvars
  BY <1>3, <1>12, Zenon DEF cvars, lists
<1>13. QED
  BY <1>4, <1>5, <1>6, <1>7, <1>8, <1>9, <1>10, <1>11, <1>12, TakeVictimKeepsRing, InstallKeepsRing, Zenon
     DEF CNext, InKernel

\* buffer_init links the buffers in the order of their addresses, and the last one
\* to the first.
LEMMA InitialRing ==
  ASSUME CInit([b \in Buffers |-> 0], {})
  PROVE  FreeListIsRing
<1>1. /\ NR_BUFFERS \in Nat \ {0} /\ Buffers = 1 .. NR_BUFFERS /\ free_list = 1
      /\ next_free = [b \in Buffers |-> IF b = NR_BUFFERS THEN 1 ELSE b + 1]
      /\ prev_free = [b \in Buffers |-> IF b = 1 THEN NR_BUFFERS ELSE b - 1]
  BY CacheAssumption DEF CInit, Buffers
<1>2. Ringed = Buffers
  BY RingedIsRest DEF CInit, Taking
<1>3. \A b \in Buffers : next_free[b] \in Buffers /\ prev_free[next_free[b]] = b
  BY <1>1
<1>4. \A b \in Buffers : prev_free[b] \in Buffers /\ next_free[prev_free[b]] = b
  BY <1>1
<1>5. ASSUME NEW S \in SUBSET Buffers, S # {}, \A b \in S : next_free[b] \in S
      PROVE  S = Buffers
  <2>1. ASSUME NEW s \in S, NEW t \in s .. NR_BUFFERS
        PROVE  t \in S
    <3> DEFINE Missing == {x \in s .. NR_BUFFERS : x \notin S}
    <3> SUFFICES ASSUME Missing # {} PROVE FALSE
      OBVIOUS
    <3>1. s \in Nat \ {0}
      BY <1>1
    <3>2. Missing \subseteq Nat
      BY <1>1, <3>1
    <3>3. PICK x \in Missing : \A y \in Missing : x <= y
      BY <3>2, LeastNatural, Zenon
    <3>4. x - 1 \in s .. NR_BUFFERS /\ x - 1 # NR_BUFFERS /\ x \in Int
      BY <1>1, <3>1, <3>3
    <3>5. x - 1 \in S
      BY <3>3, <3>4
    <3>6. next_free[x - 1] = x
      BY <1>1, <3>1, <3>4
    <3>7. QED
      BY <1>5, <3>3, <3>5, <3>6, Zenon
  <2>2. PICK s \in S : TRUE
    BY <1>5
  <2>3. NR_BUFFERS \in S
    BY <1>1, <2>1, <2>2
  <2>4. next_free[NR_BUFFERS] = 1
    BY <1>1
  <2>5. 1 \in S
    BY <1>5, <2>3, <2>4
  <2>6. QED
    BY <1>1, <2>1, <2>5, Zenon
<1>6. free_list \in Buffers
  BY <1>1
<1>7. QED
  BY <1>2, <1>3, <1>4, <1>5, <1>6, Zenon DEF FreeListIsRing

-----------------------------------------------------------------------------
LEMMA CountedIsHeld ==
  ASSUME HoldInv
  PROVE  CountsAreHeld
BY FS_EmptySet DEF HoldInv, CountIsHolders, CountsAreHeld

LEMMA BuffersInit ==
  ASSUME CInit([b \in Buffers |-> 0], {})
  PROVE  HoldInv /\ FreeListIsRing /\ TransferInv /\ ReasonInv
<1>1. \A b : Holders(b) = {}
  BY DEF CInit, Holders, Holding
<1>2. HoldInv
  <2>1. CountIsHolders
    <3>1. ASSUME NEW b \in Buffers PROVE b_count[b] = 0 /\ b \notin pinned /\ Cardinality(Holders(b)) = 0
      BY <1>1, FS_EmptySet, Zenon DEF CInit
    <3>2. QED
      BY <3>1 DEF CountIsHolders
  <2>2. OneBufferPerBlock /\ HeldKeepsBlock /\ VictimIsOwn
    BY DEF CInit, OneBufferPerBlock, HeldKeepsBlock, VictimIsOwn, Taking
  <2>3. QED
    BY <2>1, <2>2 DEF CInit, HoldInv
<1>3. TransferInv
  <2>1. 0 \in Versions /\ 1 \in 1 .. NR_BUFFERS + 1 /\ <<>> \in Seq(Request)
    BY CacheAssumption DEF Versions
  <2>2. QED
    BY <2>1 DEF CInit, TransferInv, ForBlock
<1>4. ReasonInv
  <2>1. /\ wq.asleep = {} /\ wq.inside = {} /\ \A q \in Queues : wq.head[q] = NoTask
        /\ \A t \in Processes : wq.tmp[t] = NoTask
    BY DEF CInit, NoSleepers, Queues
  <2>2. buffer_wait \in Queues /\ Buffers \subseteq Queues
    BY DEF Queues
  <2>3. QED
    BY <2>1, <2>2, Zenon DEF ReasonInv, OnePointer
<1>5. QED
  BY <1>2, <1>3, <1>4, InitialRing, Zenon

\* A buffer has at most as many holders as there are processes.
LEMMA BuffersInvSuffices ==
  ASSUME BuffersInv
  PROVE  BuffersSound
<1>1. CTypeOK
  <2>1. ASSUME NEW b \in Buffers PROVE b_count[b] \in 0 .. Cardinality(Processes) + 1
    <3>1. Holders(b) \in SUBSET Processes
      BY DEF Holders
    <3>2. Cardinality(Holders(b)) <= Cardinality(Processes) /\ Cardinality(Processes) \in Nat
      BY <3>1, FS_Subset, FS_CardinalityType, CacheAssumption, Zenon
    <3>3. Cardinality(Holders(b)) \in Nat
      BY HoldersFinite
    <3>4. b_count[b] = Cardinality(Holders(b))
      BY <3>3 DEF BuffersInv, HoldInv, CountIsHolders
    <3>5. QED
      BY <3>2, <3>3, <3>4
  <2>2. b_count \in [Buffers -> 0 .. Cardinality(Processes) + 1]
    BY <2>1 DEF BuffersInv, HoldInv
  <2>3. \A i \in DOMAIN requests : requests[i].bh \in Buffers /\ requests[i].sent \in 0 .. MaxVersion
    BY RequestsInOrder DEF BuffersInv, Request, Versions
  <2>4. QED
    BY <2>2, <2>3, Zenon DEF CTypeOK, BuffersInv, HoldInv, CacheInv, ListInv, HandInv, TransferInv
<1>2. SleepersHaveReason
  BY ReasonSuffices DEF BuffersInv
<1>3. QED
  BY <1>1, <1>2, Zenon DEF BuffersSound, BuffersInv, HoldInv

\* getblk, bread, brelse, sync and the disk's interrupts, in any interleaving: counts
\* are those of the holders, who keep their buffers, no block has two buffers, the
\* free list is one ring, and nobody sleeps for what is there.
THEOREM BuffersStaySound == CSpec => []BuffersSound
<1>1. CInit([b \in Buffers |-> 0], {}) => BuffersInv
  BY BuffersInit, CacheInit DEF BuffersInv
<1>2. BuffersInv /\ [CNext]_cvars => BuffersInv'
  BY CacheStep, StepKeepsHold, StepKeepsRing, StepKeepsTransfer, CountedIsHeld, StepKeepsReason, Zenon DEF BuffersInv
<1>3. BuffersInv => BuffersSound
  BY BuffersInvSuffices
<1>4. QED
  BY <1>1, <1>2, <1>3, PTL DEF CSpec

\* getblk: a buffer gets another block only when it is clean.
THEOREM NoDirtyVictim == CSpec => NoDirtyReuse
<1> DEFINE Step == \A b \in Buffers : b_block[b] # 0 /\ b_block'[b] # b_block[b] => ~b_dirt[b] \/ ~b_uptodate[b]
<1>1. CInit([b \in Buffers |-> 0], {}) => BuffersInv /\ DirtInv
  <2> SUFFICES ASSUME CInit([b \in Buffers |-> 0], {}) PROVE BuffersInv /\ DirtInv
    OBVIOUS
  <2>1. BuffersInv
    BY BuffersInit, CacheInit DEF BuffersInv
  <2>2. DirtInv
    BY DEF CInit, DirtInv, Passed
  <2>3. QED
    BY <2>1, <2>2
<1>2. BuffersInv /\ DirtInv /\ [CNext]_cvars => BuffersInv' /\ DirtInv'
  BY Zenon, CacheStep, StepKeepsHold, StepKeepsRing, StepKeepsTransfer, CountedIsHeld,
     StepKeepsReason, StepKeepsDirt DEF BuffersInv
<1>3. BuffersInv /\ DirtInv /\ [CNext]_cvars => [Step]_cvars
  <2> SUFFICES ASSUME BuffersInv, DirtInv, [CNext]_cvars, NEW b \in Buffers,
                      b_block[b] # 0, b_block'[b] # b_block[b]
               PROVE  ~b_dirt[b] \/ ~b_uptodate[b]
    BY Zenon
  <2>0. HandInv /\ HoldInv /\ 0 \notin Buffers
    BY CacheAssumption DEF BuffersInv, CacheInv, Buffers
  <2>1. ASSUME NEW p \in Processes, Install(p) PROVE ~b_dirt[b] \/ ~b_uptodate[b]
    <3>1. b = bh[p] /\ cpc[p] = "taken"
      BY <2>0, <2>1, Zenon DEF Install, At, HoldInv
    <3>2. Clean(b)
      BY <2>0, <3>1, Zenon DEF DirtInv, Passed
    <3>3. QED
      BY <3>2, Zenon DEF Clean
  <2>2. ASSUME NEW p \in Processes, InKernel(p) \/ Sync(p) \/ Modify(p) \/ Release(p) \/ \E k \in Blocks : Bread(p, k)
        PROVE  b_block' = b_block \/ Install(p)
    <3>1. CASE Resumes(p) \/ WaitOnBuffer(p) \/ Sync(p) \/ Modify(p) \/ Release(p) \/ \E k \in Blocks : Bread(p, k)
      BY <3>1, ZenonT(30) DEF Resumes, WaitOnBuffer, Waits, Sleeps, Sync, Modify, Release, Bread, bufs
    <3>2. CASE FindBuffer(p) \/ FoundCheck(p) \/ Scan(p) \/ ScanOn(p)
      BY <3>2, ZenonT(30) DEF FindBuffer, FoundCheck, Scan, ScanOn, Sleeps, bufs
    <3>3. CASE TakeVictim(p) \/ SyncNext(p) \/ Got(p) \/ ReadDone(p) \/ Released(p)
      BY <3>3 DEF TakeVictim, SyncNext, Got, ReadDone, Released
    <3>4. QED
      BY <2>2, <3>1, <3>2, <3>3, Zenon DEF InKernel
  <2>3. ASSUME DiskWorks PROVE b_block' = b_block
    BY <2>3, SMTT(30) DEF DiskWorks, DiskTakes, DiskInterrupt
  <2>4. CASE UNCHANGED cvars
    BY <2>4, Zenon DEF cvars, bufs
  <2>5. QED
    BY <2>1, <2>2, <2>3, <2>4, Zenon DEF CNext
<1>4. QED
  BY <1>1, <1>2, <1>3, PTL DEF CSpec, NoDirtyReuse, Step

=============================================================================
