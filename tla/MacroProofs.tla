----------------------------- MODULE MacroProofs -----------------------------
(***************************************************************************)
(* The macros of sys/queue.h: what each assigns is what it takes to insert *)
(* a cell, to remove it, to swap two lists or to join them, so every step  *)
(* keeps Linked, and Linked says that the lists are sequences.             *)
(***************************************************************************)
EXTENDS QueuesProofs, FiniteSetTheorems

\* Any nonempty set of naturals has a least element.
LEMMA LeastNatural ==
  ASSUME NEW S, S \subseteq Nat, S # {}
  PROVE  \E n \in S : \A m \in S : n <= m
<1>1. PICK n \in S : \A m \in S : <<m, n>> \notin OpToRel(<, Nat)
  BY NatLessThanWellFounded, WFMin, Zenon
<1>2. OpToRel(<, Nat) = {ss \in Nat \X Nat : ss[1] < ss[2]}
  BY DEF OpToRel
<1>3. \A m \in S : ~(m < n)
  BY <1>1, <1>2, Zenon
<1>4. QED
  BY <1>3

-----------------------------------------------------------------------------
\* x is v with the first, or the second, field of place p set to q.
IsNext1(v, x, p, q) ==
  /\ x \in Lists /\ x.kind = v.kind /\ x.second = v.second
  /\ \A r \in Places : x.next[r] = IF r = p THEN q ELSE v.next[r]

IsSecond(v, x, p, q) ==
  /\ x \in Lists /\ x.kind = v.kind /\ x.next = v.next
  /\ \A r \in Places : x.second[r] = IF r = p THEN q ELSE v.second[r]

LEMMA FieldSet ==
  ASSUME NEW v \in Lists, NEW p \in Places, NEW q \in Places \cup {NULL}
  PROVE  IsNext1(v, Next1(v, p, q), p, q) /\ IsSecond(v, Second(v, p, q), p, q)
BY Zenon DEF IsNext1, IsSecond, Next1, Second, Lists, Pointers

\* What place i of a list and the pointers there are.
LEMMA PlaceFacts ==
  ASSUME NEW v, Linked(v), NEW h \in Heads, NEW i \in 0 .. Len(v.list[h])
  PROVE  /\ v \in Lists /\ h \in Places /\ NULL \notin Places
         /\ Node(h, v.list[h], i) \in Places
         /\ Node(h, v.list[h], i + 1) \in Elements \cup {NULL}
         /\ Node(h, v.list[h], i + 1) \in Places \cup {NULL}
         /\ v.next[Node(h, v.list[h], i)] = Node(h, v.list[h], i + 1)
         /\ Node(h, v.list[h], i + 1) = NULL <=> i = Len(v.list[h])
         /\ v.kind \in Kinds
         /\ \A f \in Heads : f \notin Elements /\ f \in Places
         /\ \A e \in Elements : e \notin Heads /\ e \in Places
         /\ \A q \in Places : v.next[q] \in Places \cup {NULL} /\ v.second[q] \in Places \cup {NULL}
<1>1. v \in Lists /\ v.list[h] \in Seq(Elements)
  BY DEF Linked, Lists
<1>2. Len(v.list[h]) \in Nat /\ (i # Len(v.list[h]) => i + 1 \in 1 .. Len(v.list[h]))
  BY <1>1
<1>3. \A j \in 1 .. Len(v.list[h]) : v.list[h][j] \in Elements
  BY <1>1
<1>4. v.next[Node(h, v.list[h], i)] = Node(h, v.list[h], i + 1)
  BY DEF Linked, Chained
<1>5. /\ Node(h, v.list[h], i) \in Places
      /\ Node(h, v.list[h], i + 1) \in Elements \cup {NULL}
      /\ Node(h, v.list[h], i + 1) = IF i = Len(v.list[h]) THEN NULL ELSE v.list[h][i + 1]
  BY <1>1, NodeIsPlace
<1>6. Node(h, v.list[h], i + 1) = NULL <=> i = Len(v.list[h])
  BY <1>2, <1>3, <1>5, PlacesDiffer
<1>7. \A q \in Places : v.next[q] \in Places \cup {NULL} /\ v.second[q] \in Places \cup {NULL}
  BY <1>1 DEF Lists, Pointers
<1>8. v.kind \in Kinds
  BY <1>1 DEF Lists
<1> QED
  BY <1>1, <1>4, <1>5, <1>6, <1>7, <1>8, QueuesAssumption DEF Places

\* The four INSERT_AFTER macros, and with p = h the four INSERT_HEAD macros.
LEMMA AfterPutsIn ==
  ASSUME NEW v, Linked(v), NEW h \in Heads, NEW i \in 0 .. Len(v.list[h]), NEW e, InNoList(v, e),
         NEW p, p = Node(h, v.list[h], i)
  PROVE  /\ v.kind = "SLIST" => PutIn(v, SLIST_INSERT_AFTER(v, p, e), h, i, e)
         /\ v.kind = "STAILQ" => PutIn(v, STAILQ_INSERT_AFTER(v, h, p, e), h, i, e)
         /\ v.kind = "LIST" => PutIn(v, LIST_INSERT_AFTER(v, p, e), h, i, e)
         /\ v.kind = "TAILQ" => PutIn(v, TAILQ_INSERT_AFTER(v, h, p, e), h, i, e)
<1> DEFINE q == Node(h, v.list[h], i + 1)
           n == Len(v.list[h])
           x1 == Next1(v, e, q)
<1>1. /\ v \in Lists /\ p \in Places /\ h \in Places /\ e \in Elements /\ e \in Places
      /\ q \in Elements \cup {NULL} /\ q \in Places \cup {NULL} /\ v.next[p] = q
      /\ (q = NULL <=> i = n)
      /\ NULL \notin Places
      /\ \A f \in Heads : f \notin Elements /\ f \in Places
      /\ \A f \in Elements : f \notin Heads /\ f \in Places
  BY PlaceFacts DEF InNoList
<1> HIDE DEF q, n
<1>t. /\ v \in Lists /\ e \in Places /\ q \in Places \cup {NULL} /\ p \in Places /\ h \in Places
      /\ e \in Places \cup {NULL} /\ p \in Places \cup {NULL}
  BY <1>1
<1>2. IsNext1(v, x1, e, q)
  BY <1>t, FieldSet, Zenon
<1>3. x1.next[e] = q /\ x1 \in Lists /\ x1.kind = v.kind
  BY <1>t, <1>2 DEF IsNext1
<1> DEFINE N(x) == \A r \in Places : x.next[r] = IF r = p THEN e ELSE IF r = e THEN q ELSE v.next[r]
           D(x) == \A r \in Elements : x.second[r] = IF r = e THEN p ELSE IF r = q THEN e ELSE v.second[r]
           T(x) == \A r \in Heads : x.second[r] = IF r = h /\ i = n THEN e ELSE v.second[r]
<1>q. ASSUME NEW x \in Lists, x.kind = v.kind, N(x), v.kind \in Doubly => D(x), v.kind \in Tailed => T(x)
      PROVE  PutIn(v, x, h, i, e)
  BY <1>q DEF PutIn, q, n
<1> HIDE DEF x1
<1>4. ASSUME v.kind = "SLIST" PROVE PutIn(v, SLIST_INSERT_AFTER(v, p, e), h, i, e)
  <2> DEFINE x2 == Next1(x1, p, e)
  <2>1. IsNext1(x1, x2, p, e)
    BY <1>t, <1>3, FieldSet, Zenon
  <2>2. SLIST_INSERT_AFTER(v, p, e) = x2
    BY <1>1 DEF SLIST_INSERT_AFTER, x1
  <2> HIDE DEF x2
  <2>3. x2 \in Lists /\ x2.kind = v.kind /\ N(x2)
    BY <1>2, <2>1 DEF IsNext1
  <2>4. v.kind \notin Doubly /\ v.kind \notin Tailed
    BY <1>4 DEF Doubly, Tailed
  <2> HIDE DEF N, D, T
  <2> QED
    BY <1>q, <2>2, <2>3, <2>4
<1>5. ASSUME v.kind = "STAILQ" PROVE PutIn(v, STAILQ_INSERT_AFTER(v, h, p, e), h, i, e)
  <2> DEFINE x2 == LastIs(x1, h, e)
             x3 == Next1(x2, p, e)
  <2>1. IF q = NULL THEN IsSecond(x1, x2, h, e) ELSE x2 = x1
    BY <1>t, <1>3, FieldSet, Zenon DEF LastIs
  <2>2. STAILQ_INSERT_AFTER(v, h, p, e) = x3
    BY <1>1 DEF STAILQ_INSERT_AFTER, x1
  <2> HIDE DEF x2
  <2>3. /\ x2 \in Lists /\ x2.kind = v.kind /\ x2.next = x1.next
        /\ \A r \in Places : x2.second[r] = IF r = h /\ i = n THEN e ELSE v.second[r]
    BY <1>1, <1>2, <2>1 DEF IsNext1, IsSecond
  <2>4. IsNext1(x2, x3, p, e)
    BY <1>t, <2>3, FieldSet, Zenon
  <2> HIDE DEF x3
  <2>5. x3 \in Lists /\ x3.kind = v.kind /\ N(x3) /\ T(x3)
    BY <1>1, <1>2, <2>3, <2>4, ZenonT(30) DEF IsNext1
  <2>6. v.kind \notin Doubly
    BY <1>5 DEF Doubly
  <2> HIDE DEF N, D, T
  <2> QED
    BY <1>q, <2>2, <2>5, <2>6
<1>6. ASSUME v.kind = "LIST" PROVE PutIn(v, LIST_INSERT_AFTER(v, p, e), h, i, e)
  <2> DEFINE x2 == BackTo(x1, q, e)
             x3 == Next1(x2, p, e)
             x4 == Second(x3, e, p)
  <2>1. IF q = NULL THEN x2 = x1 ELSE IsSecond(x1, x2, q, e)
    BY <1>t, <1>3, FieldSet, Zenon DEF BackTo
  <2>2. LIST_INSERT_AFTER(v, p, e) = x4
    BY <1>1 DEF LIST_INSERT_AFTER, x1
  <2> HIDE DEF x2
  <2>3. /\ x2 \in Lists /\ x2.kind = v.kind /\ x2.next = x1.next
        /\ \A r \in Places : x2.second[r] = IF r = q THEN e ELSE v.second[r]
    BY <1>1, <1>2, <2>1 DEF IsNext1, IsSecond
  <2>4. IsNext1(x2, x3, p, e)
    BY <1>t, <2>3, FieldSet, Zenon
  <2> HIDE DEF x3
  <2>5. x3 \in Lists /\ x3.kind = v.kind /\ N(x3) /\ x3.second = x2.second
    BY <1>2, <2>3, <2>4 DEF IsNext1
  <2>6. IsSecond(x3, x4, e, p)
    BY <1>t, <2>5, FieldSet, Zenon
  <2> HIDE DEF x4
  <2>7. x4 \in Lists /\ x4.kind = v.kind /\ N(x4) /\ D(x4)
    BY <1>1, <2>3, <2>5, <2>6 DEF IsSecond
  <2>8. v.kind \notin Tailed
    BY <1>6 DEF Tailed
  <2> HIDE DEF N, D, T
  <2> QED
    BY <1>q, <2>2, <2>7, <2>8
<1>7. ASSUME v.kind = "TAILQ" PROVE PutIn(v, TAILQ_INSERT_AFTER(v, h, p, e), h, i, e)
  <2> DEFINE x2 == BackOrLast(x1, h, q, e)
             x3 == Next1(x2, p, e)
             x4 == Second(x3, e, p)
  <2>1. IF q = NULL THEN IsSecond(x1, x2, h, e) ELSE IsSecond(x1, x2, q, e)
    BY <1>t, <1>3, FieldSet, Zenon DEF BackOrLast
  <2>2. TAILQ_INSERT_AFTER(v, h, p, e) = x4
    BY <1>1 DEF TAILQ_INSERT_AFTER, x1
  <2> HIDE DEF x2
  <2>3. /\ x2 \in Lists /\ x2.kind = v.kind /\ x2.next = x1.next
        /\ \A r \in Places : x2.second[r] = IF r = q \/ (r = h /\ i = n) THEN e ELSE v.second[r]
    BY <1>1, <1>2, <2>1 DEF IsNext1, IsSecond
  <2>4. IsNext1(x2, x3, p, e)
    BY <1>t, <2>3, FieldSet, Zenon
  <2> HIDE DEF x3
  <2>5. x3 \in Lists /\ x3.kind = v.kind /\ N(x3) /\ x3.second = x2.second
    BY <1>2, <2>3, <2>4, Zenon DEF IsNext1
  <2>6. IsSecond(x3, x4, e, p)
    BY <1>t, <2>5, FieldSet, Zenon
  <2> HIDE DEF x4
  <2>7. x4 \in Lists /\ x4.kind = v.kind /\ N(x4) /\ D(x4) /\ T(x4)
    BY <1>1, <2>3, <2>5, <2>6 DEF IsSecond
  <2> HIDE DEF N, D, T
  <2> QED
    BY <1>q, <2>2, <2>7
<1> QED
  BY <1>4, <1>5, <1>6, <1>7

\* The two INSERT_TAIL macros: behind the last cell.
LEMMA TailPutsIn ==
  ASSUME NEW v, Linked(v), NEW h \in Heads, NEW e, InNoList(v, e), v.kind \in Tailed
  PROVE  PutIn(v, IF v.kind = "STAILQ" THEN STAILQ_INSERT_TAIL(v, h, e) ELSE TAILQ_INSERT_TAIL(v, h, e),
               h, Len(v.list[h]), e)
<1> DEFINE i == Len(v.list[h])
           p == Node(h, v.list[h], i)
           x1 == Next1(v, e, NULL)
<1>0. i \in 0 .. Len(v.list[h])
  BY DEF Linked, Lists
<1>1. /\ v \in Lists /\ p \in Places /\ h \in Places /\ e \in Elements /\ e \in Places
      /\ Node(h, v.list[h], i + 1) = NULL /\ v.next[p] = NULL
      /\ NULL \notin Places
      /\ \A f \in Heads : f \notin Elements /\ f \in Places
      /\ \A f \in Elements : f \notin Heads /\ f \in Places
  BY <1>0, PlaceFacts DEF InNoList
<1>p. v.second[h] = p
  BY DEF Linked, EndKnown
<1> DEFINE N(x) == \A r \in Places : x.next[r] = IF r = p THEN e ELSE IF r = e THEN NULL ELSE v.next[r]
           D(x) == \A r \in Elements : x.second[r] = IF r = e THEN p ELSE v.second[r]
           T(x) == \A r \in Heads : x.second[r] = IF r = h THEN e ELSE v.second[r]
<1>q. ASSUME NEW x \in Lists, x.kind = v.kind, N(x), v.kind \in Doubly => D(x), v.kind \in Tailed => T(x)
      PROVE  PutIn(v, x, h, i, e)
  BY <1>1, <1>q DEF PutIn
<1>t. /\ v \in Lists /\ e \in Places /\ p \in Places /\ h \in Places
      /\ NULL \in Places \cup {NULL} /\ e \in Places \cup {NULL} /\ p \in Places \cup {NULL}
  BY <1>1
<1> HIDE DEF i, p
<1>2. IsNext1(v, x1, e, NULL)
  BY <1>t, FieldSet, Zenon
<1>3. x1 \in Lists /\ x1.kind = v.kind
  BY <1>2 DEF IsNext1
<1>4. CASE v.kind = "STAILQ"
  <2> DEFINE x2 == Next1(x1, p, e)
             x3 == Second(x2, h, e)
  <2>1. STAILQ_INSERT_TAIL(v, h, e) = x3
    BY <1>p DEF STAILQ_INSERT_TAIL
  <2> HIDE DEF x1
  <2>2. IsNext1(x1, x2, p, e)
    BY <1>t, <1>3, FieldSet, Zenon
  <2>3. x2 \in Lists
    BY <2>2 DEF IsNext1
  <2> HIDE DEF x2
  <2>4. IsSecond(x2, x3, h, e)
    BY <1>t, <2>3, FieldSet, Zenon
  <2> HIDE DEF x3
  <2>5. x3 \in Lists /\ x3.kind = v.kind /\ N(x3) /\ T(x3)
    BY <1>1, <1>2, <2>2, <2>4 DEF IsNext1, IsSecond
  <2>6. v.kind \notin Doubly
    BY <1>4 DEF Doubly
  <2> HIDE DEF N, D, T
  <2>7. PutIn(v, STAILQ_INSERT_TAIL(v, h, e), h, i, e)
    BY <1>q, <2>1, <2>5, <2>6, Zenon
  <2> QED
    BY <1>4, <2>7 DEF i
<1>5. CASE v.kind = "TAILQ"
  <2> DEFINE x2 == Second(x1, e, p)
             x3 == Next1(x2, p, e)
             x4 == Second(x3, h, e)
  <2>1. TAILQ_INSERT_TAIL(v, h, e) = x4
    BY <1>p DEF TAILQ_INSERT_TAIL
  <2> HIDE DEF x1
  <2>2. IsSecond(x1, x2, e, p)
    BY <1>t, <1>3, FieldSet, Zenon
  <2>3. x2 \in Lists
    BY <2>2 DEF IsSecond
  <2> HIDE DEF x2
  <2>4. IsNext1(x2, x3, p, e)
    BY <1>t, <2>3, FieldSet, Zenon
  <2>5. x3 \in Lists
    BY <2>4 DEF IsNext1
  <2> HIDE DEF x3
  <2>6. IsSecond(x3, x4, h, e)
    BY <1>t, <2>5, FieldSet, Zenon
  <2> HIDE DEF x4
  <2>7. x4 \in Lists /\ x4.kind = v.kind /\ N(x4)
    BY <1>2, <2>2, <2>4, <2>6, ZenonT(30) DEF IsNext1, IsSecond
  <2>8. D(x4) /\ T(x4)
    BY <1>1, <1>2, <2>2, <2>4, <2>6 DEF IsNext1, IsSecond
  <2> HIDE DEF N, D, T
  <2>9. PutIn(v, TAILQ_INSERT_TAIL(v, h, e), h, i, e)
    BY <1>q, <2>1, <2>7, <2>8, Zenon
  <2> QED
    BY <1>5, <2>9 DEF i
<1> QED
  BY <1>4, <1>5 DEF Tailed

\* The two INSERT_BEFORE macros: in front of cell i, which is behind place i - 1.
LEMMA BeforePutsIn ==
  ASSUME NEW v, Linked(v), NEW h \in Heads, NEW i \in 1 .. Len(v.list[h]), NEW e, InNoList(v, e),
         v.kind \in Doubly
  PROVE  PutIn(v, IF v.kind = "LIST" THEN LIST_INSERT_BEFORE(v, v.list[h][i], e)
                  ELSE TAILQ_INSERT_BEFORE(v, v.list[h][i], e), h, i - 1, e)
<1> DEFINE p == Node(h, v.list[h], i - 1)
           q == v.list[h][i]
           x1 == Second(v, e, p)
           x2 == Next1(x1, e, q)
           x3 == Next1(x2, p, e)
           x4 == Second(x3, q, e)
<1>0. /\ v \in Lists /\ v.list[h] \in Seq(Elements) /\ Len(v.list[h]) \in Nat
      /\ i \in Int /\ i - 1 \in 0 .. Len(v.list[h]) /\ i - 1 # Len(v.list[h]) /\ i - 1 + 1 = i
      /\ ~ (i > Len(v.list[h])) /\ i # 0 /\ q \in Elements
  BY DEF Linked, Lists
<1>1. /\ p \in Places /\ e \in Elements /\ e \in Places /\ q \in Elements /\ q \in Places /\ q # e
      /\ \A f \in Heads : f \notin Elements /\ f \in Places
      /\ \A f \in Elements : f \notin Heads /\ f \in Places
  BY <1>0, PlaceFacts DEF InNoList
<1>p. v.second[q] = p
  BY DEF Linked, ChainedBack
<1>n. Node(h, v.list[h], i) = q
  BY <1>0 DEF Node
<1> DEFINE N(x) == \A r \in Places : x.next[r] = IF r = p THEN e ELSE IF r = e THEN q ELSE v.next[r]
           D(x) == \A r \in Elements : x.second[r] = IF r = e THEN p ELSE IF r = q THEN e ELSE v.second[r]
           T(x) == \A r \in Heads : x.second[r] = v.second[r]
<1>q. ASSUME NEW x \in Lists, x.kind = v.kind, N(x), D(x), T(x)
      PROVE  PutIn(v, x, h, i - 1, e)
  BY <1>0, <1>n, <1>q, Zenon DEF PutIn
<1>t. /\ v \in Lists /\ e \in Places /\ p \in Places /\ q \in Places
      /\ e \in Places \cup {NULL} /\ p \in Places \cup {NULL} /\ q \in Places \cup {NULL}
  BY <1>0, <1>1
<1>2. LIST_INSERT_BEFORE(v, q, e) = x4 /\ TAILQ_INSERT_BEFORE(v, q, e) = x4
  BY <1>p DEF LIST_INSERT_BEFORE, TAILQ_INSERT_BEFORE
<1> HIDE DEF p, q
<1>3. IsSecond(v, x1, e, p)
  BY <1>t, FieldSet, Zenon
<1>4. x1 \in Lists
  BY <1>3 DEF IsSecond
<1> HIDE DEF x1
<1>5. IsNext1(x1, x2, e, q)
  BY <1>t, <1>4, FieldSet, Zenon
<1>6. x2 \in Lists
  BY <1>5 DEF IsNext1
<1> HIDE DEF x2
<1>7. IsNext1(x2, x3, p, e)
  BY <1>t, <1>6, FieldSet, Zenon
<1>8. x3 \in Lists
  BY <1>7 DEF IsNext1
<1> HIDE DEF x3
<1>9. IsSecond(x3, x4, q, e)
  BY <1>t, <1>8, FieldSet, Zenon
<1> HIDE DEF x4
<1>10. x4 \in Lists /\ x4.kind = v.kind /\ N(x4)
  BY <1>3, <1>5, <1>7, <1>9, ZenonT(30) DEF IsNext1, IsSecond
<1>11. D(x4) /\ T(x4)
  BY <1>1, <1>3, <1>5, <1>7, <1>9 DEF IsNext1, IsSecond
<1> HIDE DEF N, D, T
<1>12. PutIn(v, x4, h, i - 1, e)
  BY <1>q, <1>10, <1>11, Zenon
<1> QED
  BY <1>2, <1>12 DEF q

-----------------------------------------------------------------------------
\* The walk of Before, round by round.
Walk(g, v, h, e) ==
  g = [k \in 0 .. Cardinality(Elements) |->
         IF k = 0 THEN v.next[h]
         ELSE IF v.next[g[k - 1]] = e THEN g[k - 1] ELSE v.next[g[k - 1]]]

\* No list is longer than there are cells.
LEMMA ListFits ==
  ASSUME NEW v, Linked(v), NEW h \in Heads
  PROVE  Cardinality(Elements) \in Nat /\ Len(v.list[h]) <= Cardinality(Elements)
<1> DEFINE s == v.list[h]
<1>1. s \in [1 .. Len(s) -> Elements] /\ Len(s) \in Nat
  BY DEF Linked, Lists
<1>2. IsFiniteSet(Elements) /\ Cardinality(Elements) \in Nat
  BY QueuesAssumption, FS_CardinalityType
<1>3. IsFiniteSet(1 .. Len(s)) /\ Cardinality(1 .. Len(s)) = Len(s)
  <2>1. 1 \in Int /\ Len(s) \in Int
    BY <1>1
  <2> HIDE DEF s
  <2>2. /\ IsFiniteSet(1 .. Len(s))
        /\ Cardinality(1 .. Len(s)) = IF 1 > Len(s) THEN 0 ELSE Len(s) - 1 + 1
    BY <2>1, FS_Interval, Zenon
  <2> QED
    BY <1>1, <2>2
<1>4. \A i, j \in 1 .. Len(s) : s[i] = s[j] => i = j
  BY DEF Linked, Apart
<1> HIDE DEF s
<1>5. ~ (Cardinality(Elements) < Cardinality(1 .. Len(s)))
  <2>1. SUFFICES ASSUME Cardinality(Elements) < Cardinality(1 .. Len(s)) PROVE FALSE
    OBVIOUS
  <2>2. PICK i, j \in 1 .. Len(s) : i # j /\ s[i] = s[j]
    BY <1>1, <1>2, <1>3, <2>1, FS_PigeonHole, Zenon
  <2> QED
    BY <1>4, <2>2, Zenon
<1> QED
  BY <1>1, <1>2, <1>3, <1>5 DEF s

\* Before: following the list from its head finds the cell in front of any but the first.
LEMMA BeforeIsInFront ==
  ASSUME NEW v, Linked(v), NEW h \in Heads, NEW i \in 2 .. Len(v.list[h])
  PROVE  Before(v, h, v.list[h][i]) = v.list[h][i - 1]
<1> DEFINE s == v.list[h]
           e == s[i]
           C == Cardinality(Elements)
           w(k) == IF k + 1 < i THEN k + 1 ELSE i - 1
           g0 == [k \in 0 .. C |-> s[w(k)]]
           at == CHOOSE g : g = [k \in 0 .. C |->
                   IF k = 0 THEN v.next[h]
                   ELSE IF v.next[g[k - 1]] = e THEN g[k - 1] ELSE v.next[g[k - 1]]]
<1>0. /\ s \in Seq(Elements) /\ Len(s) \in Nat /\ C \in Nat /\ Len(s) <= C
      /\ i \in Int /\ 2 <= i /\ i <= Len(s)
  BY ListFits DEF Linked, Lists
<1>1. \A j \in 1 .. Len(s) : v.next[s[j]] = Node(h, s, j + 1)
  <2>1. \A j \in 1 .. Len(s) : j \in 0 .. Len(s) /\ Node(h, s, j) = s[j]
    BY <1>0 DEF Node
  <2>2. \A j \in 0 .. Len(s) : v.next[Node(h, s, j)] = Node(h, s, j + 1)
    BY DEF Linked, Chained
  <2> QED
    BY <2>1, <2>2
<1>2. \A j \in 1 .. i - 1 : v.next[s[j]] = s[j + 1]
  <2>1. \A j \in 1 .. i - 1 : j \in 1 .. Len(s) /\ j + 1 # 0 /\ ~ (j + 1 > Len(s))
    BY <1>0
  <2> QED
    BY <1>1, <2>1, Zenon DEF Node
<1>3. \A j, k \in 1 .. Len(s) : s[j] = s[k] => j = k
  BY DEF Linked, Apart
<1>4. v.next[h] = s[1]
  <2>1. v.next[Node(h, s, 0)] = Node(h, s, 0 + 1)
    BY <1>0 DEF Linked, Chained
  <2> QED
    BY <1>0, <2>1 DEF Node
<1>5. Before(v, h, e) = at[C]
  BY Zenon DEF Before
<1> HIDE DEF s, C, at
<1>6. \A k \in 1 .. C :
        (IF v.next[s[w(k - 1)]] = e THEN s[w(k - 1)] ELSE v.next[s[w(k - 1)]]) = s[w(k)]
  <2> TAKE k \in 1 .. C
  <2>1. k \in Int /\ 1 <= k
    BY <1>0
  <2>2. CASE k + 1 < i
    <3>1. w(k - 1) = k /\ w(k) = k + 1 /\ k \in 1 .. i - 1 /\ k + 1 \in 1 .. Len(s) /\ k + 1 # i /\ i \in 1 .. Len(s)
      BY <1>0, <2>1, <2>2
    <3>2. v.next[s[k]] = s[k + 1] /\ s[k + 1] # s[i]
      BY <1>2, <1>3, <3>1
    <3> QED
      BY <3>1, <3>2
  <2>3. CASE ~ (k + 1 < i)
    <3>1. w(k - 1) = i - 1 /\ w(k) = i - 1 /\ i - 1 \in 1 .. i - 1 /\ i - 1 + 1 = i
      BY <1>0, <2>1, <2>3
    <3>2. v.next[s[i - 1]] = s[i]
      BY <1>0, <1>2, <3>1
    <3> QED
      BY <3>1, <3>2
  <2> QED
    BY <2>2, <2>3
<1>7. w(0) = 1 /\ w(C) = i - 1 /\ \A k \in 0 .. C : k = 0 \/ (k \in 1 .. C /\ k - 1 \in 0 .. C)
  BY <1>0
<1> HIDE DEF w, e
<1>8. Walk(g0, v, h, e)
  <2>1. ASSUME NEW k \in 0 .. C
        PROVE  s[w(k)] = IF k = 0 THEN v.next[h]
                         ELSE IF v.next[g0[k - 1]] = e THEN g0[k - 1] ELSE v.next[g0[k - 1]]
    <3>1. CASE k = 0
      BY <1>4, <1>7, <3>1, Zenon
    <3>2. CASE k # 0
      <4>1. k \in 1 .. C /\ g0[k - 1] = s[w(k - 1)]
        BY <1>7, <3>2, Zenon
      <4> HIDE DEF g0
      <4> QED
        BY <1>6, <3>2, <4>1, Zenon
    <3> QED
      BY <3>1, <3>2
  <2>2. g0 = [k \in 0 .. C |-> s[w(k)]]
    OBVIOUS
  <2> HIDE DEF g0
  <2> QED
    BY <2>1, <2>2, Zenon DEF Walk, C
<1> HIDE DEF g0
<1>9. Walk(at, v, h, e)
  BY <1>8, Zenon DEF Walk, at, C
<1>10. \A k \in 0 .. C : at[k] = IF k = 0 THEN v.next[h]
                                 ELSE IF v.next[at[k - 1]] = e THEN at[k - 1] ELSE v.next[at[k - 1]]
  BY <1>9, Zenon DEF Walk, C
<1>11. at[C] = s[w(C)]
  <2> DEFINE Bad == {k \in 0 .. C : at[k] # s[w(k)]}
  <2>1. SUFFICES ASSUME Bad # {} PROVE FALSE
    <3>1. C \in 0 .. C
      BY <1>0
    <3> QED
      BY <3>1, Zenon
  <2>2. Bad \subseteq Nat
    BY <1>0
  <2>3. PICK k \in Bad : \A l \in Bad : k <= l
    <3> HIDE DEF Bad
    <3> QED
      BY <2>1, <2>2, LeastNatural, Zenon
  <2>4. k \in 0 .. C /\ at[k] # s[w(k)]
    BY <2>3, Zenon
  <2>5. CASE k = 0
    BY <1>4, <1>7, <1>10, <2>4, <2>5, Zenon
  <2>6. CASE k # 0
    <3>1. k \in 1 .. C /\ k - 1 \in 0 .. C /\ ~ (k <= k - 1)
      BY <1>0, <2>4, <2>6
    <3>2. at[k - 1] = s[w(k - 1)]
      BY <2>3, <3>1, Zenon
    <3> QED
      BY <1>6, <1>10, <2>4, <2>6, <3>1, <3>2, Zenon
  <2> QED
    BY <2>5, <2>6
<1> QED
  BY <1>5, <1>7, <1>11, Zenon DEF s, e

\* SLIST_REMOVE, STAILQ_REMOVE, LIST_REMOVE and TAILQ_REMOVE.
LEMMA RemoveTakesOut ==
  ASSUME NEW v, Linked(v), NEW h \in Heads, NEW i \in 1 .. Len(v.list[h]), NEW e, e = v.list[h][i]
  PROVE  /\ v.kind = "SLIST" => TakenOut(v, SLIST_REMOVE(v, h, e), h, i)
         /\ v.kind = "STAILQ" => TakenOut(v, STAILQ_REMOVE(v, h, e), h, i)
         /\ v.kind = "LIST" => TakenOut(v, LIST_REMOVE(v, e), h, i)
         /\ v.kind = "TAILQ" => TakenOut(v, TAILQ_REMOVE(v, h, e), h, i)
<1> DEFINE s == v.list[h]
           p == Node(h, s, i - 1)
           q == Node(h, s, i + 1)
           n == Len(s)
           x1 == Next1(v, p, q)
<1>0. /\ v \in Lists /\ s \in Seq(Elements) /\ n \in Nat /\ e \in Elements
      /\ i \in Int /\ 1 <= i /\ i <= n /\ i \in 0 .. n /\ i - 1 \in 0 .. n /\ i - 1 + 1 = i
  BY DEF Linked, Lists
<1>1. Node(h, s, i) = e
  BY <1>0 DEF Node
<1>2. /\ p \in Places /\ h \in Places /\ q \in Elements \cup {NULL} /\ q \in Places \cup {NULL}
      /\ v.next[p] = e /\ v.next[e] = q /\ (q = NULL <=> i = n) /\ NULL \notin Places /\ e \in Places
      /\ \A f \in Heads : f \notin Elements /\ f \in Places
      /\ \A f \in Elements : f \notin Heads /\ f \in Places
  <2>1. p \in Places /\ v.next[p] = Node(h, s, i - 1 + 1)
    BY <1>0, PlaceFacts
  <2>2. /\ h \in Places /\ q \in Elements \cup {NULL} /\ q \in Places \cup {NULL}
        /\ v.next[Node(h, s, i)] = q /\ (q = NULL <=> i = n) /\ NULL \notin Places
        /\ \A f \in Heads : f \notin Elements /\ f \in Places
        /\ \A f \in Elements : f \notin Heads /\ f \in Places
    BY <1>0, PlaceFacts
  <2> QED
    BY <1>0, <1>1, <2>1, <2>2, Zenon
<1>3. v.next[h] = e <=> i = 1
  <2>1. v.next[Node(h, s, 0)] = Node(h, s, 0 + 1)
    BY <1>0 DEF Linked, Chained
  <2>2. v.next[h] = s[1]
    BY <1>0, <2>1 DEF Node
  <2>3. 1 \in 1 .. n
    BY <1>0
  <2> QED
    BY <2>2, <2>3, Zenon DEF Linked, Apart
<1>4. i = 1 => p = h
  BY DEF Node
<1>5. i # 1 => Before(v, h, e) = p
  <2>1. SUFFICES ASSUME i # 1 PROVE Before(v, h, e) = p
    OBVIOUS
  <2>2. i \in 2 .. n /\ i - 1 # 0 /\ ~ (i - 1 > n)
    BY <1>0, <2>1
  <2>3. p = s[i - 1]
    BY <2>2 DEF Node
  <2> QED
    BY <2>2, <2>3, BeforeIsInFront, Zenon
<1>6. v.kind \in Doubly => v.second[e] = p
  BY DEF Linked, ChainedBack
<1> DEFINE N(x) == \A r \in Places : x.next[r] = IF r = p THEN q ELSE v.next[r]
           D(x) == \A r \in Elements : x.second[r] = IF r = q THEN p ELSE v.second[r]
           T(x) == \A r \in Heads : x.second[r] = IF r = h /\ i = n THEN p ELSE v.second[r]
<1>q. ASSUME NEW x \in Lists, x.kind = v.kind, N(x), v.kind \in Doubly => D(x), v.kind \in Tailed => T(x)
      PROVE  TakenOut(v, x, h, i)
  BY <1>q DEF TakenOut
<1>t. /\ v \in Lists /\ p \in Places /\ h \in Places
      /\ q \in Places \cup {NULL} /\ p \in Places \cup {NULL}
  BY <1>0, <1>2
<1> HIDE DEF s, p, q, n
<1>7. IsNext1(v, x1, p, q)
  BY <1>t, FieldSet, Zenon
<1>8. x1.next[p] = q /\ x1 \in Lists
  BY <1>t, <1>7 DEF IsNext1
<1>9. ASSUME v.kind = "SLIST" PROVE TakenOut(v, SLIST_REMOVE(v, h, e), h, i)
  <2>1. SLIST_REMOVE(v, h, e) = x1
    BY <1>2, <1>3, <1>4, <1>5, ZenonT(30) DEF SLIST_REMOVE, SLIST_REMOVE_HEAD, SLIST_REMOVE_AFTER
  <2> HIDE DEF x1
  <2>2. x1 \in Lists /\ x1.kind = v.kind /\ N(x1)
    BY <1>7 DEF IsNext1
  <2>3. v.kind \notin Doubly /\ v.kind \notin Tailed
    BY <1>9 DEF Doubly, Tailed
  <2> HIDE DEF N, D, T
  <2> QED
    BY <1>q, <2>1, <2>2, <2>3, Zenon
<1>10. ASSUME v.kind = "STAILQ" PROVE TakenOut(v, STAILQ_REMOVE(v, h, e), h, i)
  <2> DEFINE x2 == LastIs(x1, h, p)
  <2>1. STAILQ_REMOVE(v, h, e) = x2
    BY <1>2, <1>3, <1>4, <1>5, Zenon DEF STAILQ_REMOVE, STAILQ_REMOVE_HEAD, STAILQ_REMOVE_AFTER
  <2> HIDE DEF x1
  <2>2. IF q = NULL THEN IsSecond(x1, x2, h, p) ELSE x2 = x1
    BY <1>t, <1>8, FieldSet, Zenon DEF LastIs
  <2> HIDE DEF x2
  <2>3. x2 \in Lists /\ x2.kind = v.kind /\ N(x2) /\ T(x2)
    BY <1>2, <1>7, <2>2, Zenon DEF IsNext1, IsSecond
  <2>4. v.kind \notin Doubly
    BY <1>10 DEF Doubly
  <2> HIDE DEF N, D, T
  <2> QED
    BY <1>q, <2>1, <2>3, <2>4, Zenon
<1>11. ASSUME v.kind = "LIST" PROVE TakenOut(v, LIST_REMOVE(v, e), h, i)
  <2> DEFINE y1 == BackTo(v, q, p)
             y2 == Next1(y1, p, q)
  <2>1. LIST_REMOVE(v, e) = y2
    BY <1>2, <1>6, <1>11 DEF LIST_REMOVE, Doubly
  <2>2. IF q = NULL THEN y1 = v ELSE IsSecond(v, y1, q, p)
    BY <1>t, FieldSet, Zenon DEF BackTo
  <2> HIDE DEF y1
  <2>3. y1 \in Lists /\ y1.kind = v.kind /\ y1.next = v.next
    BY <1>t, <2>2 DEF IsSecond
  <2>4. IsNext1(y1, y2, p, q)
    BY <1>t, <2>3, FieldSet, Zenon
  <2> HIDE DEF y2
  <2>5. y2 \in Lists /\ y2.kind = v.kind /\ N(y2) /\ D(y2)
    BY <1>2, <2>2, <2>3, <2>4, Zenon DEF IsNext1, IsSecond
  <2>6. v.kind \notin Tailed
    BY <1>11 DEF Tailed
  <2> HIDE DEF N, D, T
  <2> QED
    BY <1>q, <2>1, <2>5, <2>6, ZenonT(30)
<1>12. ASSUME v.kind = "TAILQ" PROVE TakenOut(v, TAILQ_REMOVE(v, h, e), h, i)
  <2> DEFINE y1 == BackOrLast(v, h, q, p)
             y2 == Next1(y1, p, q)
  <2>1. TAILQ_REMOVE(v, h, e) = y2
    BY <1>2, <1>6, <1>12 DEF TAILQ_REMOVE, Doubly
  <2>2. IF q = NULL THEN IsSecond(v, y1, h, p) ELSE IsSecond(v, y1, q, p)
    BY <1>t, FieldSet, Zenon DEF BackOrLast
  <2> HIDE DEF y1
  <2>3. y1 \in Lists /\ y1.kind = v.kind /\ y1.next = v.next
    BY <1>t, <2>2, Zenon DEF IsSecond
  <2>4. IsNext1(y1, y2, p, q)
    BY <1>t, <2>3, FieldSet, Zenon
  <2> HIDE DEF y2
  <2>5. y2 \in Lists /\ y2.kind = v.kind /\ N(y2)
    BY <2>3, <2>4, Zenon DEF IsNext1
  <2>6. D(y2) /\ T(y2)
    BY <1>2, <2>2, <2>4, ZenonT(30) DEF IsNext1, IsSecond
  <2> HIDE DEF N, D, T
  <2> QED
    BY <1>q, <2>1, <2>5, <2>6, ZenonT(30)
<1> QED
  BY <1>9, <1>10, <1>11, <1>12, Zenon

\* SLIST_SWAP, STAILQ_SWAP, LIST_SWAP and TAILQ_SWAP.
LEMMA SwapSwaps ==
  ASSUME NEW v, Linked(v), NEW g \in Heads, NEW h \in Heads, g # h
  PROVE  /\ v.kind = "SLIST" => Swapped(v, SLIST_SWAP(v, g, h), g, h)
         /\ v.kind = "STAILQ" => Swapped(v, STAILQ_SWAP(v, g, h), g, h)
         /\ v.kind = "LIST" => Swapped(v, LIST_SWAP(v, g, h), g, h)
         /\ v.kind = "TAILQ" => Swapped(v, TAILQ_SWAP(v, g, h), g, h)
<1> DEFINE a == v.next[g]
           b == v.next[h]
           c == v.second[g]
           d == v.second[h]
           x1 == Next1(v, g, b)
           x2 == Next1(x1, h, a)
           x3 == Second(x2, g, d)
           x4 == Second(x3, h, c)
<1>1. /\ v \in Lists /\ g \in Places /\ h \in Places
      /\ a \in Places \cup {NULL} /\ b \in Places \cup {NULL}
      /\ c \in Places \cup {NULL} /\ d \in Places \cup {NULL}
      /\ g \in Places \cup {NULL} /\ h \in Places \cup {NULL}
  BY PlacesDiffer DEF Linked, Lists, Pointers, Places
<1>2. /\ a \in Elements \cup {NULL} /\ b \in Elements \cup {NULL} /\ (a # NULL => a # b)
  <2>1. /\ Len(v.list[h]) \in Nat /\ b \in Elements \cup {NULL}
        /\ \A j \in 1 .. Len(v.list[g]) : v.list[g][j] = b => g = h
    BY FirstCell
  <2>2. /\ Len(v.list[g]) \in Nat /\ a \in Elements \cup {NULL}
        /\ a = IF Len(v.list[g]) = 0 THEN NULL ELSE v.list[g][1]
    BY FirstCell
  <2>3. Len(v.list[g]) # 0 => 1 \in 1 .. Len(v.list[g])
    BY <2>2
  <2> QED
    BY <2>1, <2>2, <2>3
<1>3. /\ NULL \notin Places
      /\ \A f \in Heads : f \notin Elements /\ f \in Places
      /\ \A f \in Elements : f \notin Heads /\ f \in Places
  BY QueuesAssumption DEF Places
<1> DEFINE N(x) == \A r \in Places : x.next[r] = IF r = g THEN b ELSE IF r = h THEN a ELSE v.next[r]
           D(x) == \A r \in Elements : x.second[r] = IF r = a THEN h ELSE IF r = b THEN g ELSE v.second[r]
           T(x) == \A r \in Heads : x.second[r] = IF r = g THEN IF b = NULL THEN g ELSE d
                                                  ELSE IF r = h THEN IF a = NULL THEN h ELSE c ELSE v.second[r]
<1>q. ASSUME NEW x \in Lists, x.kind = v.kind, N(x), v.kind \in Doubly => D(x), v.kind \in Tailed => T(x)
      PROVE  Swapped(v, x, g, h)
  BY <1>q DEF Swapped
<1>s. /\ SLIST_SWAP(v, g, h) = x2
      /\ LIST_SWAP(v, g, h) = BackTo(BackTo(x2, b, g), a, h)
      /\ STAILQ_SWAP(v, g, h) = LastIs(LastIs(x4, g, g), h, h)
      /\ TAILQ_SWAP(v, g, h) = BackOrLast(BackOrLast(x4, g, x4.next[g], g), h, x4.next[h], h)
  BY Zenon DEF SLIST_SWAP, LIST_SWAP, STAILQ_SWAP, TAILQ_SWAP
<1> HIDE DEF a, b, c, d
<1>4. IsNext1(v, x1, g, b)
  BY <1>1, FieldSet, Zenon
<1>5. x1 \in Lists
  BY <1>4 DEF IsNext1
<1> HIDE DEF x1
<1>6. IsNext1(x1, x2, h, a)
  BY <1>1, <1>5, FieldSet, Zenon
<1> HIDE DEF x2
<1>7. x2 \in Lists /\ x2.kind = v.kind /\ N(x2) /\ x2.second = v.second
  BY <1>4, <1>6 DEF IsNext1
<1>8. IsSecond(x2, x3, g, d)
  BY <1>1, <1>7, FieldSet, Zenon
<1>9. x3 \in Lists
  BY <1>8 DEF IsSecond
<1> HIDE DEF x3
<1>10. IsSecond(x3, x4, h, c)
  BY <1>1, <1>9, FieldSet, Zenon
<1> HIDE DEF x4
<1>11. /\ x4 \in Lists /\ x4.kind = v.kind /\ x4.next = x2.next
       /\ \A r \in Places : x4.second[r] = IF r = h THEN c ELSE IF r = g THEN d ELSE v.second[r]
  BY <1>7, <1>8, <1>10, Zenon DEF IsSecond
<1>12. x2.next[g] = b /\ x2.next[h] = a
  BY <1>1, <1>7
<1>13. x4 \in Lists /\ x4.next[g] = b /\ x4.next[h] = a
  BY <1>11, <1>12
<1>14. x2 \in Lists
  BY <1>7
<1>15. ASSUME v.kind = "SLIST" PROVE Swapped(v, SLIST_SWAP(v, g, h), g, h)
  <2>1. v.kind \notin Doubly /\ v.kind \notin Tailed
    BY <1>15, Zenon DEF Doubly, Tailed
  <2> HIDE DEF N, D, T
  <2> QED
    BY <1>q, <1>s, <1>7, <2>1, Zenon
<1>16. ASSUME v.kind = "LIST" PROVE Swapped(v, LIST_SWAP(v, g, h), g, h)
  <2> DEFINE y1 == BackTo(x2, b, g)
             y2 == BackTo(y1, a, h)
  <2>1. IF b = NULL THEN y1 = x2 ELSE IsSecond(x2, y1, b, g)
    BY <1>1, <1>14, FieldSet, Zenon DEF BackTo
  <2> HIDE DEF y1
  <2>2. y1 \in Lists
    BY <1>14, <2>1 DEF IsSecond
  <2>3. IF a = NULL THEN y2 = y1 ELSE IsSecond(y1, y2, a, h)
    BY <1>1, <2>2, FieldSet, Zenon DEF BackTo
  <2>4. LIST_SWAP(v, g, h) = y2
    BY <1>s DEF y1
  <2> HIDE DEF y2
  <2>5. y2 \in Lists /\ y2.kind = v.kind /\ y2.next = x2.next
    BY <1>7, <2>1, <2>3, Zenon DEF IsSecond
  <2>6. N(y2)
    BY <1>7, <2>5
  <2>7. D(y2)
    BY <1>2, <1>3, <1>7, <2>1, <2>3, ZenonT(30) DEF IsSecond
  <2>8. v.kind \notin Tailed
    BY <1>16 DEF Tailed
  <2> HIDE DEF N, D, T
  <2> QED
    BY <1>q, <2>4, <2>5, <2>6, <2>7, <2>8, Zenon
<1>17. ASSUME v.kind = "STAILQ" PROVE Swapped(v, STAILQ_SWAP(v, g, h), g, h)
  <2> DEFINE y1 == LastIs(x4, g, g)
             y2 == LastIs(y1, h, h)
  <2>1. IF b = NULL THEN IsSecond(x4, y1, g, g) ELSE y1 = x4
    BY <1>1, <1>13, FieldSet, Zenon DEF LastIs
  <2> HIDE DEF y1
  <2>2. y1 \in Lists /\ y1.next[h] = a
    BY <1>13, <2>1 DEF IsSecond
  <2>3. IF a = NULL THEN IsSecond(y1, y2, h, h) ELSE y2 = y1
    BY <1>1, <2>2, FieldSet, Zenon DEF LastIs
  <2>4. STAILQ_SWAP(v, g, h) = y2
    BY <1>s DEF y1
  <2> HIDE DEF y2
  <2>5. y2 \in Lists /\ y2.kind = v.kind /\ y2.next = x2.next
    BY <1>11, <2>1, <2>3, Zenon DEF IsSecond
  <2>6. N(y2)
    BY <1>7, <2>5
  <2>7. T(y2)
    BY <1>3, <1>11, <2>1, <2>3, Zenon DEF IsSecond
  <2>8. v.kind \notin Doubly
    BY <1>17 DEF Doubly
  <2> HIDE DEF N, D, T
  <2> QED
    BY <1>q, <2>4, <2>5, <2>6, <2>7, <2>8, Zenon
<1>18. ASSUME v.kind = "TAILQ" PROVE Swapped(v, TAILQ_SWAP(v, g, h), g, h)
  <2> DEFINE y1 == BackOrLast(x4, g, b, g)
             y2 == BackOrLast(y1, h, a, h)
  <2>1. IF b = NULL THEN IsSecond(x4, y1, g, g) ELSE IsSecond(x4, y1, b, g)
    BY <1>1, <1>13, FieldSet, Zenon DEF BackOrLast
  <2>2. TAILQ_SWAP(v, g, h) = y2
    BY <1>s, <1>13
  <2> HIDE DEF y1
  <2>3. y1 \in Lists
    BY <2>1 DEF IsSecond
  <2>4. IF a = NULL THEN IsSecond(y1, y2, h, h) ELSE IsSecond(y1, y2, a, h)
    BY <1>1, <2>3, FieldSet, Zenon DEF BackOrLast
  <2> HIDE DEF y2
  <2>5. y2 \in Lists /\ y2.kind = v.kind /\ y2.next = x2.next
    BY <1>11, <2>1, <2>4, Zenon DEF IsSecond
  <2>6. N(y2)
    BY <1>7, <2>5
  <2>7. D(y2)
    BY <1>2, <1>3, <1>11, <2>1, <2>4, Zenon DEF IsSecond
  <2>8. T(y2)
    BY <1>2, <1>3, <1>11, <2>1, <2>4, Zenon DEF IsSecond
  <2> HIDE DEF N, D, T
  <2> QED
    BY <1>q, <2>2, <2>5, <2>6, <2>7, <2>8, Zenon
<1> QED
  BY <1>15, <1>16, <1>17, <1>18, Zenon

\* STAILQ_CONCAT and TAILQ_CONCAT of a list that has cells.
LEMMA ConcatPutsTogether ==
  ASSUME NEW v, Linked(v), NEW g \in Heads, NEW h \in Heads, g # h, Len(v.list[h]) > 0, v.kind \in Tailed
  PROVE  PutTogether(v, IF v.kind = "STAILQ" THEN STAILQ_CONCAT(v, g, h) ELSE TAILQ_CONCAT(v, g, h), g, h)
<1> DEFINE p == Node(g, v.list[g], Len(v.list[g]))
           a == v.next[h]
           d == v.second[h]
           x1 == Next1(v, p, a)
<1>0. /\ v \in Lists /\ Len(v.list[g]) \in 0 .. Len(v.list[g]) /\ 0 \in 0 .. Len(v.list[h])
      /\ Apart(v.list)
  BY DEF Linked, Lists
<1>1. a = v.list[h][1] /\ a \in Elements /\ a # NULL
  BY FirstCell, PlacesDiffer
<1>2. p \in Places
  BY <1>0, PlaceFacts
<1>3. p # h
  <2>1. Node(h, v.list[h], 0) = h
    BY DEF Node
  <2> QED
    BY <1>0, <2>1, NodesDiffer
<1>4. v.second[g] = p
  BY DEF Linked, EndKnown
<1>5. /\ \A f \in Heads : f \notin Elements /\ f \in Places
      /\ \A f \in Elements : f \notin Heads /\ f \in Places
  BY QueuesAssumption DEF Places
<1>t. /\ v \in Lists /\ p \in Places /\ g \in Places /\ h \in Places /\ a \in Places
      /\ a \in Places \cup {NULL} /\ p \in Places \cup {NULL} /\ d \in Places \cup {NULL}
      /\ NULL \in Places \cup {NULL} /\ h \in Places \cup {NULL}
  BY <1>0, <1>1, <1>2, <1>5, Zenon DEF Lists, Pointers
<1> DEFINE N(x) == \A r \in Places : x.next[r] = IF r = p THEN a ELSE IF r = h THEN NULL ELSE v.next[r]
           D(x) == \A r \in Elements : x.second[r] = IF r = a THEN p ELSE v.second[r]
           T(x) == \A r \in Heads : x.second[r] = IF r = g THEN d ELSE IF r = h THEN h ELSE v.second[r]
<1>q. ASSUME NEW x \in Lists, x.kind = v.kind, N(x), v.kind \in Doubly => D(x), T(x)
      PROVE  PutTogether(v, x, g, h)
  BY <1>1, <1>q DEF PutTogether
<1>s. /\ STAILQ_CONCAT(v, g, h) = Second(Next1(Second(x1, g, d), h, NULL), h, h)
      /\ TAILQ_CONCAT(v, g, h) = Second(Next1(Second(Second(x1, a, p), g, d), h, NULL), h, h)
  BY <1>1, <1>4 DEF STAILQ_CONCAT, TAILQ_CONCAT, EMPTY, Emptied
<1> HIDE DEF p, a, d
<1>6. IsNext1(v, x1, p, a)
  BY <1>t, FieldSet, Zenon
<1>7. x1 \in Lists
  BY <1>6 DEF IsNext1
<1> HIDE DEF x1
<1>8. CASE v.kind = "STAILQ"
  <2> DEFINE x2 == Second(x1, g, d)
             x3 == Next1(x2, h, NULL)
             x4 == Second(x3, h, h)
  <2>1. IsSecond(x1, x2, g, d)
    BY <1>t, <1>7, FieldSet, Zenon
  <2>2. x2 \in Lists
    BY <2>1 DEF IsSecond
  <2>0. STAILQ_CONCAT(v, g, h) = x4
    BY <1>s
  <2> HIDE DEF x2
  <2>3. IsNext1(x2, x3, h, NULL)
    BY <1>t, <2>2, FieldSet, Zenon
  <2>4. x3 \in Lists
    BY <2>3 DEF IsNext1
  <2> HIDE DEF x3
  <2>5. IsSecond(x3, x4, h, h)
    BY <1>t, <2>4, FieldSet, Zenon
  <2> HIDE DEF x4
  <2>6. x4 \in Lists /\ x4.kind = v.kind
    BY <1>6, <2>1, <2>3, <2>5, Zenon DEF IsNext1, IsSecond
  <2>7. N(x4)
    <3>1. x2.next = x1.next /\ x4.next = x3.next
      BY <2>1, <2>5, Zenon DEF IsSecond
    <3>2. \A q \in Places : x3.next[q] = IF q = h THEN NULL ELSE x2.next[q]
      BY <2>3, Zenon DEF IsNext1
    <3>3. \A q \in Places : x1.next[q] = IF q = p THEN a ELSE v.next[q]
      BY <1>6, Zenon DEF IsNext1
    <3> QED
      BY <1>3, <3>1, <3>2, <3>3, Zenon
  <2>8. T(x4)
    <3>1. x3.second = x2.second /\ x1.second = v.second
      BY <1>6, <2>3, Zenon DEF IsNext1
    <3>2. \A q \in Places : x4.second[q] = IF q = h THEN h ELSE x3.second[q]
      BY <2>5, Zenon DEF IsSecond
    <3>3. \A q \in Places : x2.second[q] = IF q = g THEN d ELSE x1.second[q]
      BY <2>1, Zenon DEF IsSecond
    <3> QED
      BY <1>5, <3>1, <3>2, <3>3, Zenon
  <2>9. v.kind \notin Doubly
    BY <1>8 DEF Doubly
  <2> HIDE DEF N, D, T
  <2> QED
    BY <1>q, <1>8, <2>0, <2>6, <2>7, <2>8, <2>9, Zenon
<1>9. CASE v.kind = "TAILQ"
  <2> DEFINE y == Second(x1, a, p)
             x2 == Second(y, g, d)
             x3 == Next1(x2, h, NULL)
             x4 == Second(x3, h, h)
  <2>y. IsSecond(x1, y, a, p)
    BY <1>t, <1>7, FieldSet, Zenon
  <2>0. TAILQ_CONCAT(v, g, h) = x4
    BY <1>s
  <2>z. y \in Lists
    BY <2>y DEF IsSecond
  <2> HIDE DEF y
  <2>1. IsSecond(y, x2, g, d)
    BY <1>t, <2>z, FieldSet, Zenon
  <2>2. x2 \in Lists
    BY <2>1 DEF IsSecond
  <2> HIDE DEF x2
  <2>3. IsNext1(x2, x3, h, NULL)
    BY <1>t, <2>2, FieldSet, Zenon
  <2>4. x3 \in Lists
    BY <2>3 DEF IsNext1
  <2> HIDE DEF x3
  <2>5. IsSecond(x3, x4, h, h)
    BY <1>t, <2>4, FieldSet, Zenon
  <2> HIDE DEF x4
  <2>6. x4 \in Lists /\ x4.kind = v.kind
    BY <1>6, <2>y, <2>1, <2>3, <2>5, Zenon DEF IsNext1, IsSecond
  <2>7. N(x4)
    <3>1. x2.next = x1.next /\ x4.next = x3.next
      BY <2>y, <2>1, <2>5, Zenon DEF IsSecond
    <3>2. \A q \in Places : x3.next[q] = IF q = h THEN NULL ELSE x2.next[q]
      BY <2>3, Zenon DEF IsNext1
    <3>3. \A q \in Places : x1.next[q] = IF q = p THEN a ELSE v.next[q]
      BY <1>6, Zenon DEF IsNext1
    <3> QED
      BY <1>3, <3>1, <3>2, <3>3, Zenon
  <2>8. x3.second = x2.second /\ y.kind = v.kind /\ x1.second = v.second
    BY <1>6, <2>y, <2>3 DEF IsNext1, IsSecond
  <2>11. /\ \A q \in Places : x4.second[q] = IF q = h THEN h ELSE x2.second[q]
         /\ \A q \in Places : x2.second[q] = IF q = g THEN d ELSE y.second[q]
         /\ \A q \in Places : y.second[q] = IF q = a THEN p ELSE v.second[q]
    BY <2>y, <2>1, <2>5, <2>8, Zenon DEF IsSecond
  <2>9. D(x4)
    BY <1>1, <1>5, <2>11, Zenon
  <2>10. T(x4)
    BY <1>1, <1>5, <2>11, Zenon
  <2> HIDE DEF N, D, T
  <2> QED
    BY <1>q, <1>9, <2>0, <2>6, <2>7, <2>9, <2>10, Zenon
<1> QED
  BY <1>8, <1>9 DEF Tailed

-----------------------------------------------------------------------------
LEMMA LooseIsInNoList ==
  ASSUME Linked(u), NEW e \in Loose
  PROVE  InNoList(u, e)
<1>1. \A h \in Heads : DOMAIN u.list[h] = 1 .. Len(u.list[h])
  BY DEF Linked, Lists
<1> QED
  BY <1>1 DEF Loose, InNoList

\* The cells of a list are numbered from 1, and its kind is one of the four.
LEMMA Numbered ==
  ASSUME Linked(u), NEW h \in Heads
  PROVE  /\ u.list[h] \in Seq(Elements) /\ Len(u.list[h]) \in Nat
         /\ DOMAIN u.list[h] = 1 .. Len(u.list[h])
         /\ u.kind \in {"SLIST", "STAILQ", "LIST", "TAILQ"}
<1>1. u.list[h] \in Seq(Elements) /\ u.kind \in Kinds
  BY DEF Linked, Lists
<1> QED
  BY <1>1 DEF Kinds, Doubly, Tailed

LEMMA HeadInserted ==
  ASSUME Linked(u), NEW h \in Heads, NEW e \in Loose, InsertHead(h, e)
  PROVE  Linked(u')
<1> DEFINE x == CASE u.kind = "SLIST" -> SLIST_INSERT_HEAD(u, h, e)
                  [] u.kind = "STAILQ" -> STAILQ_INSERT_HEAD(u, h, e)
                  [] u.kind = "LIST" -> LIST_INSERT_HEAD(u, h, e)
                  [] u.kind = "TAILQ" -> TAILQ_INSERT_HEAD(u, h, e)
<1>1. InNoList(u, e) /\ e \in Elements
  BY LooseIsInNoList DEF InNoList
<1>2. /\ u.list[h] \in Seq(Elements) /\ 0 \in 0 .. Len(u.list[h]) /\ h = Node(h, u.list[h], 0)
      /\ u.kind \in {"SLIST", "STAILQ", "LIST", "TAILQ"}
  BY Numbered DEF Node
<1>3. /\ SLIST_INSERT_HEAD(u, h, e) = SLIST_INSERT_AFTER(u, h, e)
      /\ STAILQ_INSERT_HEAD(u, h, e) = STAILQ_INSERT_AFTER(u, h, h, e)
      /\ LIST_INSERT_HEAD(u, h, e) = LIST_INSERT_AFTER(u, h, e)
      /\ TAILQ_INSERT_HEAD(u, h, e) = TAILQ_INSERT_AFTER(u, h, h, e)
  BY Zenon DEF SLIST_INSERT_HEAD, SLIST_INSERT_AFTER, STAILQ_INSERT_HEAD, STAILQ_INSERT_AFTER,
     LIST_INSERT_HEAD, LIST_INSERT_AFTER, TAILQ_INSERT_HEAD, TAILQ_INSERT_AFTER
<1>4. PutIn(u, x, h, 0, e)
  <2>1. /\ u.kind = "SLIST" => PutIn(u, SLIST_INSERT_AFTER(u, h, e), h, 0, e)
        /\ u.kind = "STAILQ" => PutIn(u, STAILQ_INSERT_AFTER(u, h, h, e), h, 0, e)
        /\ u.kind = "LIST" => PutIn(u, LIST_INSERT_AFTER(u, h, e), h, 0, e)
        /\ u.kind = "TAILQ" => PutIn(u, TAILQ_INSERT_AFTER(u, h, h, e), h, 0, e)
    BY <1>1, <1>2, AfterPutsIn, Zenon
  <2> QED
    BY <1>2, <1>3, <2>1
<1>5. With(u.list[h], <<e>> \o u.list[h], 0, e)
  BY <1>1, <1>2, EndsAreWith, Zenon
<1>6. u' = [x EXCEPT !.list = [u.list EXCEPT ![h] = <<e>> \o u.list[h]]]
  BY Zenon DEF InsertHead, Becomes
<1> HIDE DEF x
<1> QED
  BY <1>1, <1>2, <1>4, <1>5, <1>6, InsertDone, Zenon

LEMMA TailInserted ==
  ASSUME Linked(u), NEW h \in Heads, NEW e \in Loose, InsertTail(h, e)
  PROVE  Linked(u')
<1> DEFINE x == IF u.kind = "STAILQ" THEN STAILQ_INSERT_TAIL(u, h, e) ELSE TAILQ_INSERT_TAIL(u, h, e)
<1>1. InNoList(u, e) /\ e \in Elements
  BY LooseIsInNoList DEF InNoList
<1>2. u.list[h] \in Seq(Elements) /\ Len(u.list[h]) \in 0 .. Len(u.list[h])
  BY Numbered
<1>3. u.kind \in Tailed
  BY DEF InsertTail
<1>4. PutIn(u, x, h, Len(u.list[h]), e)
  BY <1>1, <1>3, TailPutsIn, Zenon
<1>5. With(u.list[h], Append(u.list[h], e), Len(u.list[h]), e)
  BY <1>1, <1>2, EndsAreWith, Zenon
<1>6. u' = [x EXCEPT !.list = [u.list EXCEPT ![h] = Append(u.list[h], e)]]
  BY Zenon DEF InsertTail, Becomes
<1> HIDE DEF x
<1> QED
  BY <1>1, <1>2, <1>4, <1>5, <1>6, InsertDone, Zenon

LEMMA AfterInserted ==
  ASSUME Linked(u), NEW h \in Heads, NEW e \in Loose, NEW i \in DOMAIN u.list[h], InsertAfter(h, i, e)
  PROVE  Linked(u')
<1> DEFINE p == u.list[h][i]
           x == CASE u.kind = "SLIST" -> SLIST_INSERT_AFTER(u, p, e)
                  [] u.kind = "STAILQ" -> STAILQ_INSERT_AFTER(u, h, p, e)
                  [] u.kind = "LIST" -> LIST_INSERT_AFTER(u, p, e)
                  [] u.kind = "TAILQ" -> TAILQ_INSERT_AFTER(u, h, p, e)
<1>1. InNoList(u, e) /\ e \in Elements
  BY LooseIsInNoList DEF InNoList
<1>2. /\ u.list[h] \in Seq(Elements) /\ Len(u.list[h]) \in Nat /\ i \in 1 .. Len(u.list[h])
      /\ u.kind \in {"SLIST", "STAILQ", "LIST", "TAILQ"}
  BY Numbered
<1>3. /\ i \in 0 .. Len(u.list[h]) /\ i + 1 \in 1 .. Len(u.list[h]) + 1 /\ i + 1 - 1 = i
      /\ i # 0 /\ ~ (i > Len(u.list[h]))
  BY <1>2
<1>4. p = Node(h, u.list[h], i)
  BY <1>3 DEF Node
<1>5. PutIn(u, x, h, i, e)
  <2>1. /\ u.kind = "SLIST" => PutIn(u, SLIST_INSERT_AFTER(u, p, e), h, i, e)
        /\ u.kind = "STAILQ" => PutIn(u, STAILQ_INSERT_AFTER(u, h, p, e), h, i, e)
        /\ u.kind = "LIST" => PutIn(u, LIST_INSERT_AFTER(u, p, e), h, i, e)
        /\ u.kind = "TAILQ" => PutIn(u, TAILQ_INSERT_AFTER(u, h, p, e), h, i, e)
    BY <1>1, <1>3, <1>4, AfterPutsIn, Zenon
  <2> HIDE DEF p
  <2> QED
    BY <1>2, <2>1
<1>6. With(u.list[h], Behind(u.list[h], i, e), i, e)
  BY <1>1, <1>2, <1>3, BehindIsWith, Zenon
<1>7. u' = [x EXCEPT !.list = [u.list EXCEPT ![h] = Behind(u.list[h], i, e)]]
  BY Zenon DEF InsertAfter, Becomes
<1> HIDE DEF x
<1> QED
  BY <1>1, <1>3, <1>5, <1>6, <1>7, InsertDone, Zenon

LEMMA BeforeInserted ==
  ASSUME Linked(u), NEW h \in Heads, NEW e \in Loose, NEW i \in DOMAIN u.list[h], InsertBefore(h, i, e)
  PROVE  Linked(u')
<1> DEFINE x == IF u.kind = "LIST" THEN LIST_INSERT_BEFORE(u, u.list[h][i], e)
                ELSE TAILQ_INSERT_BEFORE(u, u.list[h][i], e)
<1>1. InNoList(u, e) /\ e \in Elements
  BY LooseIsInNoList DEF InNoList
<1>2. u.list[h] \in Seq(Elements) /\ Len(u.list[h]) \in Nat /\ i \in 1 .. Len(u.list[h])
  BY Numbered
<1>3. i - 1 \in 0 .. Len(u.list[h]) /\ i \in 1 .. Len(u.list[h]) + 1
  BY <1>2
<1>4. u.kind \in Doubly
  BY DEF InsertBefore
<1>5. PutIn(u, x, h, i - 1, e)
  BY <1>1, <1>2, <1>4, BeforePutsIn, Zenon
<1>6. With(u.list[h], Behind(u.list[h], i - 1, e), i - 1, e)
  BY <1>1, <1>2, <1>3, BehindIsWith, Zenon
<1>7. u' = [x EXCEPT !.list = [u.list EXCEPT ![h] = Behind(u.list[h], i - 1, e)]]
  BY Zenon DEF InsertBefore, Becomes
<1> HIDE DEF x
<1> QED
  BY <1>1, <1>3, <1>5, <1>6, <1>7, InsertDone, Zenon

LEMMA CellRemoved ==
  ASSUME Linked(u), NEW h \in Heads, NEW i \in DOMAIN u.list[h], RemoveCell(h, i)
  PROVE  Linked(u')
<1> DEFINE e == u.list[h][i]
           x == CASE u.kind = "SLIST" -> SLIST_REMOVE(u, h, e)
                  [] u.kind = "STAILQ" -> STAILQ_REMOVE(u, h, e)
                  [] u.kind = "LIST" -> LIST_REMOVE(u, e)
                  [] u.kind = "TAILQ" -> TAILQ_REMOVE(u, h, e)
<1>1. /\ u.list[h] \in Seq(Elements) /\ Len(u.list[h]) \in Nat /\ i \in 1 .. Len(u.list[h])
      /\ u.kind \in {"SLIST", "STAILQ", "LIST", "TAILQ"}
  BY Numbered
<1>2. TakenOut(u, x, h, i)
  <2>1. /\ u.kind = "SLIST" => TakenOut(u, SLIST_REMOVE(u, h, e), h, i)
        /\ u.kind = "STAILQ" => TakenOut(u, STAILQ_REMOVE(u, h, e), h, i)
        /\ u.kind = "LIST" => TakenOut(u, LIST_REMOVE(u, e), h, i)
        /\ u.kind = "TAILQ" => TakenOut(u, TAILQ_REMOVE(u, h, e), h, i)
    BY <1>1, RemoveTakesOut, Zenon
  <2> HIDE DEF e
  <2> QED
    BY <1>1, <2>1
<1>3. Without(u.list[h], Dropped(u.list[h], i), i)
  BY <1>1, DroppedIsWithout, Zenon
<1>4. u' = [x EXCEPT !.list = [u.list EXCEPT ![h] = Dropped(u.list[h], i)]]
  BY Zenon DEF RemoveCell, Becomes
<1> HIDE DEF x
<1> QED
  BY <1>1, <1>2, <1>3, <1>4, RemoveDone, ZenonT(30)

LEMMA ListsSwapped ==
  ASSUME Linked(u), NEW h \in Heads, NEW g \in Heads \ {h}, SwapLists(g, h)
  PROVE  Linked(u')
<1> DEFINE x == CASE u.kind = "SLIST" -> SLIST_SWAP(u, g, h)
                  [] u.kind = "STAILQ" -> STAILQ_SWAP(u, g, h)
                  [] u.kind = "LIST" -> LIST_SWAP(u, g, h)
                  [] u.kind = "TAILQ" -> TAILQ_SWAP(u, g, h)
<1>1. u.kind \in {"SLIST", "STAILQ", "LIST", "TAILQ"} /\ g \in Heads /\ g # h
  BY Numbered
<1>2. Swapped(u, x, g, h)
  <2>1. /\ u.kind = "SLIST" => Swapped(u, SLIST_SWAP(u, g, h), g, h)
        /\ u.kind = "STAILQ" => Swapped(u, STAILQ_SWAP(u, g, h), g, h)
        /\ u.kind = "LIST" => Swapped(u, LIST_SWAP(u, g, h), g, h)
        /\ u.kind = "TAILQ" => Swapped(u, TAILQ_SWAP(u, g, h), g, h)
    BY <1>1, SwapSwaps, Zenon
  <2> QED
    BY <1>1, <2>1
<1>3. u' = [x EXCEPT !.list = [u.list EXCEPT ![g] = u.list[h], ![h] = u.list[g]]]
  BY Zenon DEF SwapLists, Becomes
<1> HIDE DEF x
<1> QED
  BY <1>1, <1>2, <1>3, SwapDone, Zenon

\* Nothing changes when the list that is appended has no cells.
LEMMA ListsJoined ==
  ASSUME Linked(u), NEW h \in Heads, NEW g \in Heads \ {h}, Concat(g, h)
  PROVE  Linked(u')
<1> DEFINE x == IF u.kind = "STAILQ" THEN STAILQ_CONCAT(u, g, h) ELSE TAILQ_CONCAT(u, g, h)
           list == [u.list EXCEPT ![g] = @ \o u.list[h], ![h] = <<>>]
<1>1. /\ g \in Heads /\ g # h /\ u.kind \in Tailed /\ u \in Lists
      /\ u.list[g] \in Seq(Elements) /\ u.list[h] \in Seq(Elements) /\ Len(u.list[h]) \in Nat
  BY Numbered DEF Concat, Linked
<1>2. u' = [x EXCEPT !.list = list]
  BY Zenon DEF Concat, Becomes
<1>3. CASE Len(u.list[h]) > 0
  <2>1. PutTogether(u, x, g, h)
    BY <1>1, <1>3, ConcatPutsTogether, Zenon
  <2> HIDE DEF x
  <2> QED
    BY <1>1, <1>2, <1>3, <2>1, JoinDone, Zenon
<1>4. CASE Len(u.list[h]) = 0
  <2>1. u.next[h] = NULL
    BY <1>4, FirstCell, Zenon
  <2>2. x = u
    BY <2>1 DEF STAILQ_CONCAT, TAILQ_CONCAT, EMPTY
  <2>3. u.list[h] = <<>> /\ u.list[g] \o u.list[h] = u.list[g]
    <3>1. u.list[h] = <<>>
      BY <1>1, <1>4
    <3>2. u.list[g] \o <<>> = u.list[g]
      BY <1>1, ConcatEmptySeq
    <3> QED
      BY <3>1, <3>2, Zenon
  <2>4. list = u.list
    <3>1. u.list \in [Heads -> Seq(Elements)]
      BY <1>1 DEF Lists
    <3>2. list = [u.list EXCEPT ![g] = u.list[g], ![h] = u.list[h]]
      BY <2>3
    <3> HIDE DEF list
    <3> QED
      BY <1>1, <3>1, <3>2, Zenon
  <2> HIDE DEF x, list
  <2>5. u' = u
    BY <1>1, <1>2, <2>2, <2>4, Zenon DEF Lists
  <2> QED
    BY <2>5, Zenon
<1> QED
  BY <1>1, <1>3, <1>4

-----------------------------------------------------------------------------
\* QInit: every list is empty.
LEMMA HeadsStartLinked ==
  ASSUME QInit PROVE Linked(u)
<1>1. PICK kind \in Doubly \cup Tailed \cup {"SLIST"} :
        u = [kind |-> kind, next |-> [p \in Places |-> NULL],
             second |-> [p \in Places |-> IF p \in Heads /\ kind \in Tailed THEN p ELSE NULL],
             list |-> [h \in Heads |-> <<>>]]
  BY DEF QInit
<1>2. /\ u.kind = kind /\ kind \in Kinds
      /\ u.next \in Pointers /\ u.second \in Pointers /\ u.list \in [Heads -> Seq(Elements)]
  BY <1>1 DEF Kinds, Pointers
<1>3. u \in Lists
  BY <1>1, <1>2, Zenon DEF Lists
<1>4. \A h \in Heads : u.list[h] = <<>> /\ Len(u.list[h]) = 0
  BY <1>1
<1>5. /\ \A p \in Places : u.next[p] = NULL
      /\ kind \in Tailed => \A h \in Heads : u.second[h] = h
  BY <1>1 DEF Places
<1>6. Apart(u.list)
  BY <1>4 DEF Apart
<1>7. ASSUME NEW h \in Heads
      PROVE  Chained(u, h) /\ ChainedBack(u, h) /\ (kind \in Tailed => EndKnown(u, h))
  <2>1. u.list[h] = <<>> /\ Len(u.list[h]) = 0 /\ h \in Places
    BY <1>4 DEF Places
  <2>2. Node(h, u.list[h], 0) = h /\ Node(h, u.list[h], 0 + 1) = NULL
    BY <2>1 DEF Node
  <2>3. \A i \in 0 .. Len(u.list[h]) : i = 0
    BY <2>1
  <2>4. \A i \in 1 .. Len(u.list[h]) : FALSE
    BY <2>1
  <2>5. Chained(u, h)
    BY <1>5, <2>1, <2>2, <2>3, ZenonT(30) DEF Chained
  <2>6. ChainedBack(u, h)
    BY <2>4 DEF ChainedBack
  <2>7. kind \in Tailed => EndKnown(u, h)
    BY <1>5, <2>1, <2>2, Zenon DEF EndKnown
  <2> QED
    BY <2>5, <2>6, <2>7, Zenon
<1> QED
  BY <1>2, <1>3, <1>6, <1>7, Zenon DEF Linked

LEMMA StepKeepsLinks ==
  ASSUME Linked(u), [QNext]_u
  PROVE  Linked(u')
<1>1. CASE UNCHANGED u
  BY <1>1, Zenon
<1>2. CASE QNext
  <2>1. PICK h \in Heads :
          \/ \E e \in Loose : InsertHead(h, e) \/ InsertTail(h, e)
          \/ \E e \in Loose, i \in DOMAIN u.list[h] : InsertAfter(h, i, e) \/ InsertBefore(h, i, e)
          \/ \E i \in DOMAIN u.list[h] : RemoveCell(h, i)
          \/ \E g \in Heads \ {h} : SwapLists(g, h) \/ Concat(g, h)
    BY <1>2, Zenon DEF QNext
  <2>2. ASSUME NEW e \in Loose, InsertHead(h, e) PROVE Linked(u')
    BY <2>2, HeadInserted
  <2>3. ASSUME NEW e \in Loose, InsertTail(h, e) PROVE Linked(u')
    BY <2>3, TailInserted
  <2>4. ASSUME NEW e \in Loose, NEW i \in DOMAIN u.list[h], InsertAfter(h, i, e) PROVE Linked(u')
    BY <2>4, AfterInserted
  <2>5. ASSUME NEW e \in Loose, NEW i \in DOMAIN u.list[h], InsertBefore(h, i, e) PROVE Linked(u')
    BY <2>5, BeforeInserted
  <2>6. ASSUME NEW i \in DOMAIN u.list[h], RemoveCell(h, i) PROVE Linked(u')
    BY <2>6, CellRemoved
  <2>7. ASSUME NEW g \in Heads \ {h}, SwapLists(g, h) PROVE Linked(u')
    BY <2>7, ListsSwapped
  <2>8. ASSUME NEW g \in Heads \ {h}, Concat(g, h) PROVE Linked(u')
    BY <2>8, ListsJoined
  <2> QED
    BY <2>1, <2>2, <2>3, <2>4, <2>5, <2>6, <2>7, <2>8, Zenon
<1> QED
  BY <1>1, <1>2, Zenon

\* The inductive invariant says what the macros' readers rely on.
LEMMA LinksSuffice ==
  ASSUME Linked(u) PROVE ListsHold
<1>1. ASSUME NEW h \in Heads
      PROVE  /\ u.list[h] \in Seq(Elements) /\ Len(u.list[h]) \in Nat
             /\ DOMAIN u.list[h] = 1 .. Len(u.list[h])
             /\ u.list[h] = <<>> <=> Len(u.list[h]) = 0
             /\ Node(h, u.list[h], 0) = h
             /\ Node(h, u.list[h], Len(u.list[h]) + 1) = NULL
             /\ \A i \in 1 .. Len(u.list[h]) : Node(h, u.list[h], i) = u.list[h][i]
             /\ \A i \in 0 .. Len(u.list[h]) : u.next[Node(h, u.list[h], i)] = Node(h, u.list[h], i + 1)
  <2>1. u.list[h] \in Seq(Elements) /\ Len(u.list[h]) \in Nat /\ DOMAIN u.list[h] = 1 .. Len(u.list[h])
    BY Numbered
  <2>2. u.list[h] = <<>> <=> Len(u.list[h]) = 0
    BY <2>1
  <2>3. /\ Node(h, u.list[h], 0) = h
        /\ Node(h, u.list[h], Len(u.list[h]) + 1) = NULL
        /\ \A i \in 1 .. Len(u.list[h]) : Node(h, u.list[h], i) = u.list[h][i]
    BY <2>1 DEF Node
  <2>4. \A i \in 0 .. Len(u.list[h]) : u.next[Node(h, u.list[h], i)] = Node(h, u.list[h], i + 1)
    BY DEF Linked, Chained
  <2> QED
    BY <2>1, <2>2, <2>3, <2>4, Zenon
<1>2. ListsAreSequences
  <2> SUFFICES ASSUME NEW h \in Heads
               PROVE  /\ u.next[h] = IF u.list[h] = <<>> THEN NULL ELSE u.list[h][1]
                      /\ \A i \in DOMAIN u.list[h] :
                           u.next[u.list[h][i]] = IF i = Len(u.list[h]) THEN NULL ELSE u.list[h][i + 1]
    BY DEF ListsAreSequences
  <2>1. u.next[h] = IF u.list[h] = <<>> THEN NULL ELSE u.list[h][1]
    BY <1>1, FirstCell
  <2>2. ASSUME NEW i \in DOMAIN u.list[h]
        PROVE  u.next[u.list[h][i]] = IF i = Len(u.list[h]) THEN NULL ELSE u.list[h][i + 1]
    <3>1. /\ Len(u.list[h]) \in Nat /\ i \in 1 .. Len(u.list[h])
          /\ Node(h, u.list[h], i) = u.list[h][i]
      BY <1>1
    <3>2. i \in 0 .. Len(u.list[h]) /\ (i # Len(u.list[h]) => i + 1 \in 1 .. Len(u.list[h]))
      BY <3>1
    <3>3. u.next[u.list[h][i]] = Node(h, u.list[h], i + 1)
      BY <1>1, <3>1, <3>2
    <3> QED
      BY <1>1, <3>2, <3>3, ZenonT(30)
  <2> QED
    BY <2>1, <2>2
<1>3. ASSUME u.kind \in Doubly, NEW h \in Heads, NEW i \in 1 .. Len(u.list[h])
      PROVE  u.second[u.list[h][i]] = Node(h, u.list[h], i - 1)
  BY <1>3 DEF Linked, ChainedBack
<1>4. BackLinksHold
  <2> SUFFICES ASSUME u.kind \in Doubly, NEW h \in Heads, NEW i \in DOMAIN u.list[h]
               PROVE  u.second[u.list[h][i]] = IF i = 1 THEN h ELSE u.list[h][i - 1]
    BY DEF BackLinksHold
  <2>1. Len(u.list[h]) \in Nat /\ i \in 1 .. Len(u.list[h])
    BY <1>1
  <2>2. i - 1 = 0 <=> i = 1
    BY <2>1
  <2>3. i # 1 => i - 1 \in 1 .. Len(u.list[h])
    BY <2>1
  <2>4. u.second[u.list[h][i]] = Node(h, u.list[h], i - 1)
    BY <1>3, <2>1
  <2>5. CASE i = 1
    <3>1. Node(h, u.list[h], i - 1) = h
      BY <2>5 DEF Node
    <3> QED
      BY <2>4, <2>5, <3>1
  <2>6. CASE i # 1
    BY <1>1, <2>3, <2>4, <2>6, Zenon
  <2> QED
    BY <2>5, <2>6, Zenon
<1>5. LastIsFound
  <2> SUFFICES ASSUME u.kind \in Tailed, NEW h \in Heads
               PROVE  LET s == u.list[h]
                          last == IF s = <<>> THEN NULL ELSE s[Len(s)]
                      IN  /\ u.next[u.second[h]] = NULL
                          /\ u.kind = "STAILQ" => STAILQ_LAST(u, h) = last
                          /\ u.kind = "TAILQ" =>
                               /\ TAILQ_LAST(u, h) = last
                               /\ \A i \in DOMAIN s : TAILQ_PREV(u, s[i]) = IF i = 1 THEN NULL ELSE s[i - 1]
    BY Zenon DEF LastIsFound
  <2> DEFINE s == u.list[h]
             n == Len(s)
  <2>1. /\ n \in Nat /\ DOMAIN s = 1 .. n /\ (s = <<>> <=> n = 0)
        /\ Node(h, s, 0) = h /\ Node(h, s, n + 1) = NULL
        /\ \A i \in 1 .. n : Node(h, s, i) = s[i]
        /\ \A i \in 0 .. n : u.next[Node(h, s, i)] = Node(h, s, i + 1)
    BY <1>1
  <2>2. u.second[h] = Node(h, s, n)
    BY DEF Linked, EndKnown
  <2>3. u.kind = "TAILQ" => \A i \in 1 .. n : u.second[s[i]] = Node(h, s, i - 1)
    BY <1>3 DEF Doubly
  <2>4. u.next[h] = NULL <=> n = 0
    BY FirstCell
  <2> HIDE DEF s, n
  <2>5. n \in 0 .. n /\ (n # 0 => n \in 1 .. n /\ 1 \in 1 .. n /\ n - 1 \in 0 .. n /\ n - 1 + 1 = n)
    BY <2>1
  <2>6. u.next[u.second[h]] = NULL
    BY <2>1, <2>2, <2>5, Zenon
  <2>7. STAILQ_LAST(u, h) = IF s = <<>> THEN NULL ELSE s[n]
    BY <2>1, <2>2, <2>4, <2>5, Zenon DEF STAILQ_LAST, EMPTY
  <2>8. ASSUME u.kind = "TAILQ" PROVE TAILQ_LAST(u, h) = IF s = <<>> THEN NULL ELSE s[n]
    <3>1. CASE n = 0
      <4>1. u.second[h] = h /\ u.next[h] = NULL
        BY <2>1, <2>2, <2>4, <3>1, Zenon
      <4> QED
        BY <2>1, <3>1, <4>1 DEF TAILQ_LAST
    <3>2. CASE n # 0
      <4>1. u.second[h] = s[n] /\ u.second[s[n]] = Node(h, s, n - 1)
        BY <2>1, <2>2, <2>3, <2>5, <2>8, <3>2, Zenon
      <4>2. u.next[Node(h, s, n - 1)] = s[n]
        BY <2>1, <2>5, <3>2, Zenon
      <4> QED
        BY <2>1, <3>2, <4>1, <4>2, Zenon DEF TAILQ_LAST
    <3> QED
      BY <3>1, <3>2
  <2>9. ASSUME u.kind = "TAILQ", NEW i \in DOMAIN s
        PROVE  TAILQ_PREV(u, s[i]) = IF i = 1 THEN NULL ELSE s[i - 1]
    <3>1. i \in 1 .. n /\ i \in Int
      BY <2>1
    <3>2. u.second[s[i]] = Node(h, s, i - 1)
      BY <2>3, <2>9, <3>1, Zenon
    <3>3. CASE i = 1
      <4>1. Node(h, s, i - 1) = h
        BY <3>3 DEF Node
      <4> QED
        BY <2>6, <3>2, <3>3, <4>1, Zenon DEF TAILQ_PREV
    <3>4. CASE i # 1
      <4>1. i - 1 \in 1 .. n /\ i - 2 \in 0 .. n /\ i - 2 + 1 = i - 1 /\ i - 1 - 1 = i - 2
        BY <2>1, <3>1, <3>4
      <4>2. u.second[s[i]] = s[i - 1]
        BY <2>1, <3>2, <4>1, Zenon
      <4>3. u.second[s[i - 1]] = Node(h, s, i - 2)
        BY <2>3, <2>9, <4>1
      <4>4. u.next[Node(h, s, i - 2)] = s[i - 1]
        BY <2>1, <4>1, Zenon
      <4> QED
        BY <3>4, <4>2, <4>3, <4>4, Zenon DEF TAILQ_PREV
    <3> QED
      BY <3>3, <3>4, Zenon
  <2> QED
    BY <2>6, <2>7, <2>8, <2>9, Zenon DEF s, n
<1> QED
  BY <1>2, <1>4, <1>5, Zenon DEF ListsHold

\* queue.h, for any cells and any number of heads: after any sequence of the macros, FOREACH
\* visits each list's cells in order, the back pointers lead back, and LAST and PREV are right.
THEOREM ListsStaySequences == QSpec => []ListsHold
<1>1. QInit => Linked(u)
  BY HeadsStartLinked
<1>2. Linked(u) /\ [QNext]_u => Linked(u)'
  <2>1. SUFFICES ASSUME Linked(u), [QNext]_u PROVE Linked(u')
    BY Zenon DEF Linked, Chained, ChainedBack, EndKnown
  <2> QED
    BY <2>1, StepKeepsLinks
<1>3. Linked(u) => ListsHold
  BY LinksSuffice
<1> QED
  BY <1>1, <1>2, <1>3, PTL DEF QSpec

=============================================================================
