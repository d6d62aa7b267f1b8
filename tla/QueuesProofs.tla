---------------------------- MODULE QueuesProofs -----------------------------
(***************************************************************************)
(* Proofs about the lists of sys/queue.h, whatever macros work on them: to *)
(* insert, remove, swap or join keeps Linked, the inductive invariant.     *)
(* The operation on sequences is described cell by cell.  MacroProofs      *)
(* shows that every macro is one of these operations.                      *)
(***************************************************************************)
EXTENDS Queues, SequenceTheorems, TLAPS

-----------------------------------------------------------------------------
\* The lists of queue.h.  Place i of a list: 0 is the head, and NULL is behind the last.
Node(h, s, i) == IF i = 0 THEN h ELSE IF i > Len(s) THEN NULL ELSE s[i]

Kinds == Doubly \cup Tailed \cup {"SLIST"}
Pointers == [Places -> Places \cup {NULL}]
Lists == [kind : Kinds, next : Pointers, second : Pointers, list : [Heads -> Seq(Elements)]]

\* A cell is in one list at most, and there once.
Apart(list) ==
  \A g, h \in Heads : \A i \in 1 .. Len(list[g]), j \in 1 .. Len(list[h]) :
    list[g][i] = list[h][j] => g = h /\ i = j

Chained(v, h) ==
  \A i \in 0 .. Len(v.list[h]) : v.next[Node(h, v.list[h], i)] = Node(h, v.list[h], i + 1)

ChainedBack(v, h) ==
  \A i \in 1 .. Len(v.list[h]) : v.second[v.list[h][i]] = Node(h, v.list[h], i - 1)

EndKnown(v, h) == v.second[h] = Node(h, v.list[h], Len(v.list[h]))

\* The inductive invariant: what ListsHold says, and that the lists do not share cells.
Linked(v) ==
  /\ v \in Lists
  /\ Apart(v.list)
  /\ \A h \in Heads :
       /\ Chained(v, h)
       /\ v.kind \in Doubly => ChainedBack(v, h)
       /\ v.kind \in Tailed => EndKnown(v, h)

LEMMA PlacesDiffer ==
  /\ NULL \notin Places
  /\ \A e \in Elements, h \in Heads : e # h /\ e \in Places /\ h \in Places
BY QueuesAssumption DEF Places

LEMMA FirstElement ==
  \A s \in Seq(Elements) : Len(s) # 0 => s[1] \in Elements
OBVIOUS

LEMMA EachElement ==
  \A s \in Seq(Elements) : \A i \in 1 .. Len(s) : s[i] \in Elements
OBVIOUS

LEMMA NodeIsPlace ==
  ASSUME NEW s \in Seq(Elements), NEW h \in Heads, NEW i \in 0 .. Len(s)
  PROVE  /\ Node(h, s, i) \in Places
         /\ i > 0 => Node(h, s, i) \in Elements /\ Node(h, s, i) = s[i]
         /\ i = 0 => Node(h, s, i) = h
         /\ Node(h, s, i + 1) \in Elements \cup {NULL}
         /\ Node(h, s, i + 1) = IF i = Len(s) THEN NULL ELSE s[i + 1]
<1>1. Len(s) \in Nat /\ \A j \in 1 .. Len(s) : s[j] \in Elements
  OBVIOUS
<1>2. i \in Int /\ 0 <= i /\ i <= Len(s)
  BY <1>1
<1>3. i > 0 => i \in 1 .. Len(s)
  BY <1>1, <1>2
<1>4. i # Len(s) => i + 1 \in 1 .. Len(s)
  BY <1>1, <1>2
<1>5. i + 1 # 0 /\ (i + 1 > Len(s) <=> i = Len(s)) /\ ~ (i > Len(s)) /\ (i = 0 \/ i > 0) /\ (i > 0 => i # 0)
  BY <1>1, <1>2
<1> QED
  BY <1>1, <1>3, <1>4, <1>5 DEF Node, Places

LEMMA NodesDiffer ==
  ASSUME NEW v \in Lists, Apart(v.list), NEW g \in Heads, NEW h \in Heads,
         NEW i \in 0 .. Len(v.list[g]), NEW j \in 0 .. Len(v.list[h]),
         Node(g, v.list[g], i) = Node(h, v.list[h], j)
  PROVE  g = h /\ i = j
<1>1. v.list[g] \in Seq(Elements) /\ v.list[h] \in Seq(Elements)
  BY DEF Lists
<1>2. i > 0 /\ j > 0 => i \in 1 .. Len(v.list[g]) /\ j \in 1 .. Len(v.list[h])
  BY <1>1
<1>3. (i = 0 \/ i > 0) /\ (j = 0 \/ j > 0)
  BY <1>1
<1>4. CASE i > 0 /\ j > 0
  <2>1. v.list[g][i] = v.list[h][j]
    BY <1>1, <1>4, NodeIsPlace
  <2> QED
    BY <1>2, <1>4, <2>1 DEF Apart
<1>5. CASE i = 0 /\ j = 0
  BY <1>1, <1>5, NodeIsPlace
<1>6. CASE i = 0 /\ j > 0
  BY <1>1, <1>6, NodeIsPlace, PlacesDiffer
<1>7. CASE i > 0 /\ j = 0
  BY <1>1, <1>7, NodeIsPlace, PlacesDiffer
<1> QED
  BY <1>3, <1>4, <1>5, <1>6, <1>7

\* The cell behind a place is no other cell.
LEMMA CellBehind ==
  ASSUME NEW v \in Lists, Apart(v.list), NEW h \in Heads, NEW i \in 0 .. Len(v.list[h])
  PROVE  \A f \in Heads : \A k \in 1 .. Len(v.list[f]) :
           v.list[f][k] = Node(h, v.list[h], i + 1) => f = h /\ k = i + 1
<1> SUFFICES ASSUME NEW f \in Heads, NEW k \in 1 .. Len(v.list[f]),
                    v.list[f][k] = Node(h, v.list[h], i + 1)
             PROVE  f = h /\ k = i + 1
  OBVIOUS
<1>1. v.list[f] \in Seq(Elements) /\ v.list[h] \in Seq(Elements)
  BY DEF Lists
<1>2. v.list[f][k] \in Elements /\ Len(v.list[h]) \in Nat
  BY <1>1
<1>3. i # Len(v.list[h]) /\ Node(h, v.list[h], i + 1) = v.list[h][i + 1]
  BY <1>1, <1>2, NodeIsPlace, PlacesDiffer
<1>4. i + 1 \in 1 .. Len(v.list[h])
  BY <1>2, <1>3
<1> QED
  BY <1>3, <1>4 DEF Apart

-----------------------------------------------------------------------------
\* What the macros that insert do: cell e goes behind place i of list h.
Inserted(v, w, h, i, e) ==
  /\ w \in Lists /\ w.kind = v.kind
  /\ \A g \in Heads \ {h} : w.list[g] = v.list[g]
  /\ Len(w.list[h]) = Len(v.list[h]) + 1
  /\ \A j \in 1 .. Len(v.list[h]) + 1 :
       w.list[h][j] = IF j <= i THEN v.list[h][j] ELSE IF j = i + 1 THEN e ELSE v.list[h][j - 1]
  /\ \A q \in Places :
       w.next[q] = IF q = Node(h, v.list[h], i) THEN e
                   ELSE IF q = e THEN Node(h, v.list[h], i + 1) ELSE v.next[q]
  /\ v.kind \in Doubly => \A q \in Elements :
       w.second[q] = IF q = e THEN Node(h, v.list[h], i)
                     ELSE IF q = Node(h, v.list[h], i + 1) THEN e ELSE v.second[q]
  /\ v.kind \in Tailed => \A q \in Heads :
       w.second[q] = IF q = h /\ i = Len(v.list[h]) THEN e ELSE v.second[q]

InNoList(v, e) == e \in Elements /\ \A h \in Heads : \A i \in 1 .. Len(v.list[h]) : v.list[h][i] # e

\* The places of the list after the insertion.
LEMMA NodesInserted ==
  ASSUME NEW v, NEW w, Linked(v), NEW h \in Heads, NEW i \in 0 .. Len(v.list[h]), NEW e,
         InNoList(v, e), Inserted(v, w, h, i, e)
  PROVE  /\ \A j \in 0 .. i : Node(h, w.list[h], j) = Node(h, v.list[h], j)
         /\ Node(h, w.list[h], i + 1) = e
         /\ \A j \in i + 2 .. Len(v.list[h]) + 2 : Node(h, w.list[h], j) = Node(h, v.list[h], j - 1)
<1> DEFINE s == v.list[h]
           t == w.list[h]
<1>1. s \in Seq(Elements) /\ t \in Seq(Elements) /\ Len(s) \in Nat /\ Len(t) = Len(s) + 1
  BY DEF Linked, Lists, Inserted
<1>2. \A j \in 1 .. Len(s) + 1 : t[j] = IF j <= i THEN s[j] ELSE IF j = i + 1 THEN e ELSE s[j - 1]
  BY Zenon DEF Inserted
<1>3. i \in Int /\ 0 <= i /\ i <= Len(s)
  BY <1>1
<1> HIDE DEF s, t
<1>4. ASSUME NEW j \in 0 .. i PROVE Node(h, t, j) = Node(h, s, j)
  BY <1>1, <1>2, <1>3 DEF Node
<1>5. Node(h, t, i + 1) = e
  BY <1>1, <1>2, <1>3 DEF Node
<1>6. ASSUME NEW j \in i + 2 .. Len(s) + 2 PROVE Node(h, t, j) = Node(h, s, j - 1)
  BY <1>1, <1>2, <1>3 DEF Node
<1> QED
  BY <1>4, <1>5, <1>6 DEF s, t

LEMMA InsertKeepsLinks ==
  ASSUME NEW v, NEW w, Linked(v), NEW h \in Heads, NEW i \in 0 .. Len(v.list[h]), NEW e,
         InNoList(v, e), Inserted(v, w, h, i, e)
  PROVE  Linked(w)
<1> DEFINE s == v.list[h]
           t == w.list[h]
<1>0. /\ v \in Lists /\ w \in Lists /\ w.kind = v.kind /\ e \in Elements /\ Apart(v.list)
      /\ \A g \in Heads : v.list[g] \in Seq(Elements) /\ Len(v.list[g]) \in Nat
      /\ \A g \in Heads : w.list[g] \in Seq(Elements) /\ Len(w.list[g]) \in Nat
      /\ \A g \in Heads \ {h} : w.list[g] = v.list[g]
      /\ s \in Seq(Elements) /\ t \in Seq(Elements) /\ Len(t) = Len(s) + 1 /\ Len(s) \in Nat
      /\ i \in Int /\ 0 <= i /\ i <= Len(s)
  BY DEF Linked, Lists, Inserted, InNoList
<1>1. \A j \in 1 .. Len(t) : t[j] = IF j <= i THEN s[j] ELSE IF j = i + 1 THEN e ELSE s[j - 1]
  BY <1>0 DEF Inserted
<1>2. /\ \A j \in 0 .. i : Node(h, t, j) = Node(h, s, j)
      /\ Node(h, t, i + 1) = e
      /\ \A j \in i + 2 .. Len(s) + 2 : Node(h, t, j) = Node(h, s, j - 1)
  BY NodesInserted
<1>3. \A g \in Heads : \A j \in 1 .. Len(v.list[g]) : v.list[g][j] # e
  BY DEF InNoList
<1>4. \A g \in Heads : \A j \in 0 .. Len(v.list[g]) : Node(g, v.list[g], j) # e /\ Node(g, v.list[g], j) \in Places
  <2> SUFFICES ASSUME NEW g \in Heads, NEW j \in 0 .. Len(v.list[g])
               PROVE  Node(g, v.list[g], j) # e /\ Node(g, v.list[g], j) \in Places
    OBVIOUS
  <2>1. j = 0 \/ j \in 1 .. Len(v.list[g])
    BY <1>0
  <2> QED
    BY <1>0, <1>3, <2>1, NodeIsPlace, PlacesDiffer
<1>5. Apart(w.list)
  <2> SUFFICES ASSUME NEW f \in Heads, NEW g \in Heads, NEW j \in 1 .. Len(w.list[f]),
                      NEW k \in 1 .. Len(w.list[g]), w.list[f][j] = w.list[g][k]
               PROVE  f = g /\ j = k
    BY DEF Apart
  <2>1. CASE f # h /\ g # h
    <3>1. w.list[f] = v.list[f] /\ w.list[g] = v.list[g]
      BY <1>0, <2>1
    <3>2. j \in 1 .. Len(v.list[f]) /\ k \in 1 .. Len(v.list[g]) /\ v.list[f][j] = v.list[g][k]
      BY <3>1
    <3> QED
      BY <1>0, <3>2 DEF Apart
  <2>2. ASSUME NEW d \in Heads \ {h}, NEW m \in 1 .. Len(w.list[d]), NEW n \in 1 .. Len(t)
        PROVE  w.list[d][m] # t[n]
    <3>1. w.list[d] = v.list[d] /\ m \in 1 .. Len(v.list[d])
      BY <1>0
    <3>2. n <= i => n \in 1 .. Len(s)
      BY <1>0
    <3>3. n > i + 1 => n - 1 \in 1 .. Len(s)
      BY <1>0
    <3>4. n \in Int /\ (n <= i \/ n = i + 1 \/ n > i + 1)
      BY <1>0
    <3>5. \A a \in 1 .. Len(s) : v.list[d][m] # s[a]
      BY <1>0, <3>1 DEF Apart
    <3>6. v.list[d][m] # e
      BY <1>3, <3>1
    <3>7. t[n] = e \/ \E a \in 1 .. Len(s) : t[n] = s[a]
      BY <1>1, <3>2, <3>3, <3>4
    <3> QED
      BY <3>1, <3>5, <3>6, <3>7
  <2>3. CASE f = h /\ g = h
    <3>1. \A a, b \in 1 .. Len(s) : s[a] = s[b] => a = b
      BY <1>0 DEF Apart
    <3>2. \A a \in 1 .. Len(s) : s[a] # e
      BY <1>3
    <3> HIDE DEF s, t
    <3>3. j \in 1 .. Len(t) /\ k \in 1 .. Len(t) /\ t[j] = t[k]
      BY <2>3 DEF t
    <3>4. \A n \in 1 .. Len(t) : \/ n <= i /\ n \in 1 .. Len(s) /\ t[n] = s[n]
                                 \/ n = i + 1 /\ t[n] = e
                                 \/ n > i + 1 /\ n - 1 \in 1 .. Len(s) /\ t[n] = s[n - 1]
      <4> TAKE n \in 1 .. Len(t)
      <4>1. t[n] = IF n <= i THEN s[n] ELSE IF n = i + 1 THEN e ELSE s[n - 1]
        BY <1>1
      <4>2. Len(s) \in Nat /\ Len(t) = Len(s) + 1 /\ i \in Int /\ 0 <= i /\ i <= Len(s)
        BY <1>0
      <4> QED
        BY <4>1, <4>2
    <3>5. j = k
      <4>1. j \in Int /\ k \in Int /\ i \in Int
        BY <1>0, <3>3
      <4>2. CASE j <= i /\ j \in 1 .. Len(s) /\ t[j] = s[j]
        <5>1. CASE k <= i /\ k \in 1 .. Len(s) /\ t[k] = s[k]
          <6>1. j = k
            BY <3>1, <3>3, <4>2, <5>1, Zenon
          <6> QED
            BY <4>1, <4>2, <5>1, <6>1
        <5>2. CASE k = i + 1 /\ t[k] = e
          BY <3>2, <3>3, <4>2, <5>2, Zenon
        <5>3. CASE k > i + 1 /\ k - 1 \in 1 .. Len(s) /\ t[k] = s[k - 1]
          <6>1. j = k - 1
            BY <3>1, <3>3, <4>2, <5>3, Zenon
          <6> QED
            BY <4>1, <4>2, <5>3, <6>1
        <5> QED
          BY <3>3, <3>4, <5>1, <5>2, <5>3
      <4>3. CASE j = i + 1 /\ t[j] = e
        BY <3>2, <3>3, <3>4, <4>1, <4>3, Zenon
      <4>4. CASE j > i + 1 /\ j - 1 \in 1 .. Len(s) /\ t[j] = s[j - 1]
        <5>1. CASE k <= i /\ k \in 1 .. Len(s) /\ t[k] = s[k]
          <6>1. j - 1 = k
            BY <3>1, <3>3, <4>4, <5>1, Zenon
          <6> QED
            BY <4>1, <4>4, <5>1, <6>1
        <5>2. CASE k = i + 1 /\ t[k] = e
          BY <3>2, <3>3, <4>4, <5>2, Zenon
        <5>3. CASE k > i + 1 /\ k - 1 \in 1 .. Len(s) /\ t[k] = s[k - 1]
          <6>1. j - 1 = k - 1
            BY <3>1, <3>3, <4>4, <5>3, Zenon
          <6> QED
            BY <4>1, <4>4, <5>3, <6>1
        <5> QED
          BY <3>3, <3>4, <5>1, <5>2, <5>3
      <4> QED
        BY <3>3, <3>4, <4>2, <4>3, <4>4
    <3> QED
      BY <2>3, <3>5
  <2> QED
    BY <2>1, <2>2, <2>3
<1>6. \A g \in Heads : Chained(w, g)
  <2> SUFFICES ASSUME NEW g \in Heads, NEW j \in 0 .. Len(w.list[g])
               PROVE  w.next[Node(g, w.list[g], j)] = Node(g, w.list[g], j + 1)
    BY DEF Chained
  <2>1. \A q \in Places : w.next[q] = IF q = Node(h, s, i) THEN e
                                      ELSE IF q = e THEN Node(h, s, i + 1) ELSE v.next[q]
    BY DEF Inserted
  <2>2. \A f \in Heads : \A k \in 0 .. Len(v.list[f]) :
          v.next[Node(f, v.list[f], k)] = Node(f, v.list[f], k + 1)
    BY DEF Linked, Chained
  <2>3. CASE g # h
    <3>1. Node(g, v.list[g], j) # Node(h, s, i)
      BY <1>0, <2>3, NodesDiffer
    <3> QED
      BY <1>0, <1>4, <2>1, <2>2, <2>3, <3>1
  <2>4. CASE g = h
    <3>1. CASE j < i
      <4>1. j \in 0 .. i /\ j + 1 \in 0 .. i /\ j \in 0 .. Len(s) /\ j # i
        BY <1>0, <3>1
      <4>2. Node(h, s, j) # Node(h, s, i)
        BY <1>0, <4>1, NodesDiffer
      <4> QED
        BY <1>2, <1>4, <2>1, <2>2, <2>4, <4>1, <4>2
    <3>2. CASE j = i
      <4>1. i \in 0 .. i /\ i \in 0 .. Len(s)
        BY <1>0
      <4> QED
        BY <1>2, <1>4, <2>1, <2>4, <3>2, <4>1
    <3>3. CASE j = i + 1
      <4>1. j + 1 \in i + 2 .. Len(s) + 2 /\ j + 1 - 1 = i + 1
        BY <1>0, <2>4, <3>3
      <4>2. e \in Places /\ e # Node(h, s, i)
        BY <1>0, <1>4, PlacesDiffer
      <4> QED
        BY <1>2, <2>1, <2>4, <3>3, <4>1, <4>2
    <3>4. CASE j > i + 1
      <4>1. /\ j \in i + 2 .. Len(s) + 2 /\ j + 1 \in i + 2 .. Len(s) + 2 /\ j - 1 \in 0 .. Len(s)
            /\ j - 1 # i /\ j + 1 - 1 = j - 1 + 1 /\ j + 1 - 1 = j
        BY <1>0, <2>4, <3>4
      <4>2. Node(h, s, j - 1) # Node(h, s, i)
        BY <1>0, <4>1, NodesDiffer
      <4>3. Node(h, t, j) = Node(h, s, j - 1) /\ Node(h, t, j + 1) = Node(h, s, j - 1 + 1)
        BY <1>2, <4>1
      <4>4. w.next[Node(h, s, j - 1)] = v.next[Node(h, s, j - 1)]
        BY <1>4, <2>1, <4>1, <4>2
      <4> QED
        BY <2>2, <2>4, <4>1, <4>3, <4>4
    <3>5. j < i \/ j = i \/ j = i + 1 \/ j > i + 1
      BY <1>0, <2>4
    <3> QED
      BY <3>1, <3>2, <3>3, <3>4, <3>5
  <2> QED
    BY <2>3, <2>4
<1>7. ASSUME w.kind \in Doubly, NEW g \in Heads PROVE ChainedBack(w, g)
  <2> SUFFICES ASSUME NEW j \in 1 .. Len(w.list[g])
               PROVE  w.second[w.list[g][j]] = Node(g, w.list[g], j - 1)
    BY DEF ChainedBack
  <2>1. \A q \in Elements : w.second[q] = IF q = e THEN Node(h, s, i)
                                          ELSE IF q = Node(h, s, i + 1) THEN e ELSE v.second[q]
    BY <1>0, <1>7 DEF Inserted
  <2>2. \A f \in Heads : \A k \in 1 .. Len(v.list[f]) :
          v.second[v.list[f][k]] = Node(f, v.list[f], k - 1)
    BY <1>0, <1>7 DEF Linked, ChainedBack
  <2>3. \A f \in Heads : \A k \in 1 .. Len(v.list[f]) :
          v.list[f][k] = Node(h, s, i + 1) => f = h /\ k = i + 1
    BY <1>0, CellBehind
  <2>4. CASE g # h
    <3>1. w.list[g] = v.list[g] /\ j \in 1 .. Len(v.list[g]) /\ v.list[g][j] \in Elements
      BY <1>0, <2>4
    <3>2. v.list[g][j] # e /\ v.list[g][j] # Node(h, s, i + 1)
      BY <1>3, <2>3, <2>4, <3>1
    <3>3. w.second[v.list[g][j]] = v.second[v.list[g][j]]
      BY <2>1, <3>1, <3>2
    <3>4. v.second[v.list[g][j]] = Node(g, v.list[g], j - 1)
      BY <2>2, <3>1
    <3> QED
      BY <3>1, <3>3, <3>4
  <2>5. CASE g = h
    <3>1. CASE j <= i
      <4>1. t[j] = s[j] /\ j \in 1 .. Len(s) /\ j - 1 \in 0 .. i /\ s[j] \in Elements /\ j # i + 1
        BY <1>0, <1>1, <2>5, <3>1
      <4>2. w.second[s[j]] = v.second[s[j]]
        BY <1>0, <1>3, <2>1, <2>3, <4>1, Zenon
      <4> QED
        BY <1>0, <1>2, <2>2, <2>5, <4>1, <4>2
    <3>2. CASE j = i + 1
      <4>1. t[j] = e /\ j - 1 = i /\ i \in 0 .. i
        BY <1>0, <1>1, <2>5, <3>2
      <4> QED
        BY <1>0, <1>2, <2>1, <2>5, <4>1
    <3>3. CASE j = i + 2
      <4>1. t[j] = s[i + 1] /\ i + 1 \in 1 .. Len(s) /\ j - 1 = i + 1 /\ s[i + 1] \in Elements /\ i # Len(s)
        <5>1. j \in 1 .. Len(t) /\ j - 1 = i + 1 /\ ~ (j <= i) /\ j # i + 1 /\ i + 1 \in 1 .. Len(s) /\ i # Len(s)
          BY <1>0, <2>5, <3>3
        <5> QED
          BY <1>0, <1>1, <5>1
      <4>2. Node(h, s, i + 1) = s[i + 1]
        BY <1>0, <4>1, NodeIsPlace
      <4> QED
        BY <1>0, <1>2, <1>3, <2>1, <2>5, <4>1, <4>2
    <3>4. CASE j > i + 2
      <4>1. /\ t[j] = s[j - 1] /\ j - 1 \in 1 .. Len(s) /\ s[j - 1] \in Elements /\ j - 1 # i + 1
            /\ j - 1 \in i + 2 .. Len(s) + 2
        BY <1>0, <1>1, <2>5, <3>4
      <4>2. w.second[s[j - 1]] = v.second[s[j - 1]]
        BY <1>0, <1>3, <2>1, <2>3, <4>1, Zenon
      <4>3. v.second[s[j - 1]] = Node(h, s, j - 1 - 1) /\ Node(h, t, j - 1) = Node(h, s, j - 1 - 1)
        BY <1>2, <2>2, <4>1
      <4> QED
        BY <2>5, <4>1, <4>2, <4>3
    <3>5. j <= i \/ j = i + 1 \/ j = i + 2 \/ j > i + 2
      BY <1>0, <2>5
    <3> QED
      BY <3>1, <3>2, <3>3, <3>4, <3>5
  <2> QED
    BY <2>4, <2>5
<1>8. ASSUME w.kind \in Tailed, NEW g \in Heads PROVE EndKnown(w, g)
  <2>1. w.second[g] = IF g = h /\ i = Len(s) THEN e ELSE v.second[g]
    BY <1>0, <1>8 DEF Inserted
  <2>2. v.second[g] = Node(g, v.list[g], Len(v.list[g]))
    BY <1>0, <1>8 DEF Linked, EndKnown
  <2>3. CASE g # h
    BY <1>0, <2>1, <2>2, <2>3 DEF EndKnown
  <2>4. CASE g = h /\ i = Len(s)
    <3>1. Node(h, t, Len(t)) = e
      BY <1>0, <1>2, <2>4
    <3> QED
      BY <2>1, <2>4, <3>1 DEF EndKnown
  <2>5. CASE g = h /\ i # Len(s)
    <3>1. Len(t) \in i + 2 .. Len(s) + 2 /\ Len(t) - 1 = Len(s)
      BY <1>0, <2>5
    <3>2. Node(h, t, Len(t)) = Node(h, s, Len(s))
      BY <1>2, <3>1
    <3> QED
      BY <2>1, <2>2, <2>5, <3>2 DEF EndKnown
  <2> QED
    BY <2>3, <2>4, <2>5
<1> QED
  BY <1>0, <1>5, <1>6, <1>7, <1>8 DEF Linked

-----------------------------------------------------------------------------
\* What the macros that remove do: cell i of list h is passed over.
Removed(v, w, h, i) ==
  /\ w \in Lists /\ w.kind = v.kind
  /\ \A g \in Heads \ {h} : w.list[g] = v.list[g]
  /\ Len(w.list[h]) = Len(v.list[h]) - 1
  /\ \A j \in 1 .. Len(v.list[h]) - 1 :
       w.list[h][j] = IF j < i THEN v.list[h][j] ELSE v.list[h][j + 1]
  /\ \A q \in Places :
       w.next[q] = IF q = Node(h, v.list[h], i - 1) THEN Node(h, v.list[h], i + 1) ELSE v.next[q]
  /\ v.kind \in Doubly => \A q \in Elements :
       w.second[q] = IF q = Node(h, v.list[h], i + 1) THEN Node(h, v.list[h], i - 1) ELSE v.second[q]
  /\ v.kind \in Tailed => \A q \in Heads :
       w.second[q] = IF q = h /\ i = Len(v.list[h]) THEN Node(h, v.list[h], i - 1) ELSE v.second[q]

\* The places of the list after the removal.
LEMMA NodesRemoved ==
  ASSUME NEW v, NEW w, Linked(v), NEW h \in Heads, NEW i \in 1 .. Len(v.list[h]), Removed(v, w, h, i)
  PROVE  /\ \A j \in 0 .. i - 1 : Node(h, w.list[h], j) = Node(h, v.list[h], j)
         /\ \A j \in i .. Len(v.list[h]) : Node(h, w.list[h], j) = Node(h, v.list[h], j + 1)
<1> DEFINE s == v.list[h]
           t == w.list[h]
<1>1. s \in Seq(Elements) /\ t \in Seq(Elements) /\ Len(s) \in Nat /\ Len(t) = Len(s) - 1
  BY DEF Linked, Lists, Removed
<1>2. \A j \in 1 .. Len(s) - 1 : t[j] = IF j < i THEN s[j] ELSE s[j + 1]
  BY Zenon DEF Removed
<1>3. i \in Int /\ 1 <= i /\ i <= Len(s)
  BY <1>1
<1> HIDE DEF s, t
<1>4. ASSUME NEW j \in 0 .. i - 1 PROVE Node(h, t, j) = Node(h, s, j)
  BY <1>1, <1>2, <1>3 DEF Node
<1>5. ASSUME NEW j \in i .. Len(s) PROVE Node(h, t, j) = Node(h, s, j + 1)
  BY <1>1, <1>2, <1>3 DEF Node
<1> QED
  BY <1>4, <1>5 DEF s, t

LEMMA RemoveKeepsLinks ==
  ASSUME NEW v, NEW w, Linked(v), NEW h \in Heads, NEW i \in 1 .. Len(v.list[h]), Removed(v, w, h, i)
  PROVE  Linked(w)
<1> DEFINE s == v.list[h]
           t == w.list[h]
<1>0. /\ v \in Lists /\ w \in Lists /\ w.kind = v.kind /\ Apart(v.list)
      /\ \A g \in Heads : v.list[g] \in Seq(Elements) /\ Len(v.list[g]) \in Nat
      /\ \A g \in Heads \ {h} : w.list[g] = v.list[g]
      /\ s \in Seq(Elements) /\ t \in Seq(Elements) /\ Len(t) = Len(s) - 1 /\ Len(s) \in Nat
      /\ i \in Int /\ 1 <= i /\ i <= Len(s)
  BY DEF Linked, Lists, Removed
<1>a. Apart(v.list)
  BY DEF Linked
<1>1. \A j \in 1 .. Len(t) : t[j] = IF j < i THEN s[j] ELSE s[j + 1]
  BY <1>0 DEF Removed
<1>2. /\ \A j \in 0 .. i - 1 : Node(h, t, j) = Node(h, s, j)
      /\ \A j \in i .. Len(s) : Node(h, t, j) = Node(h, s, j + 1)
  BY NodesRemoved, Zenon
<1>3. \A g \in Heads : \A j \in 0 .. Len(v.list[g]) : Node(g, v.list[g], j) \in Places
  BY <1>0, NodeIsPlace
<1>4. i - 1 \in 0 .. Len(s) /\ i \in 0 .. Len(s) /\ i \in 1 .. Len(s)
  BY <1>0
<1>5. Apart(w.list)
  <2> SUFFICES ASSUME NEW f \in Heads, NEW g \in Heads, NEW j \in 1 .. Len(w.list[f]),
                      NEW k \in 1 .. Len(w.list[g]), w.list[f][j] = w.list[g][k]
               PROVE  f = g /\ j = k
    BY DEF Apart
  <2> DEFINE was(d, n) == IF d = h /\ n >= i THEN n + 1 ELSE n
  <2>1. ASSUME NEW d \in Heads, NEW n \in 1 .. Len(w.list[d])
        PROVE  was(d, n) \in 1 .. Len(v.list[d]) /\ w.list[d][n] = v.list[d][was(d, n)]
    <3>1. CASE d # h
      BY <1>0, <3>1
    <3>2. CASE d = h
      <4>1. n \in 1 .. Len(t) /\ n \in Int
        BY <1>0, <3>2
      <4>2. n < i => was(d, n) = n /\ n \in 1 .. Len(s)
        BY <1>0, <3>2, <4>1
      <4>3. ~ (n < i) => was(d, n) = n + 1 /\ n + 1 \in 1 .. Len(s)
        BY <1>0, <3>2, <4>1
      <4> HIDE DEF was
      <4> QED
        BY <1>1, <3>2, <4>1, <4>2, <4>3
    <3> QED
      BY <3>1, <3>2
  <2>2. f = g /\ was(f, j) = was(g, k)
    <3> HIDE DEF was
    <3>1. /\ was(f, j) \in 1 .. Len(v.list[f]) /\ was(g, k) \in 1 .. Len(v.list[g])
          /\ v.list[f][was(f, j)] = v.list[g][was(g, k)]
      BY <2>1, Zenon
    <3>2. \A x \in 1 .. Len(v.list[f]), y \in 1 .. Len(v.list[g]) :
            v.list[f][x] = v.list[g][y] => f = g /\ x = y
      BY <1>a, Zenon DEF Apart
    <3> QED
      BY <3>1, <3>2, Zenon
  <2>3. j \in Int /\ k \in Int
    OBVIOUS
  <2> QED
    BY <1>0, <2>2, <2>3
<1>6. \A g \in Heads : Chained(w, g)
  <2> SUFFICES ASSUME NEW g \in Heads, NEW j \in 0 .. Len(w.list[g])
               PROVE  w.next[Node(g, w.list[g], j)] = Node(g, w.list[g], j + 1)
    BY DEF Chained
  <2>1. \A q \in Places : w.next[q] = IF q = Node(h, s, i - 1) THEN Node(h, s, i + 1) ELSE v.next[q]
    BY DEF Removed
  <2>2. \A f \in Heads : \A k \in 0 .. Len(v.list[f]) :
          v.next[Node(f, v.list[f], k)] = Node(f, v.list[f], k + 1)
    BY DEF Linked, Chained
  <2>3. CASE g # h
    <3>1. j \in 0 .. Len(v.list[g]) /\ w.list[g] = v.list[g]
      BY <1>0, <2>3
    <3>2. Node(g, v.list[g], j) # Node(h, s, i - 1)
      BY <1>0, <1>4, <2>3, <3>1, NodesDiffer
    <3> QED
      BY <1>3, <2>1, <2>2, <3>1, <3>2
  <2>4. CASE g = h
    <3>1. CASE j < i - 1
      <4>1. j \in 0 .. i - 1 /\ j + 1 \in 0 .. i - 1 /\ j \in 0 .. Len(s) /\ j # i - 1
        BY <1>0, <3>1
      <4>2. Node(h, s, j) # Node(h, s, i - 1)
        BY <1>0, <1>4, <4>1, NodesDiffer
      <4> QED
        BY <1>2, <1>3, <2>1, <2>2, <2>4, <4>1, <4>2
    <3>2. CASE j = i - 1
      <4>1. j \in 0 .. i - 1 /\ j + 1 = i /\ i \in i .. Len(s) /\ j \in 0 .. Len(s)
        BY <1>0, <3>2
      <4>2. Node(h, t, j) = Node(h, s, i - 1) /\ Node(h, t, j + 1) = Node(h, s, i + 1)
        BY <1>2, <3>2, <4>1
      <4> QED
        BY <1>3, <1>4, <2>1, <2>4, <4>2
    <3>3. CASE j >= i
      <4>1. /\ j \in i .. Len(s) /\ j + 1 \in i .. Len(s) /\ j + 1 \in 0 .. Len(s) /\ j + 1 # i - 1
        BY <1>0, <2>4, <3>3
      <4>2. Node(h, s, j + 1) # Node(h, s, i - 1)
        BY <1>0, <1>4, <4>1, NodesDiffer
      <4>3. Node(h, t, j) = Node(h, s, j + 1) /\ Node(h, t, j + 1) = Node(h, s, j + 1 + 1)
        BY <1>2, <4>1
      <4>4. w.next[Node(h, s, j + 1)] = v.next[Node(h, s, j + 1)]
        BY <1>3, <2>1, <4>1, <4>2
      <4> QED
        BY <2>2, <2>4, <4>1, <4>3, <4>4
    <3>4. j < i - 1 \/ j = i - 1 \/ j >= i
      BY <1>0, <2>4
    <3> QED
      BY <3>1, <3>2, <3>3, <3>4
  <2> QED
    BY <2>3, <2>4
<1>7. ASSUME w.kind \in Doubly, NEW g \in Heads PROVE ChainedBack(w, g)
  <2> SUFFICES ASSUME NEW j \in 1 .. Len(w.list[g])
               PROVE  w.second[w.list[g][j]] = Node(g, w.list[g], j - 1)
    BY DEF ChainedBack
  <2>1. \A q \in Elements :
          w.second[q] = IF q = Node(h, s, i + 1) THEN Node(h, s, i - 1) ELSE v.second[q]
    BY <1>0, <1>7 DEF Removed
  <2>2. \A f \in Heads : \A k \in 1 .. Len(v.list[f]) :
          v.second[v.list[f][k]] = Node(f, v.list[f], k - 1)
    BY <1>0, <1>7 DEF Linked, ChainedBack
  <2>3. \A f \in Heads : \A k \in 1 .. Len(v.list[f]) :
          v.list[f][k] = Node(h, s, i + 1) => f = h /\ k = i + 1
    BY <1>0, <1>4, CellBehind
  <2>4. CASE g # h
    <3>1. w.list[g] = v.list[g] /\ j \in 1 .. Len(v.list[g]) /\ v.list[g][j] \in Elements
      BY <1>0, <2>4
    <3>2. v.list[g][j] # Node(h, s, i + 1)
      BY <2>3, <2>4, <3>1
    <3> QED
      BY <2>1, <2>2, <3>1, <3>2, Zenon
  <2>5. CASE g = h
    <3>0. j \in 1 .. Len(t) /\ j \in Int
      BY <1>0, <2>5
    <3>1. CASE j < i
      <4>1. t[j] = s[j] /\ j \in 1 .. Len(s) /\ j - 1 \in 0 .. i - 1 /\ s[j] \in Elements /\ j # i + 1
        BY <1>0, <1>1, <3>0, <3>1
      <4>2. w.second[s[j]] = v.second[s[j]]
        BY <1>0, <2>1, <2>3, <4>1, Zenon
      <4> QED
        BY <1>0, <1>2, <2>2, <2>5, <4>1, <4>2
    <3>2. CASE j = i
      <4>1. i + 1 \in 1 .. Len(s) /\ j - 1 \in 0 .. i - 1 /\ j - 1 = i - 1 /\ i # Len(s) /\ ~ (j < i)
        BY <1>0, <3>0, <3>2
      <4>2. t[j] = s[i + 1] /\ s[i + 1] \in Elements
        BY <1>0, <1>1, <3>0, <3>2, <4>1
      <4>3. Node(h, s, i + 1) = s[i + 1]
        BY <1>0, <1>4, <4>1, NodeIsPlace
      <4> QED
        BY <1>2, <2>1, <2>5, <4>1, <4>2, <4>3
    <3>3. CASE j > i
      <4>1. j + 1 \in 1 .. Len(s) /\ j + 1 # i + 1 /\ ~ (j < i) /\ j - 1 \in i .. Len(s) /\ j + 1 - 1 = j - 1 + 1
        BY <1>0, <3>0, <3>3
      <4>2. t[j] = s[j + 1] /\ s[j + 1] \in Elements
        BY <1>0, <1>1, <3>0, <4>1
      <4>3. w.second[s[j + 1]] = v.second[s[j + 1]]
        BY <1>0, <2>1, <2>3, <4>1, <4>2, Zenon
      <4>4. v.second[s[j + 1]] = Node(h, s, j + 1 - 1) /\ Node(h, t, j - 1) = Node(h, s, j - 1 + 1)
        BY <1>2, <2>2, <4>1, SMTT(30)
      <4> QED
        BY <2>5, <4>1, <4>2, <4>3, <4>4
    <3>4. j < i \/ j = i \/ j > i
      BY <1>0, <3>0
    <3> QED
      BY <3>1, <3>2, <3>3, <3>4
  <2> QED
    BY <2>4, <2>5
<1>8. ASSUME w.kind \in Tailed, NEW g \in Heads PROVE EndKnown(w, g)
  <2>1. w.second[g] = IF g = h /\ i = Len(s) THEN Node(h, s, i - 1) ELSE v.second[g]
    BY <1>0, <1>8 DEF Removed
  <2>2. v.second[g] = Node(g, v.list[g], Len(v.list[g]))
    BY <1>0, <1>8 DEF Linked, EndKnown
  <2>3. CASE g # h
    BY <1>0, <2>1, <2>2, <2>3 DEF EndKnown
  <2>4. CASE g = h /\ i = Len(s)
    <3>1. Len(t) \in 0 .. i - 1 /\ Len(t) = i - 1
      BY <1>0, <2>4
    <3> QED
      BY <1>2, <2>1, <2>4, <3>1 DEF EndKnown
  <2>5. CASE g = h /\ i # Len(s)
    <3>1. Len(t) \in i .. Len(s) /\ Len(t) + 1 = Len(s)
      BY <1>0, <2>5
    <3>2. Node(h, t, Len(t)) = Node(h, s, Len(s))
      BY <1>2, <3>1
    <3> QED
      BY <2>1, <2>2, <2>5, <3>2 DEF EndKnown
  <2> QED
    BY <2>3, <2>4, <2>5
<1> QED
  BY <1>0, <1>5, <1>6, <1>7, <1>8 DEF Linked

-----------------------------------------------------------------------------
\* What the macros that swap do for one head: list b is now behind head a.
Moved(v, w, a, b) ==
  /\ w.list[a] = v.list[b] /\ w.next[a] = v.next[b]
  /\ \A j \in 1 .. Len(v.list[b]) : w.next[v.list[b][j]] = v.next[v.list[b][j]]
  /\ v.kind \in Doubly =>
       /\ Len(v.list[b]) > 0 => w.second[v.list[b][1]] = a
       /\ \A j \in 2 .. Len(v.list[b]) : w.second[v.list[b][j]] = v.second[v.list[b][j]]
  /\ v.kind \in Tailed => w.second[a] = IF Len(v.list[b]) = 0 THEN a ELSE v.second[b]

Other(g, h, a) == IF a = g THEN h ELSE IF a = h THEN g ELSE a

LEMMA MovedIsLinked ==
  ASSUME NEW v, NEW w, Linked(v), w \in Lists, w.kind = v.kind,
         NEW a \in Heads, NEW b \in Heads, Moved(v, w, a, b)
  PROVE  /\ Chained(w, a)
         /\ w.kind \in Doubly => ChainedBack(w, a)
         /\ w.kind \in Tailed => EndKnown(w, a)
<1> DEFINE s == v.list[b]
<1>0. v \in Lists /\ w.list[a] = s /\ s \in Seq(Elements) /\ Len(s) \in Nat
  BY DEF Linked, Lists, Moved
<1>1. \A j \in 1 .. Len(s) + 1 : Node(a, s, j) = Node(b, s, j)
  BY <1>0 DEF Node
<1>2. ASSUME NEW j \in 0 .. Len(s) PROVE w.next[Node(a, s, j)] = Node(a, s, j + 1)
  <2>1. j + 1 \in 1 .. Len(s) + 1 /\ j \in Int
    BY <1>0
  <2>2. v.next[Node(b, s, j)] = Node(b, s, j + 1)
    BY DEF Linked, Chained
  <2>3. CASE j = 0
    <3>1. Node(a, s, j) = a /\ Node(b, s, j) = b
      BY <2>3 DEF Node
    <3>2. w.next[a] = v.next[b]
      BY DEF Moved
    <3> QED
      BY <1>1, <2>1, <2>2, <3>1, <3>2
  <2>4. CASE j # 0
    <3>1. j \in 1 .. Len(s) /\ j \in 1 .. Len(s) + 1 /\ j > 0
      BY <1>0, <2>4
    <3>2. Node(b, s, j) = s[j] /\ Node(a, s, j) = s[j]
      BY <1>0, <3>1, NodeIsPlace
    <3>3. w.next[s[j]] = v.next[s[j]]
      BY <3>1 DEF Moved
    <3> QED
      BY <1>1, <2>1, <2>2, <3>2, <3>3
  <2> QED
    BY <2>3, <2>4
<1>3. ASSUME w.kind \in Doubly, NEW j \in 1 .. Len(s) PROVE w.second[s[j]] = Node(a, s, j - 1)
  <2>1. v.second[s[j]] = Node(b, s, j - 1)
    BY <1>3 DEF Linked, ChainedBack
  <2>2. CASE j = 1
    <3>1. w.second[s[1]] = a
      BY <1>0, <1>3, <2>2 DEF Moved
    <3>2. j - 1 = 0
      BY <2>2
    <3> QED
      BY <2>2, <3>1, <3>2 DEF Node
  <2>3. CASE j # 1
    <3>1. j \in 2 .. Len(s) /\ j - 1 \in 1 .. Len(s) + 1
      BY <1>0, <2>3
    <3>2. w.second[s[j]] = v.second[s[j]]
      BY <1>3, <3>1 DEF Moved
    <3> QED
      BY <1>1, <2>1, <3>1, <3>2
  <2> QED
    BY <2>2, <2>3
<1>4. ASSUME w.kind \in Tailed PROVE w.second[a] = Node(a, s, Len(s))
  <2>1. w.second[a] = IF Len(s) = 0 THEN a ELSE v.second[b]
    BY <1>4 DEF Moved
  <2>2. v.second[b] = Node(b, s, Len(s))
    BY <1>4 DEF Linked, EndKnown
  <2>3. CASE Len(s) = 0
    BY <2>1, <2>3 DEF Node
  <2>4. CASE Len(s) # 0
    <3>1. Len(s) \in 1 .. Len(s) + 1
      BY <1>0, <2>4
    <3> QED
      BY <1>1, <2>1, <2>2, <2>4, <3>1
  <2> QED
    BY <2>3, <2>4
<1> QED
  BY <1>0, <1>2, <1>3, <1>4 DEF Chained, ChainedBack, EndKnown

LEMMA SwapKeepsLinks ==
  ASSUME NEW v, NEW w, Linked(v), w \in Lists, w.kind = v.kind, NEW g \in Heads, NEW h \in Heads,
         \A a \in Heads : Moved(v, w, a, Other(g, h, a))
  PROVE  Linked(w)
<1>1. \A a \in Heads : Other(g, h, a) \in Heads /\ Other(g, h, Other(g, h, a)) = a
  BY DEF Other
<1>2. Apart(w.list)
  <2> SUFFICES ASSUME NEW a \in Heads, NEW b \in Heads, NEW i \in 1 .. Len(w.list[a]),
                      NEW j \in 1 .. Len(w.list[b]), w.list[a][i] = w.list[b][j]
               PROVE  a = b /\ i = j
    BY DEF Apart
  <2> DEFINE c == Other(g, h, a)
             d == Other(g, h, b)
  <2>1. w.list[a] = v.list[c] /\ w.list[b] = v.list[d] /\ c \in Heads /\ d \in Heads
    BY <1>1 DEF Moved
  <2>2. Other(g, h, c) = a /\ Other(g, h, d) = b
    BY <1>1
  <2> HIDE DEF c, d
  <2>3. i \in 1 .. Len(v.list[c]) /\ j \in 1 .. Len(v.list[d]) /\ v.list[c][i] = v.list[d][j]
    BY <2>1
  <2>4. c = d /\ i = j
    BY <2>1, <2>3 DEF Linked, Apart
  <2> QED
    BY <2>2, <2>4
<1>3. ASSUME NEW a \in Heads
      PROVE  /\ Chained(w, a)
             /\ w.kind \in Doubly => ChainedBack(w, a)
             /\ w.kind \in Tailed => EndKnown(w, a)
  BY <1>1, MovedIsLinked
<1> QED
  BY <1>2, <1>3 DEF Linked

-----------------------------------------------------------------------------
\* What the macros that concatenate do: the cells of list h go behind those of list g.
Joined(v, w, g, h) ==
  /\ w \in Lists /\ w.kind = v.kind
  /\ \A f \in Heads \ {g, h} : w.list[f] = v.list[f]
  /\ Len(w.list[h]) = 0 /\ Len(w.list[g]) = Len(v.list[g]) + Len(v.list[h])
  /\ \A j \in 1 .. Len(v.list[g]) + Len(v.list[h]) :
       w.list[g][j] = IF j <= Len(v.list[g]) THEN v.list[g][j] ELSE v.list[h][j - Len(v.list[g])]
  /\ \A q \in Places :
       w.next[q] = IF q = Node(g, v.list[g], Len(v.list[g])) THEN v.list[h][1]
                   ELSE IF q = h THEN NULL ELSE v.next[q]
  /\ v.kind \in Doubly => \A q \in Elements :
       w.second[q] = IF q = v.list[h][1] THEN Node(g, v.list[g], Len(v.list[g])) ELSE v.second[q]
  /\ v.kind \in Tailed => \A q \in Heads :
       w.second[q] = IF q = g THEN v.second[h] ELSE IF q = h THEN h ELSE v.second[q]

LEMMA JoinKeepsLinks ==
  ASSUME NEW v, NEW w, Linked(v), NEW g \in Heads, NEW h \in Heads, g # h, Len(v.list[h]) > 0,
         Joined(v, w, g, h)
  PROVE  Linked(w)
<1> DEFINE s == v.list[g]
           r == v.list[h]
           t == w.list[g]
           m == Len(s)
           n == Len(r)
<1>0. /\ v \in Lists /\ w \in Lists /\ w.kind = v.kind /\ Apart(v.list)
      /\ \A f \in Heads : v.list[f] \in Seq(Elements) /\ Len(v.list[f]) \in Nat
      /\ \A f \in Heads \ {g, h} : w.list[f] = v.list[f]
      /\ s \in Seq(Elements) /\ r \in Seq(Elements) /\ t \in Seq(Elements)
      /\ w.list[h] \in Seq(Elements) /\ Len(w.list[h]) = 0
      /\ m \in Nat /\ n \in Nat /\ n > 0 /\ Len(t) = m + n
  BY DEF Linked, Lists, Joined
<1>a. Apart(v.list)
  BY DEF Linked
<1>n. /\ m \in Nat /\ n \in Nat /\ n > 0 /\ Len(t) = m + n /\ Len(s) = m /\ Len(r) = n
      /\ Len(v.list[g]) = m /\ Len(v.list[h]) = n /\ Len(w.list[g]) = m + n
  BY <1>0
<1>1. \A j \in 1 .. m + n : t[j] = IF j <= m THEN s[j] ELSE r[j - m]
  BY Zenon DEF Joined
<1> HIDE DEF m, n
<1>2. /\ \A j \in 0 .. m : Node(g, t, j) = Node(g, s, j)
      /\ \A j \in m + 1 .. m + n + 1 : Node(g, t, j) = Node(h, r, j - m)
  <2> HIDE DEF s, r, t
  <2>1. m \in Nat /\ n \in Nat /\ n > 0 /\ Len(t) = m + n /\ Len(s) = m /\ Len(r) = n
    BY <1>n
  <2>2. ASSUME NEW j \in 0 .. m PROVE Node(g, t, j) = Node(g, s, j)
    BY <1>1, <2>1 DEF Node
  <2>3. ASSUME NEW j \in m + 1 .. m + n + 1 PROVE Node(g, t, j) = Node(h, r, j - m)
    <3>1. j \in Int /\ j # 0 /\ j - m \in Int /\ j - m # 0
      BY <2>1
    <3>2. CASE j = m + n + 1
      BY <2>1, <3>2 DEF Node
    <3>3. CASE j # m + n + 1
      BY <1>1, <2>1, <3>1, <3>3 DEF Node
    <3> QED
      BY <3>2, <3>3
  <2> QED
    BY <2>2, <2>3
<1>3. \A f \in Heads : \A j \in 0 .. Len(v.list[f]) : Node(f, v.list[f], j) \in Places
  BY <1>0, NodeIsPlace
<1>4. r[1] \in Elements /\ 1 \in 1 .. n /\ m \in 0 .. m /\ 0 \in 0 .. n
  BY <1>0, <1>n
<1>5. Apart(w.list)
  <2> SUFFICES ASSUME NEW e \in Heads, NEW f \in Heads, NEW j \in 1 .. Len(w.list[e]),
                      NEW k \in 1 .. Len(w.list[f]), w.list[e][j] = w.list[f][k]
               PROVE  e = f /\ j = k
    BY DEF Apart
  <2> DEFINE hd(d, i) == IF d = g /\ i > m THEN h ELSE d
             at(d, i) == IF d = g /\ i > m THEN i - m ELSE i
  <2>1. ASSUME NEW d \in Heads, NEW i \in 1 .. Len(w.list[d])
        PROVE  /\ d # h /\ hd(d, i) \in Heads /\ at(d, i) \in 1 .. Len(v.list[hd(d, i)])
               /\ w.list[d][i] = v.list[hd(d, i)][at(d, i)]
    <3>1. CASE d = h
      BY <1>0, <1>n, <3>1
    <3>2. CASE d # g /\ d # h
      BY <1>0, <1>n, <3>2, Zenon
    <3>3. CASE d = g
      <4>1. i \in 1 .. m + n /\ i \in Int
        BY <1>n, <3>3
      <4>2. i <= m => hd(d, i) = g /\ at(d, i) = i /\ i \in 1 .. m
        BY <1>0, <1>n, <3>3, <4>1
      <4>3. ~ (i <= m) => hd(d, i) = h /\ at(d, i) = i - m /\ i - m \in 1 .. n
        BY <1>n, <3>3, <4>1
      <4>4. t[i] = IF i <= m THEN s[i] ELSE r[i - m]
        BY <1>1, <4>1
      <4> HIDE DEF hd, at
      <4> QED
        BY <1>n, <3>3, <4>2, <4>3, <4>4, Zenon
    <3> QED
      BY <3>1, <3>2, <3>3
  <2>2. hd(e, j) = hd(f, k) /\ at(e, j) = at(f, k)
    <3> HIDE DEF hd, at
    <3>1. /\ hd(e, j) \in Heads /\ at(e, j) \in 1 .. Len(v.list[hd(e, j)])
          /\ hd(f, k) \in Heads /\ at(f, k) \in 1 .. Len(v.list[hd(f, k)])
          /\ v.list[hd(e, j)][at(e, j)] = v.list[hd(f, k)][at(f, k)]
      BY <2>1, Zenon
    <3>2. \A x \in 1 .. Len(v.list[hd(e, j)]), y \in 1 .. Len(v.list[hd(f, k)]) :
            v.list[hd(e, j)][x] = v.list[hd(f, k)][y] => hd(e, j) = hd(f, k) /\ x = y
      BY <1>a, <3>1, Zenon DEF Apart
    <3> QED
      BY <3>1, <3>2, Zenon
  <2>3. j \in Int /\ k \in Int /\ e # h /\ f # h
    BY <2>1
  <2>4. e = f
    BY <2>2, <2>3, Zenon
  <2>5. \A x, y, z \in Int : x - z = y - z => x = y
    OBVIOUS
  <2>6. m \in Int
    BY <1>n
  <2> QED
    BY <2>2, <2>3, <2>4, <2>5, <2>6, Zenon
<1>6. \A f \in Heads : Chained(w, f)
  <2> SUFFICES ASSUME NEW f \in Heads, NEW j \in 0 .. Len(w.list[f])
               PROVE  w.next[Node(f, w.list[f], j)] = Node(f, w.list[f], j + 1)
    BY DEF Chained
  <2>1. \A q \in Places : w.next[q] = IF q = Node(g, s, m) THEN r[1] ELSE IF q = h THEN NULL ELSE v.next[q]
    BY DEF Joined, m
  <2>2. \A d \in Heads : \A k \in 0 .. Len(v.list[d]) :
          v.next[Node(d, v.list[d], k)] = Node(d, v.list[d], k + 1)
    BY DEF Linked, Chained
  <2>3. \A d \in Heads : \A k \in 0 .. Len(v.list[d]) :
          Node(d, v.list[d], k) = Node(g, s, m) => d = g /\ k = m
    BY <1>0, <1>n, <1>4, NodesDiffer
  <2>4. \A d \in Heads : \A k \in 0 .. Len(v.list[d]) :
          Node(d, v.list[d], k) = h => d = h /\ k = 0
    <3>1. h = Node(h, r, 0)
      BY DEF Node
    <3> QED
      BY <1>0, <1>n, <1>4, <3>1, NodesDiffer
  <2>5. CASE f # g /\ f # h
    <3>1. j \in 0 .. Len(v.list[f]) /\ w.list[f] = v.list[f]
      BY <1>0, <1>n, <2>5
    <3>2. Node(f, v.list[f], j) # Node(g, s, m) /\ Node(f, v.list[f], j) # h
      BY <2>3, <2>4, <2>5, <3>1
    <3> QED
      BY <1>3, <2>1, <2>2, <3>1, <3>2
  <2>6. CASE f = h
    <3>1. j = 0 /\ j + 1 > Len(w.list[h]) /\ j + 1 # 0
      BY <1>0, <1>n, <2>6
    <3>2. Node(h, w.list[h], j) = h /\ Node(h, w.list[h], j + 1) = NULL
      BY <3>1 DEF Node
    <3>3. h # Node(g, s, m) /\ h \in Places
      BY <1>4, <1>n, <2>4, PlacesDiffer
    <3> QED
      BY <2>1, <2>6, <3>2, <3>3
  <2>7. CASE f = g
    <3>0. j \in 0 .. m + n /\ j \in Int
      BY <1>n, <2>7
    <3>1. CASE j < m
      <4>1. j \in 0 .. m /\ j + 1 \in 0 .. m /\ j # m
        BY <1>0, <1>n, <3>0, <3>1
      <4>2. Node(g, s, j) # Node(g, s, m) /\ Node(g, s, j) # h /\ Node(g, s, j) \in Places
        BY <1>3, <1>n, <2>3, <2>4, <4>1
      <4> QED
        BY <1>2, <1>n, <2>1, <2>2, <2>7, <4>1, <4>2
    <3>2. CASE j = m
      <4>1. j + 1 \in m + 1 .. m + n + 1 /\ j + 1 - m = 1 /\ 1 # 0 /\ ~ (1 > n)
        BY <1>n, <3>2
      <4>2. Node(g, t, j + 1) = r[1]
        BY <1>2, <1>n, <4>1 DEF Node
      <4>3. Node(g, t, j) = Node(g, s, m) /\ Node(g, s, m) \in Places
        BY <1>2, <1>3, <1>4, <1>n, <3>2
      <4> QED
        BY <2>1, <2>7, <4>2, <4>3
    <3>3. CASE j > m
      <4>1. /\ j \in m + 1 .. m + n + 1 /\ j + 1 \in m + 1 .. m + n + 1 /\ j - m \in 0 .. n /\ j - m # 0
            /\ j + 1 - m = j - m + 1
        BY <1>n, <3>0, <3>3
      <4>2. Node(h, r, j - m) # Node(g, s, m) /\ Node(h, r, j - m) # h /\ Node(h, r, j - m) \in Places
        BY <1>3, <1>n, <2>3, <2>4, <4>1
      <4>3. Node(g, t, j) = Node(h, r, j - m) /\ Node(g, t, j + 1) = Node(h, r, j - m + 1)
        BY <1>2, <1>n, <3>0, <4>1
      <4>4. w.next[Node(h, r, j - m)] = v.next[Node(h, r, j - m)]
        BY <2>1, <4>2
      <4> QED
        BY <1>n, <2>2, <2>7, <4>1, <4>3, <4>4
    <3> QED
      BY <1>0, <1>n, <3>0, <3>1, <3>2, <3>3
  <2> QED
    BY <2>5, <2>6, <2>7
<1>7. ASSUME w.kind \in Doubly, NEW f \in Heads PROVE ChainedBack(w, f)
  <2> SUFFICES ASSUME NEW j \in 1 .. Len(w.list[f])
               PROVE  w.second[w.list[f][j]] = Node(f, w.list[f], j - 1)
    BY DEF ChainedBack
  <2>1. \A q \in Elements : w.second[q] = IF q = r[1] THEN Node(g, s, m) ELSE v.second[q]
    BY <1>0, <1>n, <1>7 DEF Joined, m
  <2>2. \A d \in Heads : \A k \in 1 .. Len(v.list[d]) :
          v.second[v.list[d][k]] = Node(d, v.list[d], k - 1)
    BY <1>0, <1>n, <1>7 DEF Linked, ChainedBack
  <2>3. \A d \in Heads : \A k \in 1 .. Len(v.list[d]) : v.list[d][k] = r[1] => d = h /\ k = 1
    <3>1. 1 \in 1 .. Len(v.list[h]) /\ r[1] = v.list[h][1]
      BY <1>n, <1>4
    <3>2. \A d \in Heads : \A k \in 1 .. Len(v.list[d]), i \in 1 .. Len(v.list[h]) :
            v.list[d][k] = v.list[h][i] => d = h /\ k = i
      BY <1>a, Zenon DEF Apart
    <3> QED
      BY <3>1, <3>2, Zenon
  <2>4. CASE f # g /\ f # h
    <3>1. w.list[f] = v.list[f] /\ j \in 1 .. Len(v.list[f]) /\ v.list[f][j] \in Elements
      BY <1>0, <1>n, <2>4
    <3>2. v.list[f][j] # r[1]
      BY <2>3, <2>4, <3>1
    <3> QED
      BY <2>1, <2>2, <3>1, <3>2, Zenon
  <2>5. CASE f = h
    BY <1>0, <1>n, <2>5
  <2>6. CASE f = g
    <3>0. j \in 1 .. m + n /\ j \in Int
      BY <1>n, <2>6
    <3>1. CASE j <= m
      <4>1. j \in 1 .. m /\ j - 1 \in 0 .. m
        BY <1>0, <1>n, <3>0, <3>1
      <4>2. t[j] = s[j] /\ s[j] \in Elements
        BY <1>0, <1>1, <1>n, <3>0, <3>1, <4>1, EachElement, Zenon
      <4>3. s[j] # r[1]
        BY <1>n, <2>3, <4>1
      <4> QED
        BY <1>2, <1>n, <2>1, <2>2, <2>6, <4>1, <4>2, <4>3, Zenon
    <3>2. CASE j = m + 1
      <4>1. ~ (j <= m) /\ j - m = 1 /\ j - 1 = m
        BY <1>0, <1>n, <3>2
      <4>2. t[j] = r[1]
        BY <1>1, <3>0, <4>1
      <4> QED
        BY <1>2, <1>4, <2>1, <2>6, <4>1, <4>2, Zenon
    <3>3. CASE j > m + 1
      <4>1. ~ (j <= m) /\ j - m \in 1 .. n /\ j - m # 1 /\ j - 1 \in m + 1 .. m + n + 1 /\ j - 1 - m = j - m - 1
        BY <1>n, <3>0, <3>3
      <4>2. t[j] = r[j - m] /\ r[j - m] \in Elements
        BY <1>0, <1>n, <1>1, <3>0, <4>1
      <4>3. r[j - m] # r[1]
        BY <1>n, <2>3, <4>1, Zenon
      <4>4. v.second[r[j - m]] = Node(h, r, j - m - 1) /\ Node(g, t, j - 1) = Node(h, r, j - m - 1)
        BY <1>2, <1>n, <2>2, <4>1, Zenon
      <4> QED
        BY <2>1, <2>6, <4>2, <4>3, <4>4
    <3> QED
      BY <1>n, <3>0, <3>1, <3>2, <3>3
  <2> QED
    BY <2>4, <2>5, <2>6
<1>8. ASSUME w.kind \in Tailed, NEW f \in Heads PROVE EndKnown(w, f)
  <2>1. w.second[f] = IF f = g THEN v.second[h] ELSE IF f = h THEN h ELSE v.second[f]
    BY <1>0, <1>n, <1>8 DEF Joined, m
  <2>2. v.second[f] = Node(f, v.list[f], Len(v.list[f])) /\ v.second[h] = Node(h, r, n)
    BY <1>0, <1>n, <1>8 DEF Linked, EndKnown, n
  <2>3. CASE f # g /\ f # h
    BY <1>0, <1>n, <2>1, <2>2, <2>3 DEF EndKnown
  <2>4. CASE f = h
    BY <1>0, <1>n, <2>1, <2>4 DEF EndKnown, Node
  <2>5. CASE f = g
    <3>1. m + n \in m + 1 .. m + n + 1 /\ m + n - m = n
      BY <1>n
    <3>2. Node(g, t, Len(t)) = Node(h, r, n)
      BY <1>2, <1>n, <3>1
    <3> QED
      BY <2>1, <2>2, <2>5, <3>2 DEF EndKnown
  <2> QED
    BY <2>3, <2>4, <2>5
<1> QED
  BY <1>0, <1>n, <1>5, <1>6, <1>7, <1>8 DEF Linked

-----------------------------------------------------------------------------
\* The pointers after an insertion behind place i of list h.
PutIn(v, x, h, i, e) ==
  /\ x \in Lists /\ x.kind = v.kind
  /\ \A q \in Places :
       x.next[q] = IF q = Node(h, v.list[h], i) THEN e
                   ELSE IF q = e THEN Node(h, v.list[h], i + 1) ELSE v.next[q]
  /\ v.kind \in Doubly => \A q \in Elements :
       x.second[q] = IF q = e THEN Node(h, v.list[h], i)
                     ELSE IF q = Node(h, v.list[h], i + 1) THEN e ELSE v.second[q]
  /\ v.kind \in Tailed => \A q \in Heads :
       x.second[q] = IF q = h /\ i = Len(v.list[h]) THEN e ELSE v.second[q]

\* The pointers after cell i of list h is taken out.
TakenOut(v, x, h, i) ==
  /\ x \in Lists /\ x.kind = v.kind
  /\ \A q \in Places :
       x.next[q] = IF q = Node(h, v.list[h], i - 1) THEN Node(h, v.list[h], i + 1) ELSE v.next[q]
  /\ v.kind \in Doubly => \A q \in Elements :
       x.second[q] = IF q = Node(h, v.list[h], i + 1) THEN Node(h, v.list[h], i - 1) ELSE v.second[q]
  /\ v.kind \in Tailed => \A q \in Heads :
       x.second[q] = IF q = h /\ i = Len(v.list[h]) THEN Node(h, v.list[h], i - 1) ELSE v.second[q]

\* The pointers after the lists g and h changed places.
Swapped(v, x, g, h) ==
  /\ x \in Lists /\ x.kind = v.kind
  /\ \A q \in Places : x.next[q] = IF q = g THEN v.next[h] ELSE IF q = h THEN v.next[g] ELSE v.next[q]
  /\ v.kind \in Doubly => \A q \in Elements :
       x.second[q] = IF q = v.next[g] THEN h ELSE IF q = v.next[h] THEN g ELSE v.second[q]
  /\ v.kind \in Tailed => \A q \in Heads :
       x.second[q] = IF q = g THEN IF v.next[h] = NULL THEN g ELSE v.second[h]
                     ELSE IF q = h THEN IF v.next[g] = NULL THEN h ELSE v.second[g] ELSE v.second[q]

\* The pointers after list h, which has cells, is put behind list g.
PutTogether(v, x, g, h) ==
  /\ x \in Lists /\ x.kind = v.kind
  /\ \A q \in Places :
       x.next[q] = IF q = Node(g, v.list[g], Len(v.list[g])) THEN v.list[h][1]
                   ELSE IF q = h THEN NULL ELSE v.next[q]
  /\ v.kind \in Doubly => \A q \in Elements :
       x.second[q] = IF q = v.list[h][1] THEN Node(g, v.list[g], Len(v.list[g])) ELSE v.second[q]
  /\ v.kind \in Tailed => \A q \in Heads :
       x.second[q] = IF q = g THEN v.second[h] ELSE IF q = h THEN h ELSE v.second[q]

\* The first cell of a list is behind no other head.
LEMMA FirstCell ==
  ASSUME NEW v, Linked(v), NEW f \in Heads
  PROVE  /\ Len(v.list[f]) \in Nat
         /\ v.next[f] = IF Len(v.list[f]) = 0 THEN NULL ELSE v.list[f][1]
         /\ v.next[f] \in Elements \cup {NULL}
         /\ v.next[f] = NULL <=> Len(v.list[f]) = 0
         /\ \A d \in Heads : \A j \in 1 .. Len(v.list[d]) :
              /\ v.list[d][j] \in Elements
              /\ v.list[d][j] = v.next[f] => d = f /\ j = 1
<1>1. /\ v \in Lists /\ v.list[f] \in Seq(Elements) /\ Len(v.list[f]) \in Nat /\ 0 \in 0 .. Len(v.list[f])
      /\ 0 + 1 = 1 /\ Apart(v.list)
  BY DEF Linked, Lists
<1>2. Node(f, v.list[f], 0) = f
  BY DEF Node
<1>3. v.next[Node(f, v.list[f], 0)] = Node(f, v.list[f], 0 + 1)
  BY <1>1 DEF Linked, Chained
<1>4. /\ Node(f, v.list[f], 0 + 1) \in Elements \cup {NULL}
      /\ Node(f, v.list[f], 0 + 1) = IF 0 = Len(v.list[f]) THEN NULL ELSE v.list[f][0 + 1]
  BY <1>1, NodeIsPlace
<1>5. \A d \in Heads : \A j \in 1 .. Len(v.list[d]) :
        v.list[d][j] = Node(f, v.list[f], 0 + 1) => d = f /\ j = 0 + 1
  BY <1>1, CellBehind
<1>6. \A d \in Heads : \A j \in 1 .. Len(v.list[d]) : v.list[d][j] \in Elements
  BY <1>1 DEF Lists
<1>7. Len(v.list[f]) # 0 => v.list[f][1] \in Elements
  BY <1>1, FirstElement, Zenon
<1> QED
  BY <1>1, <1>2, <1>3, <1>4, <1>5, <1>6, <1>7, PlacesDiffer, Zenon

\* Both lists have moved, and all others have stayed.
LEMMA SwappedIsMoved ==
  ASSUME NEW v, Linked(v), NEW g \in Heads, NEW h \in Heads, g # h, NEW w, Swapped(v, w, g, h),
         \A a \in Heads : w.list[a] = v.list[Other(g, h, a)]
  PROVE  \A a \in Heads : Moved(v, w, a, Other(g, h, a))
<1> TAKE a \in Heads
<1> DEFINE b == Other(g, h, a)
           s == v.list[b]
<1>1. b \in Heads /\ b \in Places /\ a \in Places
  BY DEF Other, Places
<1>2. /\ Len(s) \in Nat /\ v.next[b] = IF Len(s) = 0 THEN NULL ELSE s[1]
      /\ (v.next[b] = NULL <=> Len(s) = 0)
  BY <1>1, FirstCell
<1>3. \A j \in 1 .. Len(s) : s[j] \in Elements /\ s[j] \in Places /\ s[j] \notin Heads
  BY <1>1, FirstCell, QueuesAssumption DEF Places
<1>4. \A f \in Heads : \A j \in 1 .. Len(s) : s[j] = v.next[f] => b = f /\ j = 1
  BY <1>1, FirstCell
<1>5. w.list[a] = v.list[b]
  OBVIOUS
<1> HIDE DEF s
<1>6. w.next[a] = v.next[b]
  BY <1>1 DEF Swapped, Other
<1>7. \A j \in 1 .. Len(s) : w.next[s[j]] = v.next[s[j]]
  BY <1>3 DEF Swapped
<1>8. ASSUME v.kind \in Doubly
      PROVE  /\ Len(s) > 0 => w.second[s[1]] = a
             /\ \A j \in 2 .. Len(s) : w.second[s[j]] = v.second[s[j]]
  <2>1. \A q \in Elements :
          w.second[q] = IF q = v.next[g] THEN h ELSE IF q = v.next[h] THEN g ELSE v.second[q]
    BY <1>8 DEF Swapped
  <2>2. ASSUME NEW j \in 2 .. Len(s) PROVE w.second[s[j]] = v.second[s[j]]
    <3>1. j \in 1 .. Len(s) /\ j # 1
      BY <1>2
    <3>2. s[j] # v.next[g] /\ s[j] # v.next[h] /\ s[j] \in Elements
      BY <1>3, <1>4, <3>1
    <3> QED
      BY <2>1, <3>2
  <2>3. ASSUME Len(s) > 0 PROVE w.second[s[1]] = a
    <3>1. 1 \in 1 .. Len(s) /\ v.next[b] = s[1]
      BY <1>2, <2>3
    <3>2. s[1] \in Elements /\ (s[1] = v.next[g] => b = g) /\ (s[1] = v.next[h] => b = h)
      BY <1>3, <1>4, <3>1
    <3>3. CASE a = g
      BY <2>1, <3>1, <3>2, <3>3 DEF Other
    <3>4. CASE a = h
      BY <2>1, <3>1, <3>2, <3>4 DEF Other
    <3>5. CASE a # g /\ a # h
      <4>1. b = a
        BY <3>5 DEF Other
      <4>2. w.second[s[1]] = v.second[s[1]]
        BY <2>1, <3>2, <3>5, <4>1
      <4>3. v.second[v.list[b][1]] = Node(b, v.list[b], 1 - 1)
        BY <1>1, <1>8, <3>1 DEF Linked, ChainedBack, s
      <4>4. Node(b, v.list[b], 1 - 1) = b
        BY DEF Node
      <4> QED
        BY <4>1, <4>2, <4>3, <4>4 DEF s
    <3> QED
      BY <3>3, <3>4, <3>5
  <2> QED
    BY <2>2, <2>3
<1>9. ASSUME v.kind \in Tailed PROVE w.second[a] = IF Len(s) = 0 THEN a ELSE v.second[b]
  <2>1. w.second[a] = IF a = g THEN IF v.next[h] = NULL THEN g ELSE v.second[h]
                      ELSE IF a = h THEN IF v.next[g] = NULL THEN h ELSE v.second[g] ELSE v.second[a]
    BY <1>9 DEF Swapped
  <2>2. CASE a = g \/ a = h
    BY <1>2, <2>1, <2>2, Zenon DEF Other
  <2>3. CASE a # g /\ a # h
    <3>1. b = a
      BY <2>3 DEF Other
    <3>2. v.second[b] = Node(b, s, Len(s))
      BY <1>1, <1>9 DEF Linked, EndKnown, s
    <3>3. Len(s) = 0 => Node(b, s, Len(s)) = b
      BY DEF Node
    <3> QED
      BY <2>1, <2>3, <3>1, <3>2, <3>3
  <2> QED
    BY <2>2, <2>3
<1> QED
  BY <1>5, <1>6, <1>7, <1>8, <1>9 DEF Moved, s

-----------------------------------------------------------------------------
\* t is s with e behind its first i cells; t is s without its i-th cell.
With(s, t, i, e) ==
  /\ t \in Seq(Elements) /\ Len(t) = Len(s) + 1
  /\ \A j \in 1 .. Len(s) + 1 : t[j] = IF j <= i THEN s[j] ELSE IF j = i + 1 THEN e ELSE s[j - 1]

Without(s, t, i) ==
  /\ t \in Seq(Elements) /\ Len(t) = Len(s) - 1
  /\ \A j \in 1 .. Len(s) - 1 : t[j] = IF j < i THEN s[j] ELSE s[j + 1]

LEMMA BehindIsWith ==
  ASSUME NEW s \in Seq(Elements), NEW e \in Elements, NEW i \in 0 .. Len(s)
  PROVE  With(s, Behind(s, i, e), i, e)
<1> DEFINE k == i + 1
           a == SubSeq(s, 1, i)
           b == a \o <<e>>
           c == SubSeq(s, k, Len(s))
           t == b \o c
           n == Len(s)
<1>1. n \in Nat /\ k \in Int /\ 1 <= k /\ k <= n + 1 /\ i = k - 1 /\ \A j \in 1 .. n : s[j] \in Elements
  OBVIOUS
<1>a. a = SubSeq(s, 1, k - 1)
  BY <1>1
<1> HIDE DEF k, a
<1>2. /\ a \in Seq(Elements) /\ Len(a) = k - 1
      /\ \A j \in 1 .. k - 1 : a[j] = s[j]
  <2>1. 1 \in Int /\ k - 1 \in Int /\ \A j \in 1 .. k - 1 : s[j] \in Elements
    BY <1>1
  <2>2. /\ a \in Seq(Elements) /\ Len(a) = IF 1 <= k - 1 THEN k - 1 - 1 + 1 ELSE 0
        /\ \A j \in 1 .. k - 1 - 1 + 1 : a[j] = s[1 + j - 1]
    BY <1>a, <2>1, SubSeqProperties
  <2>3. /\ (1 <= k - 1 => k - 1 - 1 + 1 = k - 1) /\ (~ (1 <= k - 1) => 0 = k - 1)
        /\ \A j \in 1 .. k - 1 : j \in 1 .. k - 1 - 1 + 1 /\ 1 + j - 1 = j
    BY <1>1
  <2>4. Len(a) = k - 1
    BY <2>2, <2>3, Zenon
  <2>5. ASSUME NEW j \in 1 .. k - 1 PROVE a[j] = s[j]
    <3>1. a[j] = s[1 + j - 1]
      BY <2>2, <2>3, Zenon
    <3> QED
      BY <2>3, <3>1, Zenon
  <2> QED
    BY <2>2, <2>4, <2>5, Zenon
<1>3. /\ c \in Seq(Elements) /\ Len(c) = n - k + 1
      /\ \A j \in 1 .. n - k + 1 : c[j] = s[k + j - 1]
  <2>1. k \in Int /\ n \in Int /\ \A j \in k .. n : s[j] \in Elements
    BY <1>1
  <2>2. /\ c \in Seq(Elements) /\ Len(c) = IF k <= n THEN n - k + 1 ELSE 0
        /\ \A j \in 1 .. n - k + 1 : c[j] = s[k + j - 1]
    BY <2>1, SubSeqProperties
  <2> HIDE DEF c, n
  <2> QED
    BY <1>1, <2>2
<1> HIDE DEF c, n
<1>4. /\ b \in Seq(Elements) /\ Len(b) = k
      /\ \A j \in 1 .. k : b[j] = IF j <= k - 1 THEN a[j] ELSE e
  <2>1. <<e>> \in Seq(Elements) /\ Len(<<e>>) = 1 /\ <<e>>[1] = e
    OBVIOUS
  <2>2. /\ b \in Seq(Elements) /\ Len(b) = Len(a) + 1
        /\ \A j \in 1 .. Len(a) + 1 : b[j] = IF j <= Len(a) THEN a[j] ELSE <<e>>[j - Len(a)]
    BY <1>2, <2>1, ConcatProperties, ZenonT(30)
  <2> HIDE DEF b
  <2> QED
    BY <1>1, <1>2, <2>1, <2>2
<1> HIDE DEF b
<1>5. /\ t \in Seq(Elements) /\ Len(t) = k + (n - k + 1)
      /\ \A j \in 1 .. k + (n - k + 1) : t[j] = IF j <= k THEN b[j] ELSE c[j - k]
  <2>1. /\ t \in Seq(Elements) /\ Len(t) = Len(b) + Len(c)
        /\ \A j \in 1 .. Len(b) + Len(c) : t[j] = IF j <= Len(b) THEN b[j] ELSE c[j - Len(b)]
    BY <1>3, <1>4, ConcatProperties, Zenon
  <2> HIDE DEF t
  <2> QED
    BY <1>3, <1>4, <2>1
<1> HIDE DEF t
<1>6. k + (n - k + 1) = n + 1
  BY <1>1
<1>7. ASSUME NEW j \in 1 .. n + 1
      PROVE  t[j] = IF j <= k - 1 THEN s[j] ELSE IF j = k - 1 + 1 THEN e ELSE s[j - 1]
  <2>1. t[j] = IF j <= k THEN b[j] ELSE c[j - k]
    BY <1>5, <1>6
  <2>2. CASE j <= k - 1
    BY <1>1, <1>2, <1>4, <2>1, <2>2
  <2>3. CASE j = k
    BY <1>1, <1>4, <2>1, <2>3
  <2>4. CASE j > k
    <3>1. j - k \in 1 .. n - k + 1 /\ k + (j - k) - 1 = j - 1 /\ ~ (j <= k) /\ ~ (j <= k - 1) /\ j # k - 1 + 1
      BY <1>1, <2>4
    <3> QED
      BY <1>3, <2>1, <3>1
  <2> QED
    BY <1>1, <2>2, <2>3, <2>4
<1>8. Behind(s, i, e) = t
  BY Zenon DEF Behind, t, a, b, c, n, k
<1> QED
  BY <1>1, <1>5, <1>6, <1>7, <1>8 DEF With, n

LEMMA EndsAreWith ==
  ASSUME NEW s \in Seq(Elements), NEW e \in Elements
  PROVE  With(s, <<e>> \o s, 0, e) /\ With(s, Append(s, e), Len(s), e)
<1>1. Len(s) \in Nat
  OBVIOUS
<1>2. With(s, <<e>> \o s, 0, e)
  <2> DEFINE t == <<e>> \o s
  <2>1. <<e>> \in Seq(Elements) /\ Len(<<e>>) = 1 /\ <<e>>[1] = e
    OBVIOUS
  <2>2. /\ t \in Seq(Elements) /\ Len(t) = 1 + Len(s)
        /\ \A j \in 1 .. 1 + Len(s) : t[j] = IF j <= 1 THEN <<e>>[j] ELSE s[j - 1]
    BY <2>1, ConcatProperties
  <2> HIDE DEF t
  <2>3. With(s, t, 0, e)
    BY <1>1, <2>1, <2>2 DEF With
  <2> QED
    BY <2>3 DEF t
<1>3. With(s, Append(s, e), Len(s), e)
  <2> DEFINE t == Append(s, e)
  <2>1. /\ t \in Seq(Elements) /\ Len(t) = Len(s) + 1
        /\ \A j \in 1 .. Len(s) : t[j] = s[j]
        /\ t[Len(s) + 1] = e
    BY AppendProperties
  <2> HIDE DEF t
  <2>2. With(s, t, Len(s), e)
    BY <1>1, <2>1, SMTT(30) DEF With
  <2> QED
    BY <2>2 DEF t
<1> QED
  BY <1>2, <1>3

LEMMA DroppedIsWithout ==
  ASSUME NEW s \in Seq(Elements), NEW k \in 1 .. Len(s)
  PROVE  Without(s, Dropped(s, k), k)
<1> DEFINE a == SubSeq(s, 1, k - 1)
           c == SubSeq(s, k + 1, Len(s))
           t == a \o c
           n == Len(s)
<1>1. n \in Nat /\ k \in Int /\ 1 <= k /\ k <= n /\ \A j \in 1 .. n : s[j] \in Elements
  OBVIOUS
<1>2. /\ a \in Seq(Elements) /\ Len(a) = k - 1
      /\ \A j \in 1 .. k - 1 : a[j] = s[j]
  <2>1. 1 \in Int /\ k - 1 \in Int /\ \A j \in 1 .. k - 1 : s[j] \in Elements
    BY <1>1
  <2>2. /\ a \in Seq(Elements) /\ Len(a) = IF 1 <= k - 1 THEN k - 1 - 1 + 1 ELSE 0
        /\ \A j \in 1 .. k - 1 - 1 + 1 : a[j] = s[1 + j - 1]
    BY <2>1, SubSeqProperties
  <2> HIDE DEF a
  <2> QED
    BY <1>1, <2>2
<1>3. /\ c \in Seq(Elements) /\ Len(c) = n - k
      /\ \A j \in 1 .. n - k : c[j] = s[k + j]
  <2>1. k + 1 \in Int /\ n \in Int /\ \A j \in k + 1 .. n : s[j] \in Elements
    BY <1>1
  <2>2. /\ c \in Seq(Elements) /\ Len(c) = IF k + 1 <= n THEN n - (k + 1) + 1 ELSE 0
        /\ \A j \in 1 .. n - (k + 1) + 1 : c[j] = s[k + 1 + j - 1]
    BY <2>1, SubSeqProperties
  <2> HIDE DEF c, n
  <2> QED
    BY <1>1, <2>2
<1> HIDE DEF a, c, n
<1>4. /\ t \in Seq(Elements) /\ Len(t) = k - 1 + (n - k)
      /\ \A j \in 1 .. k - 1 + (n - k) : t[j] = IF j <= k - 1 THEN a[j] ELSE c[j - (k - 1)]
  <2>1. /\ t \in Seq(Elements) /\ Len(t) = Len(a) + Len(c)
        /\ \A j \in 1 .. Len(a) + Len(c) : t[j] = IF j <= Len(a) THEN a[j] ELSE c[j - Len(a)]
    BY <1>2, <1>3, ConcatProperties, Zenon
  <2> HIDE DEF t
  <2> QED
    BY <1>2, <1>3, <2>1
<1> HIDE DEF t
<1>5. k - 1 + (n - k) = n - 1
  BY <1>1
<1>6. ASSUME NEW j \in 1 .. n - 1
      PROVE  t[j] = IF j < k THEN s[j] ELSE s[j + 1]
  <2>1. t[j] = IF j <= k - 1 THEN a[j] ELSE c[j - (k - 1)]
    BY <1>4, <1>5
  <2>2. CASE j < k
    BY <1>1, <1>2, <2>1, <2>2
  <2>3. CASE j >= k
    <3>1. j - (k - 1) \in 1 .. n - k /\ k + (j - (k - 1)) = j + 1 /\ ~ (j <= k - 1) /\ ~ (j < k)
      BY <1>1, <2>3
    <3> QED
      BY <1>3, <2>1, <3>1
  <2> QED
    BY <1>1, <2>2, <2>3
<1>7. Dropped(s, k) = t
  BY Zenon DEF Dropped, t, a, c, n
<1> QED
  BY <1>4, <1>5, <1>6, <1>7, Zenon DEF Without, n

-----------------------------------------------------------------------------
\* w is x with other lists.
IsList(x, w, list) ==
  w \in Lists /\ w.kind = x.kind /\ w.next = x.next /\ w.second = x.second /\ w.list = list

LEMMA ListSet ==
  ASSUME NEW x \in Lists, NEW list \in [Heads -> Seq(Elements)]
  PROVE  IsList(x, [x EXCEPT !.list = list], list)
BY Zenon DEF IsList, Lists

LEMMA InsertDone ==
  ASSUME NEW v, Linked(v), NEW h \in Heads, NEW i \in 0 .. Len(v.list[h]), NEW e, InNoList(v, e),
         NEW x, PutIn(v, x, h, i, e), NEW t, With(v.list[h], t, i, e)
  PROVE  Linked([x EXCEPT !.list = [v.list EXCEPT ![h] = t]])
<1> DEFINE list == [v.list EXCEPT ![h] = t]
           w == [x EXCEPT !.list = list]
<1>1. v.list \in [Heads -> Seq(Elements)] /\ t \in Seq(Elements) /\ x \in Lists
  BY DEF Linked, Lists, PutIn, With
<1>2. list \in [Heads -> Seq(Elements)] /\ list[h] = t /\ \A f \in Heads \ {h} : list[f] = v.list[f]
  BY <1>1
<1> HIDE DEF list
<1>3. IsList(x, w, list)
  BY <1>1, <1>2, ListSet, Zenon
<1> HIDE DEF w
<1>4. Inserted(v, w, h, i, e)
  <2>1. w \in Lists /\ w.kind = v.kind /\ w.next = x.next /\ w.second = x.second /\ w.list[h] = t
        /\ \A f \in Heads \ {h} : w.list[f] = v.list[f]
    BY <1>2, <1>3 DEF IsList, PutIn
  <2> QED
    BY <2>1, Zenon DEF Inserted, PutIn, With
<1>5. Linked(w)
  BY <1>4, InsertKeepsLinks
<1> QED
  BY <1>5, Zenon DEF w, list

LEMMA RemoveDone ==
  ASSUME NEW v, Linked(v), NEW h \in Heads, NEW i \in 1 .. Len(v.list[h]),
         NEW x, TakenOut(v, x, h, i), NEW t, Without(v.list[h], t, i)
  PROVE  Linked([x EXCEPT !.list = [v.list EXCEPT ![h] = t]])
<1> DEFINE list == [v.list EXCEPT ![h] = t]
           w == [x EXCEPT !.list = list]
<1>1. v.list \in [Heads -> Seq(Elements)] /\ t \in Seq(Elements) /\ x \in Lists
  BY DEF Linked, Lists, TakenOut, Without
<1>2. list \in [Heads -> Seq(Elements)] /\ list[h] = t /\ \A f \in Heads \ {h} : list[f] = v.list[f]
  BY <1>1
<1> HIDE DEF list
<1>3. IsList(x, w, list)
  BY <1>1, <1>2, ListSet, Zenon
<1> HIDE DEF w
<1>4. Removed(v, w, h, i)
  <2>1. w \in Lists /\ w.kind = v.kind /\ w.next = x.next /\ w.second = x.second /\ w.list[h] = t
        /\ \A f \in Heads \ {h} : w.list[f] = v.list[f]
    BY <1>2, <1>3 DEF IsList, TakenOut
  <2> QED
    BY <2>1, Zenon DEF Removed, TakenOut, Without
<1>5. Linked(w)
  BY <1>4, RemoveKeepsLinks
<1> QED
  BY <1>5, Zenon DEF w, list

LEMMA SwapDone ==
  ASSUME NEW v, Linked(v), NEW g \in Heads, NEW h \in Heads, g # h, NEW x, Swapped(v, x, g, h)
  PROVE  Linked([x EXCEPT !.list = [v.list EXCEPT ![g] = v.list[h], ![h] = v.list[g]]])
<1> DEFINE list == [v.list EXCEPT ![g] = v.list[h], ![h] = v.list[g]]
           w == [x EXCEPT !.list = list]
<1>1. v.list \in [Heads -> Seq(Elements)] /\ x \in Lists
  BY DEF Linked, Lists, Swapped
<1>2. list \in [Heads -> Seq(Elements)] /\ \A a \in Heads : list[a] = v.list[Other(g, h, a)]
  BY <1>1, Zenon DEF Other
<1> HIDE DEF list
<1>3. IsList(x, w, list)
  BY <1>1, <1>2, ListSet, Zenon
<1> HIDE DEF w
<1>4. w \in Lists /\ w.kind = v.kind /\ w.next = x.next /\ w.second = x.second
      /\ \A a \in Heads : w.list[a] = v.list[Other(g, h, a)]
  BY <1>2, <1>3 DEF IsList, Swapped
<1>5. Swapped(v, w, g, h)
  BY <1>4, ZenonT(30) DEF Swapped
<1>6. \A a \in Heads : Moved(v, w, a, Other(g, h, a))
  BY <1>4, <1>5, SwappedIsMoved
<1>7. Linked(w)
  BY <1>4, <1>6, SwapKeepsLinks
<1> QED
  BY <1>7, Zenon DEF w, list

LEMMA JoinDone ==
  ASSUME NEW v, Linked(v), NEW g \in Heads, NEW h \in Heads, g # h, Len(v.list[h]) > 0,
         NEW x, PutTogether(v, x, g, h)
  PROVE  Linked([x EXCEPT !.list = [v.list EXCEPT ![g] = @ \o v.list[h], ![h] = <<>>]])
<1> DEFINE t == v.list[g] \o v.list[h]
           list == [v.list EXCEPT ![g] = v.list[g] \o v.list[h], ![h] = <<>>]
           w == [x EXCEPT !.list = list]
<1>1. v.list \in [Heads -> Seq(Elements)] /\ x \in Lists
  BY DEF Linked, Lists, PutTogether
<1>2. /\ t \in Seq(Elements) /\ Len(t) = Len(v.list[g]) + Len(v.list[h])
      /\ \A j \in 1 .. Len(v.list[g]) + Len(v.list[h]) :
           t[j] = IF j <= Len(v.list[g]) THEN v.list[g][j] ELSE v.list[h][j - Len(v.list[g])]
  <2>1. v.list[g] \in Seq(Elements) /\ v.list[h] \in Seq(Elements)
    BY <1>1
  <2> QED
    BY <2>1, ConcatProperties, Zenon
<1> HIDE DEF t
<1>3. /\ list \in [Heads -> Seq(Elements)] /\ list[g] = t /\ list[h] = <<>>
      /\ \A f \in Heads \ {g, h} : list[f] = v.list[f]
  <2>1. list = [v.list EXCEPT ![g] = t, ![h] = <<>>] /\ <<>> \in Seq(Elements)
    BY DEF t
  <2> HIDE DEF list
  <2> QED
    BY <1>1, <1>2, <2>1, Zenon
<1> HIDE DEF list
<1>4. IsList(x, w, list)
  BY <1>1, <1>3, ListSet, Zenon
<1> HIDE DEF w
<1>5. Joined(v, w, g, h)
  <2>1. w \in Lists /\ w.kind = v.kind /\ w.next = x.next /\ w.second = x.second /\ w.list[g] = t
        /\ Len(w.list[h]) = 0 /\ \A f \in Heads \ {g, h} : w.list[f] = v.list[f]
    BY <1>3, <1>4 DEF IsList, PutTogether
  <2>2. /\ Len(w.list[g]) = Len(v.list[g]) + Len(v.list[h])
        /\ \A j \in 1 .. Len(v.list[g]) + Len(v.list[h]) :
             w.list[g][j] = IF j <= Len(v.list[g]) THEN v.list[g][j] ELSE v.list[h][j - Len(v.list[g])]
    BY <1>2, <2>1, Zenon
  <2>3. /\ \A q \in Places :
             w.next[q] = IF q = Node(g, v.list[g], Len(v.list[g])) THEN v.list[h][1]
                         ELSE IF q = h THEN NULL ELSE v.next[q]
        /\ v.kind \in Doubly => \A q \in Elements :
             w.second[q] = IF q = v.list[h][1] THEN Node(g, v.list[g], Len(v.list[g])) ELSE v.second[q]
        /\ v.kind \in Tailed => \A q \in Heads :
             w.second[q] = IF q = g THEN v.second[h] ELSE IF q = h THEN h ELSE v.second[q]
    BY <2>1, ZenonT(30) DEF PutTogether
  <2> QED
    BY <2>1, <2>2, <2>3, ZenonT(30) DEF Joined
<1>6. Linked(w)
  BY <1>5, JoinKeepsLinks
<1> QED
  BY <1>6, Zenon DEF w, list

=============================================================================
