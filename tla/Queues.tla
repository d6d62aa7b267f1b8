------------------------------- MODULE Queues --------------------------------
(***************************************************************************)
(* The lists of sys/queue.h, macro by macro: SLIST, STAILQ, LIST, TAILQ.   *)
(*                                                                         *)
(* A place is what has a next pointer in its first field: a cell, or a     *)
(* head, whose first pointer it is.  The address of that field is the      *)
(* place itself.  The second field of a head is the address of the last    *)
(* next pointer, that of a cell the address of the pointer to the cell.    *)
(* The pointers of a cell that is in no list are whatever they were.       *)
(* u.list is what the lists should be.                                     *)
(***************************************************************************)
EXTENDS Integers, FiniteSets, Sequences

CONSTANTS Elements, Heads, NULL

ASSUME QueuesAssumption ==
  NULL \notin Elements \cup Heads /\ Elements \cap Heads = {} /\ IsFiniteSet(Elements)

VARIABLE u

Places == Elements \cup Heads
Next1(v, p, q) == [v EXCEPT !.next[p] = q]
Second(v, p, q) == [v EXCEPT !.second[p] = q]
EMPTY(v, h) == v.next[h] = NULL
Emptied(v, h) == Second(Next1(v, h, NULL), h, h)

-----------------------------------------------------------------------------
SLIST_INSERT_AFTER(v, p, e) == Next1(Next1(v, e, v.next[p]), p, e)
SLIST_INSERT_HEAD(v, h, e) == Next1(Next1(v, e, v.next[h]), h, e)
SLIST_REMOVE_AFTER(v, p) == Next1(v, p, v.next[v.next[p]])
SLIST_REMOVE_HEAD(v, h) == Next1(v, h, v.next[v.next[h]])

\* The cell before e, found by following the list.
Before(v, h, e) ==
  LET at[k \in 0 .. Cardinality(Elements)] ==
        IF k = 0 THEN v.next[h] ELSE IF v.next[at[k - 1]] = e THEN at[k - 1] ELSE v.next[at[k - 1]]
  IN  at[Cardinality(Elements)]

SLIST_REMOVE(v, h, e) ==
  IF v.next[h] = e THEN SLIST_REMOVE_HEAD(v, h) ELSE SLIST_REMOVE_AFTER(v, Before(v, h, e))

SLIST_SWAP(v, g, h) == Next1(Next1(v, g, v.next[h]), h, v.next[g])

-----------------------------------------------------------------------------
\* If e is the last one now, the head's second field is e's next pointer.
LastIs(v, h, e) == IF v.next[e] = NULL THEN Second(v, h, e) ELSE v

STAILQ_CONCAT(v, g, h) ==
  IF EMPTY(v, h) THEN v
  ELSE Emptied(Second(Next1(v, v.second[g], v.next[h]), g, v.second[h]), h)

STAILQ_INSERT_AFTER(v, h, p, e) == Next1(LastIs(Next1(v, e, v.next[p]), h, e), p, e)
STAILQ_INSERT_HEAD(v, h, e) == Next1(LastIs(Next1(v, e, v.next[h]), h, e), h, e)
STAILQ_INSERT_TAIL(v, h, e) == Second(Next1(Next1(v, e, NULL), v.second[h], e), h, e)
STAILQ_REMOVE_AFTER(v, h, p) == LastIs(Next1(v, p, v.next[v.next[p]]), h, p)
STAILQ_REMOVE_HEAD(v, h) == LastIs(Next1(v, h, v.next[v.next[h]]), h, h)

STAILQ_REMOVE(v, h, e) ==
  IF v.next[h] = e THEN STAILQ_REMOVE_HEAD(v, h) ELSE STAILQ_REMOVE_AFTER(v, h, Before(v, h, e))

STAILQ_SWAP(v, g, h) ==
  LET w == Second(Second(SLIST_SWAP(v, g, h), g, v.second[h]), h, v.second[g])
  IN  LastIs(LastIs(w, g, g), h, h)

STAILQ_LAST(v, h) == IF EMPTY(v, h) THEN NULL ELSE v.second[h]

-----------------------------------------------------------------------------
\* What is behind e, if anything, has the address p as its second field.
BackTo(v, e, p) == IF e = NULL THEN v ELSE Second(v, e, p)

LIST_INSERT_AFTER(v, p, e) ==
  Second(Next1(BackTo(Next1(v, e, v.next[p]), v.next[p], e), p, e), e, p)

LIST_INSERT_BEFORE(v, q, e) ==
  Second(Next1(Next1(Second(v, e, v.second[q]), e, q), v.second[q], e), q, e)

LIST_INSERT_HEAD(v, h, e) ==
  Second(Next1(BackTo(Next1(v, e, v.next[h]), v.next[h], e), h, e), e, h)

LIST_REMOVE(v, e) == Next1(BackTo(v, v.next[e], v.second[e]), v.second[e], v.next[e])

LIST_SWAP(v, g, h) == BackTo(BackTo(SLIST_SWAP(v, g, h), v.next[h], g), v.next[g], h)

-----------------------------------------------------------------------------
\* What is behind a place has address p as its second field; if there is nothing, the head has.
BackOrLast(v, h, e, p) == IF e = NULL THEN Second(v, h, p) ELSE Second(v, e, p)

TAILQ_CONCAT(v, g, h) ==
  IF EMPTY(v, h) THEN v
  ELSE Emptied(Second(Second(Next1(v, v.second[g], v.next[h]), v.next[h], v.second[g]), g, v.second[h]), h)

TAILQ_INSERT_AFTER(v, h, p, e) ==
  Second(Next1(BackOrLast(Next1(v, e, v.next[p]), h, v.next[p], e), p, e), e, p)

TAILQ_INSERT_BEFORE(v, q, e) ==
  Second(Next1(Next1(Second(v, e, v.second[q]), e, q), v.second[q], e), q, e)

TAILQ_INSERT_HEAD(v, h, e) ==
  Second(Next1(BackOrLast(Next1(v, e, v.next[h]), h, v.next[h], e), h, e), e, h)

TAILQ_INSERT_TAIL(v, h, e) ==
  Second(Next1(Second(Next1(v, e, NULL), e, v.second[h]), v.second[h], e), h, e)

TAILQ_REMOVE(v, h, e) == Next1(BackOrLast(v, h, v.next[e], v.second[e]), v.second[e], v.next[e])

\* For the mutation of TAILQ_SWAP: an empty list keeps the other's last pointer.
TAILQ_SWAP_LastKept(v, g, h) ==
  LET w == Second(Second(SLIST_SWAP(v, g, h), g, v.second[h]), h, v.second[g])
  IN  BackTo(BackTo(w, w.next[g], g), w.next[h], h)

TAILQ_SWAP(v, g, h) ==
  LET w == Second(Second(SLIST_SWAP(v, g, h), g, v.second[h]), h, v.second[g])
  IN  BackOrLast(BackOrLast(w, g, w.next[g], g), h, w.next[h], h)

\* The address in the second field is read as that of a head, the second field of which is followed.
TAILQ_LAST(v, h) == v.next[v.second[v.second[h]]]
TAILQ_PREV(v, e) == v.next[v.second[v.second[e]]]

-----------------------------------------------------------------------------
Doubly == {"LIST", "TAILQ"}
Tailed == {"STAILQ", "TAILQ"}
Loose == {e \in Elements : \A h \in Heads : \A i \in DOMAIN u.list[h] : u.list[h][i] # e}
Becomes(v, list) == u' = [v EXCEPT !.list = list]

\* s with e behind its first i cells, and s without its i-th cell.
Behind(s, i, e) == SubSeq(s, 1, i) \o <<e>> \o SubSeq(s, i + 1, Len(s))
Dropped(s, i) == SubSeq(s, 1, i - 1) \o SubSeq(s, i + 1, Len(s))

InsertHead(h, e) ==
  Becomes(CASE u.kind = "SLIST" -> SLIST_INSERT_HEAD(u, h, e)
            [] u.kind = "STAILQ" -> STAILQ_INSERT_HEAD(u, h, e)
            [] u.kind = "LIST" -> LIST_INSERT_HEAD(u, h, e)
            [] u.kind = "TAILQ" -> TAILQ_INSERT_HEAD(u, h, e),
          [u.list EXCEPT ![h] = <<e>> \o @])

InsertAfter(h, i, e) ==
  LET p == u.list[h][i]
  IN  Becomes(CASE u.kind = "SLIST" -> SLIST_INSERT_AFTER(u, p, e)
                [] u.kind = "STAILQ" -> STAILQ_INSERT_AFTER(u, h, p, e)
                [] u.kind = "LIST" -> LIST_INSERT_AFTER(u, p, e)
                [] u.kind = "TAILQ" -> TAILQ_INSERT_AFTER(u, h, p, e),
              [u.list EXCEPT ![h] = Behind(@, i, e)])

InsertBefore(h, i, e) ==
  /\ u.kind \in Doubly
  /\ Becomes(IF u.kind = "LIST" THEN LIST_INSERT_BEFORE(u, u.list[h][i], e)
             ELSE TAILQ_INSERT_BEFORE(u, u.list[h][i], e),
             [u.list EXCEPT ![h] = Behind(@, i - 1, e)])

InsertTail(h, e) ==
  /\ u.kind \in Tailed
  /\ Becomes(IF u.kind = "STAILQ" THEN STAILQ_INSERT_TAIL(u, h, e) ELSE TAILQ_INSERT_TAIL(u, h, e),
             [u.list EXCEPT ![h] = Append(@, e)])

RemoveCell(h, i) ==
  LET e == u.list[h][i]
  IN  Becomes(CASE u.kind = "SLIST" -> SLIST_REMOVE(u, h, e)
                [] u.kind = "STAILQ" -> STAILQ_REMOVE(u, h, e)
                [] u.kind = "LIST" -> LIST_REMOVE(u, e)
                [] u.kind = "TAILQ" -> TAILQ_REMOVE(u, h, e),
              [u.list EXCEPT ![h] = Dropped(@, i)])

SwapLists(g, h) ==
  Becomes(CASE u.kind = "SLIST" -> SLIST_SWAP(u, g, h)
            [] u.kind = "STAILQ" -> STAILQ_SWAP(u, g, h)
            [] u.kind = "LIST" -> LIST_SWAP(u, g, h)
            [] u.kind = "TAILQ" -> TAILQ_SWAP(u, g, h),
          [u.list EXCEPT ![g] = u.list[h], ![h] = u.list[g]])

Concat(g, h) ==
  /\ u.kind \in Tailed
  /\ Becomes(IF u.kind = "STAILQ" THEN STAILQ_CONCAT(u, g, h) ELSE TAILQ_CONCAT(u, g, h),
             [u.list EXCEPT ![g] = @ \o u.list[h], ![h] = <<>>])

\* The heads as the initializers make them.
QInit ==
  \E kind \in Doubly \cup Tailed \cup {"SLIST"} :
    u = [kind |-> kind, next |-> [p \in Places |-> NULL],
         second |-> [p \in Places |-> IF p \in Heads /\ kind \in Tailed THEN p ELSE NULL],
         list |-> [h \in Heads |-> <<>>]]

QNext ==
  \E h \in Heads :
    \/ \E e \in Loose : InsertHead(h, e) \/ InsertTail(h, e)
    \/ \E e \in Loose, i \in DOMAIN u.list[h] : InsertAfter(h, i, e) \/ InsertBefore(h, i, e)
    \/ \E i \in DOMAIN u.list[h] : RemoveCell(h, i)
    \/ \E g \in Heads \ {h} : SwapLists(g, h) \/ Concat(g, h)

QSpec == QInit /\ [][QNext]_u

-----------------------------------------------------------------------------
\* The macros of all four lists: following the next pointers from a head, as FOREACH
\* does, visits exactly the cells that were put into that list, in their order.
ListsAreSequences ==
  \A h \in Heads :
    /\ u.next[h] = IF u.list[h] = <<>> THEN NULL ELSE u.list[h][1]
    /\ \A i \in DOMAIN u.list[h] :
         u.next[u.list[h][i]] = IF i = Len(u.list[h]) THEN NULL ELSE u.list[h][i + 1]

\* QMD_LIST_CHECK_* and QMD_TAILQ_CHECK_*: the pointer a cell says points to it does.
BackLinksHold ==
  u.kind \in Doubly =>
    \A h \in Heads : \A i \in DOMAIN u.list[h] :
      u.second[u.list[h][i]] = IF i = 1 THEN h ELSE u.list[h][i - 1]

\* STAILQ and TAILQ: the head knows its last next pointer; STAILQ_LAST, TAILQ_LAST and
\* TAILQ_PREV, which reads a cell as if it were a head, find the cells they name.
LastIsFound ==
  u.kind \in Tailed =>
    \A h \in Heads :
      LET s == u.list[h]
          last == IF s = <<>> THEN NULL ELSE s[Len(s)]
      IN  /\ u.next[u.second[h]] = NULL
          /\ u.kind = "STAILQ" => STAILQ_LAST(u, h) = last
          /\ u.kind = "TAILQ" =>
               /\ TAILQ_LAST(u, h) = last
               /\ \A i \in DOMAIN s : TAILQ_PREV(u, s[i]) = IF i = 1 THEN NULL ELSE s[i - 1]

\* The macros of queue.h, whichever follow each other: next pointers, back pointers
\* and the head's idea of the last cell describe one and the same sequence.
ListsHold == ListsAreSequences /\ BackLinksHold /\ LastIsFound

=============================================================================
