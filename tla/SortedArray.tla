----------------------------- MODULE SortedArray -----------------------------
(***************************************************************************)
(* The ordered array of sorted_array.c: a fixed block of pointers, the     *)
(* number in use, and a comparison function.  The array is indexed from 0  *)
(* as in C and has one cell more than its capacity: the word that follows  *)
(* the block in memory, which belongs to somebody else.                    *)
(***************************************************************************)
EXTENDS Integers, FiniteSetsExt

CONSTANTS
  MaxSize,      \* sa_maxsize
  Keys,         \* the numbers the elements are ordered by
  UINT          \* 2^32: how many unsigned integers there are

ASSUME SortedArrayAssumption ==
  /\ MaxSize \in Nat \ {0}
  /\ UINT \in Nat \ {0} /\ UINT % 2 = 0
  /\ Keys \subseteq 0 .. (UINT - 1)

VARIABLES
  sa_array,     \* the cells
  sa_size,      \* how many are in use
  held,         \* history: how many copies of each key the client has put in
  sa_panic      \* a KASSERT failed

svars == <<sa_array, sa_size, held, sa_panic>>

Cell == Keys \cup {0}

-----------------------------------------------------------------------------
\* The unsigned difference, read as a signed integer.
AsInt(u) == IF u < UINT \div 2 THEN u ELSE u - UINT

\* default_cmp_func and vm_heap_header_cmp: the difference of two unsigned
\* numbers returned as an int.
Cmp(a, b) == AsInt((a - b) % UINT)

\* The first cell in use that does not compare below el, or sa_size.
InsertionPoint(el) ==
  Min({i \in 0 .. sa_size : i < sa_size => Cmp(sa_array[i], el) >= 0})

\* For the mutation of SaInsert: the walk stops one cell early.
SaInsert_OneEarly(el) ==
  LET i == IF InsertionPoint(el) = 0 THEN 0 ELSE InsertionPoint(el) - 1
  IN  /\ sa_size < MaxSize
      /\ sa_array' = [j \in 0 .. MaxSize |->
                        IF j = i THEN el
                        ELSE IF i < j /\ j <= sa_size THEN sa_array[j - 1]
                        ELSE sa_array[j]]
      /\ sa_size' = sa_size + 1
      /\ held' = [held EXCEPT ![el] = @ + 1]
      /\ UNCHANGED sa_panic

\* For the mutation of SaInsert: "has enough room" is not checked.
SaInsert_NoRoomCheck(el) ==
  /\ LET i == InsertionPoint(el)
     IN  sa_array' = [j \in 0 .. MaxSize |->
                        IF j = i THEN el
                        ELSE IF i < j /\ j <= sa_size THEN sa_array[j - 1]
                        ELSE sa_array[j]]
  /\ sa_size' = sa_size + 1
  /\ held' = [held EXCEPT ![el] = @ + 1]
  /\ UNCHANGED sa_panic

(***************************************************************************)
(* insert_sorted_array(): the cells from the insertion point on move up by *)
(* one to make room.                                                       *)
(***************************************************************************)
SaInsert(el) ==
  \/ /\ sa_size < MaxSize
     /\ LET i == InsertionPoint(el)
        IN  sa_array' = [j \in 0 .. MaxSize |->
                           IF j = i THEN el
                           ELSE IF i < j /\ j <= sa_size THEN sa_array[j - 1]
                           ELSE sa_array[j]]
     /\ sa_size' = sa_size + 1
     /\ held' = [held EXCEPT ![el] = @ + 1]
     /\ UNCHANGED sa_panic
  \/ /\ sa_size >= MaxSize
     /\ sa_panic' = TRUE
     /\ UNCHANGED <<sa_array, sa_size, held>>

\* For the mutation of SaRemove: the cells move down from the cell after i.
SaRemove_OneLate(i) ==
  /\ i < sa_size
  /\ sa_array' = [j \in 0 .. MaxSize |->
                    IF i < j /\ j < sa_size THEN sa_array[j + 1] ELSE sa_array[j]]
  /\ sa_size' = sa_size - 1
  /\ held' = [held EXCEPT ![sa_array[i]] = @ - 1]
  /\ UNCHANGED sa_panic

(***************************************************************************)
(* remove_sorted_array(): the cells after i move down by one, the one past *)
(* the last used cell included.                                            *)
(***************************************************************************)
SaRemove(i) ==
  \/ /\ i < sa_size
     /\ sa_array' = [j \in 0 .. MaxSize |->
                       IF i <= j /\ j < sa_size THEN sa_array[j + 1] ELSE sa_array[j]]
     /\ sa_size' = sa_size - 1
     /\ held' = [held EXCEPT ![sa_array[i]] = @ - 1]
     /\ UNCHANGED sa_panic
  \/ /\ i >= sa_size
     /\ sa_panic' = TRUE
     /\ UNCHANGED <<sa_array, sa_size, held>>

\* lookup_sorted_array(): only its check has an effect.
SaLookup(i) ==
  /\ i >= sa_size
  /\ sa_panic' = TRUE
  /\ UNCHANGED <<sa_array, sa_size, held>>

\* place_sorted_array() zeroes the block; the word after it may hold anything
\* an element may be.
SInit ==
  /\ \E beyond \in Cell :
        sa_array = [j \in 0 .. MaxSize |-> IF j < MaxSize THEN 0 ELSE beyond]
  /\ sa_size = 0
  /\ held = [k \in Keys |-> 0]
  /\ sa_panic = FALSE

SNext ==
  /\ ~sa_panic
  /\ \/ \E el \in Keys : SaInsert(el)
     \/ \E i \in 0 .. MaxSize : SaRemove(i) \/ SaLookup(i)

SSpec == SInit /\ [][SNext]_svars

-----------------------------------------------------------------------------
\* The cells hold elements, and never more than the array has room for.
STypeOK ==
  /\ sa_array \in [0 .. MaxSize -> Cell]
  /\ sa_size \in 0 .. MaxSize
  /\ \A i \in 0 .. (sa_size - 1) : sa_array[i] \in Keys
  /\ held \in [Keys -> Int]
  /\ sa_panic \in BOOLEAN

\* What the array is for: after any sequence of insertions and removals the
\* elements in use are in ascending order.
Sorted ==
  \A i, j \in 0 .. (sa_size - 1) : i < j => sa_array[i] <= sa_array[j]

\* Insertion and removal move the other elements and lose or double none: the
\* elements in use are the ones inserted and not yet removed.
NothingLost ==
  \A k \in Keys : Cardinality({i \in 0 .. (sa_size - 1) : sa_array[i] = k}) = held[k]

\* The word after the block is never written: insert moves the last element
\* no further than the cell its KASSERT guarantees.
BeyondUntouched ==
  [][sa_array'[MaxSize] = sa_array[MaxSize]]_svars

=============================================================================
