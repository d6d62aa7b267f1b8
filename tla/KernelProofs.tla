---------------------------- MODULE KernelProofs -----------------------------
(***************************************************************************)
(* Proofs about the parts of the kernel that stand on their own: page      *)
(* frames, the sorted array of the heap's index, memory before the heap,   *)
(* the console and interrupts.  Each part has an invariant and theorems of *)
(* its own; they share nothing but the least number principle.             *)
(***************************************************************************)
EXTENDS Paging, SortedArray, Boot, Monitor, Interrupts,
        WellFoundedInduction, TLAPS

\* Any nonempty set of naturals has a least element.
LEMMA LeastNatural ==
  ASSUME NEW S, S \subseteq Nat, S # {}
  PROVE  \E n \in S : \A m \in S : n <= m
<1>1. PICK n \in S : \A m \in S : <<m, n>> \notin OpToRel(<, Nat)
  BY NatLessThanWellFounded, WFMin, Zenon
<1>2. OpToRel(<, Nat) = {ss \in Nat \X Nat : ss[1] < ss[2]}
  BY DEF OpToRel
<1>3. \A m \in S : ~(m < n)
  BY <1>1, <1>2, Zenon
<1>4. QED
  BY <1>3

-----------------------------------------------------------------------------
(***************************************************************************)
(* Proof that the handler of an interrupt line is never interrupted by     *)
(* another line, for any number of lines, exceptions and frames.           *)
(***************************************************************************)
Frame(S) == [int_no : S, enabled : BOOLEAN, at : {"entry", "handler", "return"}]

\* What the proof needs to know of the fields.  Which vectors the controllers deliver
\* does not matter.
Record ==
  /\ irq = [field \in DOMAIN irq |-> irq[field]]
  /\ {"stack", "enabled"} \subseteq DOMAIN irq

Typed ==
  /\ Record
  /\ (\E S : irq.stack \in Seq(Frame(S))) /\ irq.enabled \in BOOLEAN

(***************************************************************************)
(* Above the frame of a line, the flag is off and every frame has saved it *)
(* as off: no sti or iret of a nested exception can turn it on.            *)
(***************************************************************************)
OffAbove ==
  \A i \in DOMAIN irq.stack : IsIrq(irq.stack[i].int_no) =>
    /\ ~irq.enabled
    /\ \A j \in DOMAIN irq.stack : i < j => ~irq.stack[j].enabled /\ ~IsIrq(irq.stack[j].int_no)

IrqInv == Typed /\ OffAbove

\* A step that leaves the stack and the flag as they were.
LEMMA SameStackKeepsInv ==
  ASSUME IrqInv, Typed', irq'.stack = irq.stack, irq'.enabled = irq.enabled
  PROVE  IrqInv'
BY DEF IrqInv, OffAbove, IsIrq

\* A step in which the frame on top goes on.
LEMMA TopMovesKeepsInv ==
  ASSUME IrqInv, irq.stack # <<>>, irq'.enabled = irq.enabled,
         Record',
         NEW l \in {"entry", "handler", "return"},
         irq'.stack = [irq.stack EXCEPT ![Len(irq.stack)].at = l]
  PROVE  IrqInv'
<1> PICK S : irq.stack \in Seq(Frame(S))
  BY DEF IrqInv, Typed
<1>1. DOMAIN irq'.stack = DOMAIN irq.stack
  OBVIOUS
<1>2. \A i \in DOMAIN irq.stack : /\ irq'.stack[i].int_no = irq.stack[i].int_no
                                  /\ irq'.stack[i].enabled = irq.stack[i].enabled
  BY DEF Frame
<1>3. irq'.stack \in Seq(Frame(S))
  <2>1. /\ Len(irq.stack) \in Nat /\ DOMAIN irq.stack = 1 .. Len(irq.stack)
        /\ \A i \in 1 .. Len(irq.stack) : irq.stack[i] \in Frame(S)
    OBVIOUS
  <2>2. \A i \in 1 .. Len(irq.stack) : irq'.stack[i] \in Frame(S)
    BY <2>1 DEF Frame
  <2>3. irq'.stack = [i \in 1 .. Len(irq.stack) |-> irq'.stack[i]]
    BY <2>1
  <2>4. QED
    BY <2>1, <2>2, <2>3
<1>4. Typed'
  BY <1>3 DEF IrqInv, Typed
<1>5. QED
  BY <1>1, <1>2, <1>4 DEF IrqInv, OffAbove, IsIrq

\* An interrupt gate: with the flag on there is no line's frame below; with it off,
\* only an exception comes.
LEMMA PushKeepsInv ==
  ASSUME IrqInv, Record', NEW v, irq.enabled \/ ~IsIrq(v),
         irq'.stack = Append(irq.stack, [int_no |-> v, enabled |-> irq.enabled, at |-> "entry"]),
         irq'.enabled = FALSE
  PROVE  IrqInv'
<1> PICK S : irq.stack \in Seq(Frame(S))
  BY DEF IrqInv, Typed
<1> DEFINE n == Len(irq.stack)
<1>1. /\ n \in Nat /\ DOMAIN irq.stack = 1 .. n /\ DOMAIN irq'.stack = 1 .. n + 1
      /\ \A i \in 1 .. n : irq'.stack[i] = irq.stack[i]
      /\ irq'.stack[n + 1] = [int_no |-> v, enabled |-> irq.enabled, at |-> "entry"]
  OBVIOUS
<1> HIDE DEF n
<1>2. ASSUME NEW i \in 1 .. n + 1, IsIrq(irq'.stack[i].int_no), NEW j \in 1 .. n + 1, i < j
      PROVE  ~irq'.stack[j].enabled /\ ~IsIrq(irq'.stack[j].int_no)
  <2>1. i \in 1 .. n /\ IsIrq(irq.stack[i].int_no)
    BY <1>1, <1>2 DEF IsIrq
  <2>2. ~irq.enabled
    BY <1>1, <2>1, Zenon DEF IrqInv, OffAbove
  <2>3. CASE j \in 1 .. n
    BY <1>1, <1>2, <2>1, <2>3, Zenon DEF IrqInv, OffAbove, IsIrq
  <2>4. CASE j = n + 1
    BY <1>1, <2>2, <2>4 DEF IsIrq
  <2>5. QED
    BY <1>1, <2>3, <2>4
<1>3. OffAbove'
  BY <1>1, <1>2 DEF OffAbove, IsIrq
<1>4. Typed'
  <2> DEFINE T == S \cup {v}
  <2>1. irq.stack \in Seq(Frame(T))
    <3>0. \A i \in 1 .. n : irq.stack[i] \in Frame(S)
      BY <1>1
    <3>1. \A i \in 1 .. n : irq.stack[i] \in Frame(T)
      BY <3>0 DEF Frame
    <3>2. irq.stack = [i \in 1 .. n |-> irq.stack[i]]
      BY <1>1
    <3> HIDE DEF T
    <3>3. QED
      BY <1>1, <3>1, <3>2
  <2>2. [int_no |-> v, enabled |-> irq.enabled, at |-> "entry"] \in Frame(T)
    BY DEF Frame, IrqInv, Typed
  <2> HIDE DEF T
  <2>3. irq'.stack \in Seq(Frame(T))
    BY <2>1, <2>2
  <2>4. QED
    BY <2>3, Zenon DEF Typed
<1>5. QED
  BY <1>3, <1>4 DEF IrqInv

\* iret: the frame below is a line's only if the frame on top has saved the flag off.
LEMMA IretKeepsInv ==
  ASSUME IrqInv, Record', irq.stack # <<>>, irq'.enabled = Top.enabled,
         irq'.stack = SubSeq(irq.stack, 1, Len(irq.stack) - 1)
  PROVE  IrqInv'
<1> PICK S : irq.stack \in Seq(Frame(S))
  BY DEF IrqInv, Typed
<1> DEFINE n == Len(irq.stack)
<1>1. /\ n \in Nat \ {0} /\ DOMAIN irq.stack = 1 .. n /\ DOMAIN irq'.stack = 1 .. n - 1
      /\ \A i \in 1 .. n - 1 : irq'.stack[i] = irq.stack[i]
  OBVIOUS
<1>2. irq'.enabled = irq.stack[n].enabled
  BY DEF Top
<1> HIDE DEF n
<1>3. ASSUME NEW i \in 1 .. n - 1, IsIrq(irq'.stack[i].int_no)
      PROVE  /\ ~irq'.enabled
             /\ \A j \in 1 .. n - 1 : i < j => ~irq'.stack[j].enabled /\ ~IsIrq(irq'.stack[j].int_no)
  <2>1. i \in 1 .. n /\ n \in 1 .. n /\ i < n /\ IsIrq(irq.stack[i].int_no)
    BY <1>1, <1>3 DEF IsIrq
  <2>2. \A j \in 1 .. n : i < j => ~irq.stack[j].enabled /\ ~IsIrq(irq.stack[j].int_no)
    BY <1>1, <2>1, Zenon DEF IrqInv, OffAbove
  <2>3. QED
    <3>1. ~irq'.enabled
      BY <1>2, <2>1, <2>2
    <3>2. \A j \in 1 .. n - 1 : j \in 1 .. n /\ irq'.stack[j] = irq.stack[j]
      BY <1>1
    <3>3. QED
      BY <2>2, <3>1, <3>2, Zenon DEF IsIrq
<1>4. OffAbove'
  BY <1>1, <1>3 DEF OffAbove, IsIrq
<1>5. Typed'
  <2>1. irq'.stack \in Seq(Frame(S))
    OBVIOUS
  <2>2. irq'.enabled \in BOOLEAN
    <3>1. irq.stack[n] \in Frame(S)
      BY <1>1
    <3>2. QED
      BY <1>2, <3>1 DEF Frame
  <2>3. QED
    BY <2>1, <2>2 DEF Typed
<1>6. QED
  BY <1>4, <1>5 DEF IrqInv

\* irq_handler sends the end of interrupt before it calls the handler, so the
\* controllers let the next line through; that the gates of init_idt clear the flag
\* and iret restores it is enough to keep lines from nesting.
THEOREM LinesDoNotNest == ISpec => []IrqsNotNested
<1>1. IInit => IrqInv
  <2> SUFFICES ASSUME IInit
               PROVE  IrqInv
    OBVIOUS
  <2>1. irq.stack = <<>> /\ irq.enabled = FALSE
    BY DEF IInit
  <2>2. Record
    BY Zenon DEF IInit, Record
  <2>3. irq.stack \in Seq(Frame({}))
    BY <2>1
  <2>4. Typed
    BY <2>1, <2>2, <2>3, Zenon DEF Typed
  <2>5. DOMAIN irq.stack = {}
    BY <2>1
  <2>6. QED
    BY <2>4, <2>5 DEF IrqInv, OffAbove
<1>2. IrqInv /\ [INext]_irq => IrqInv'
  <2> SUFFICES ASSUME IrqInv, [INext]_irq
               PROVE  IrqInv'
    OBVIOUS
  <2>1. CASE InitIdt
    BY <2>1, SameStackKeepsInv, Zenon DEF InitIdt, IrqInv, Typed, Record
  <2>2. CASE Sti
    <3>1. irq.stack = <<>> /\ irq' = [irq EXCEPT !.enabled = TRUE]
      BY <2>2 DEF Sti
    <3>2. Typed' /\ irq'.stack = <<>>
      BY <3>1, Zenon DEF IrqInv, Typed, Record
    <3>3. QED
      BY <3>2 DEF IrqInv, OffAbove
  <2>3. CASE Acknowledge
    <3>1. /\ irq.stack # <<>> /\ irq'.enabled = irq.enabled
          /\ irq'.stack = [irq.stack EXCEPT ![Len(irq.stack)].at = "handler"]
      BY <2>3 DEF Acknowledge, IrqInv, Typed, Record, Goes
    <3>2. Record'
      BY <2>3, ZenonT(30) DEF Acknowledge, IrqInv, Typed, Record, Goes
    <3>3. QED
      BY <3>1, <3>2, TopMovesKeepsInv
  <2>4. CASE Dispatch
    <3>1. /\ irq.stack # <<>> /\ irq'.enabled = irq.enabled
          /\ irq'.stack = [irq.stack EXCEPT ![Len(irq.stack)].at = "handler"]
      BY <2>4 DEF Dispatch, IrqInv, Typed, Record, Goes
    <3>2. Record'
      BY <2>4, Zenon DEF Dispatch, IrqInv, Typed, Record, Goes
    <3>3. QED
      BY <3>1, <3>2, TopMovesKeepsInv
  <2>5. CASE Iret
    <3>1. /\ irq.stack # <<>> /\ irq'.enabled = Top.enabled
          /\ irq'.stack = SubSeq(irq.stack, 1, Len(irq.stack) - 1)
      BY <2>5 DEF Iret, IrqInv, Typed, Record, Restored
    <3>2. Record'
      BY <2>5, Zenon DEF Iret, IrqInv, Typed, Record
    <3>3. QED
      BY <3>1, <3>2, IretKeepsInv
  <2>6. CASE Handle
    <3>1. /\ irq.stack # <<>> /\ irq'.enabled = irq.enabled
          /\ irq'.stack = [irq.stack EXCEPT ![Len(irq.stack)].at = "return"]
      BY <2>6 DEF Handle, IrqInv, Typed, Record, Goes
    <3>2. Record'
      BY <2>6, Zenon DEF Handle, IrqInv, Typed, Record, Goes
    <3>3. QED
      BY <3>1, <3>2, TopMovesKeepsInv
  <2>7. ASSUME NEW l \in Lines, Raise(l)
        PROVE  IrqInv'
    BY <2>7, SameStackKeepsInv, Zenon DEF Raise, IrqInv, Typed, Record
  <2>8. ASSUME NEW l \in Lines, Deliver(l)
        PROVE  IrqInv'
    <3>1. /\ irq.enabled /\ irq'.enabled = FALSE
          /\ irq'.stack = Append(irq.stack, [int_no |-> VectorOf(l), enabled |-> irq.enabled, at |-> "entry"])
      BY <2>8, Zenon DEF Deliver, IrqInv, Typed, Record, Push
    <3>2. Record'
      BY <2>8, Zenon DEF Deliver, IrqInv, Typed, Record, Push
    <3>3. QED
      BY <3>1, <3>2, PushKeepsInv, Zenon
  <2>9. ASSUME NEW v \in Faults, Fault(v)
        PROVE  IrqInv'
    <3>1. /\ ~IsIrq(v) /\ irq'.enabled = FALSE
          /\ irq'.stack = Append(irq.stack, [int_no |-> v, enabled |-> irq.enabled, at |-> "entry"])
      BY <2>9, InterruptsAssumption DEF Fault, IrqInv, Typed, Record, Push, IsIrq, Faults
    <3>2. Record'
      BY <2>9, Zenon DEF Fault, IrqInv, Typed, Record, Push
    <3>3. QED
      BY <3>1, <3>2, PushKeepsInv, Zenon
  <2>10. ASSUME NEW freq \in Frequencies, InitTimer(freq)
         PROVE  IrqInv'
    BY <2>10, SameStackKeepsInv, Zenon DEF InitTimer, IrqInv, Typed, Record
  <2>11. CASE UNCHANGED irq
    BY <2>11 DEF IrqInv, Typed, Record, OffAbove
  <2>12. QED
    BY <2>1, <2>2, <2>3, <2>4, <2>5, <2>6, <2>7, <2>8, <2>9, <2>10, <2>11 DEF INext
<1>3. IrqInv => IrqsNotNested
  BY DEF IrqInv, OffAbove, IrqsNotNested, Typed
<1>4. QED
  BY <1>1, <1>2, <1>3, PTL DEF ISpec

-----------------------------------------------------------------------------
(***************************************************************************)
(* Proof that alloc_frame and free_frame never give two pages the same     *)
(* nonzero frame number, for any number of frames and pages.               *)
(***************************************************************************)

\* set_frame and clear_frame recover the number of a frame from its address.
LEMMA FrameOfAddress ==
  ASSUME NEW f \in Frames
  PROVE  (f * FRAME_SIZE) \div FRAME_SIZE = f
BY PagingAssumption DEF Frames

\* A frame number taken for an address is an address in frame 0.
LEMMA NumberAsAddress ==
  ASSUME NEW f \in Frames
  PROVE  f \div FRAME_SIZE = 0
BY PagingAssumption DEF Frames

\* first_frame returns a frame of physical memory whose bit is clear.
LEMMA FirstFrameIsFree ==
  ASSUME NEW fs, ~NoFreeFrame(fs)
  PROVE  FirstFrame(fs) \in Frames \ fs
<1>1. Scanned \ fs \subseteq Nat /\ Scanned \ fs # {}
  BY PagingAssumption DEF NoFreeFrame, Scanned, Frames
<1>2. \E n \in Scanned \ fs : \A m \in Scanned \ fs : n <= m
  BY <1>1, LeastNatural, Zenon
<1>3. FirstFrame(fs) \in Scanned \ fs
  BY <1>2 DEF FirstFrame, Min
<1>4. QED
  BY <1>3 DEF Scanned

PInv == PTypeOK /\ FramesNotShared /\ HeldFramesMarked

\* What an alloc_frame that succeeds leaves keeps the invariant.
LEMMA AllocFrameKeepsInv ==
  ASSUME PInv, NEW p \in PageSet, NEW k \in {0, 1}, NEW w \in {0, 1},
         AllocFrame(p, k, w)
  PROVE  PInv'
<1>1. CASE pages[p].p_frame # 0
  BY <1>1 DEF AllocFrame, PInv, PTypeOK, FramesNotShared, HeldFramesMarked
<1>2. CASE pages[p].p_frame = 0 /\ NoFreeFrame(frames)
  BY <1>2 DEF AllocFrame, PInv, PTypeOK, FramesNotShared, HeldFramesMarked
<1>3. CASE pages[p].p_frame = 0 /\ ~NoFreeFrame(frames)
  <2> DEFINE idx == FirstFrame(frames)
  <2>1. idx \in Frames /\ idx \notin frames
    BY <1>3, FirstFrameIsFree
  <2>2. (idx * FRAME_SIZE) \div FRAME_SIZE = idx
    BY <2>1, FrameOfAddress
  <2>3. /\ frames' = frames \cup {idx}
        /\ pages' = [pages EXCEPT ![p] = MappedEntry(idx, k, w)]
        /\ UNCHANGED <<tables, halted>>
    BY <1>3, <2>2 DEF AllocFrame, SetFrame
  <2> HIDE DEF idx
  <2>4. MappedEntry(idx, k, w) \in Entry /\ MappedEntry(idx, k, w).p_frame = idx
    BY <2>1 DEF MappedEntry, Entry
  <2>5. PTypeOK'
    BY <2>1, <2>3, <2>4 DEF PInv, PTypeOK
  <2>6. pages'[p].p_frame = idx /\ \A q \in PageSet \ {p} : pages'[q] = pages[q]
    BY <2>3, <2>4 DEF PInv, PTypeOK
  <2>7. \A q \in PageSet : pages[q].p_frame # 0 => pages[q].p_frame # idx
    BY <2>1 DEF PInv, HeldFramesMarked
  <2>8. FramesNotShared'
    BY <1>3, <2>6, <2>7 DEF PInv, FramesNotShared
  <2>9. HeldFramesMarked'
    BY <2>3, <2>6 DEF PInv, HeldFramesMarked
  <2>10. QED
    BY <2>5, <2>8, <2>9 DEF PInv
<1>4. QED
  BY <1>1, <1>2, <1>3

\* free_frame only ever clears the bit of frame 0, so it keeps the invariant.
LEMMA FreeFrameKeepsInv ==
  ASSUME PInv, NEW p \in PageSet, FreeFrame(p)
  PROVE  PInv'
<1>1. CASE pages[p].p_frame = 0
  BY <1>1 DEF FreeFrame, PInv, PTypeOK, FramesNotShared, HeldFramesMarked
<1>2. CASE pages[p].p_frame # 0
  <2>1. pages[p] \in Entry /\ pages[p].p_frame \in Frames
    BY DEF PInv, PTypeOK, Entry
  <2>2. frames' = frames \ {0}
    BY <1>2, <2>1, NumberAsAddress DEF FreeFrame, ClearFrame
  <2>3. /\ pages' = [pages EXCEPT ![p] = [pages[p] EXCEPT !.p_frame = 0]]
        /\ UNCHANGED <<tables, halted>>
    BY <1>2 DEF FreeFrame
  <2>4. 0 \in Frames
    BY PagingAssumption DEF Frames
  <2>5. [pages[p] EXCEPT !.p_frame = 0] \in Entry
    BY <2>1, <2>4 DEF Entry
  <2>6. PTypeOK'
    BY <2>2, <2>3, <2>5 DEF PInv, PTypeOK
  <2>7. pages'[p].p_frame = 0 /\ \A q \in PageSet \ {p} : pages'[q] = pages[q]
    BY <2>1, <2>3 DEF PInv, PTypeOK, Entry
  <2>8. FramesNotShared'
    BY <2>7 DEF PInv, FramesNotShared
  <2>9. HeldFramesMarked'
    BY <2>2, <2>7 DEF PInv, HeldFramesMarked
  <2>10. QED
    BY <2>6, <2>8, <2>9 DEF PInv
<1>3. QED
  BY <1>1, <1>2

(***************************************************************************)
(* In whatever order pages are mapped and unmapped, no two entries hold    *)
(* the same nonzero frame number, and the bitset has the bit of every      *)
(* number held.  The second fact is what makes the first one inductive.    *)
(***************************************************************************)
THEOREM FramesNeverShared == PSpec => []FramesAccounted
<1>1. PInit => PInv
  <2>1. 0 \in Frames
    BY PagingAssumption DEF Frames
  <2>2. QED
    BY <2>1 DEF PInit, PInv, PTypeOK, FramesNotShared, HeldFramesMarked, ZeroEntry, Entry
<1>2. PInv /\ [PNext]_pvars => PInv'
  <2> SUFFICES ASSUME PInv, [PNext]_pvars PROVE PInv'
    OBVIOUS
  <2>1. CASE UNCHANGED pvars
    BY <2>1 DEF pvars, PInv, PTypeOK, FramesNotShared, HeldFramesMarked
  <2>2. ASSUME NEW p \in PageSet, CreateTable(TableOf(p)) PROVE PInv'
    BY <2>2 DEF CreateTable, PInv, PTypeOK, FramesNotShared, HeldFramesMarked
  <2>3. ASSUME NEW p \in PageSet, NEW k \in {0, 1}, NEW w \in {0, 1}, AllocFrame(p, k, w)
        PROVE  PInv'
    BY <2>3, AllocFrameKeepsInv
  <2>4. ASSUME NEW p \in PageSet, FreeFrame(p) PROVE PInv'
    BY <2>4, FreeFrameKeepsInv
  <2>5. ASSUME NEW p \in PageSet, PageFault(p) PROVE PInv'
    BY <2>5 DEF PageFault, PInv, PTypeOK, FramesNotShared, HeldFramesMarked
  <2>6. QED
    BY <2>1, <2>2, <2>3, <2>4, <2>5 DEF PNext, Reachable
<1>3. PInv => FramesAccounted
  BY DEF PInv, FramesAccounted
<1>4. QED
  BY <1>1, <1>2, <1>3, PTL DEF PSpec

-----------------------------------------------------------------------------
(***************************************************************************)
(* Proof that insert_sorted_array and remove_sorted_array keep the array   *)
(* in order and within its block, for every capacity, when all keys lie in *)
(* the lower half of the unsigned range.                                   *)
(***************************************************************************)

\* The keys for which an unsigned difference read as an int has the right sign.
NearKeysOnly == \A k \in Keys : k < UINT \div 2

\* The comparison function returns an integer.
LEMMA CmpIsInt ==
  ASSUME NEW a \in Keys, NEW b \in Keys
  PROVE  Cmp(a, b) \in Int
<1>1. a - b \in Int /\ UINT \in Nat \ {0}
  BY SortedArrayAssumption
<1>2. (a - b) % UINT \in Int
  BY <1>1
<1>3. QED
  BY <1>1, <1>2 DEF Cmp, AsInt

\* Between near keys the comparison function compares.
LEMMA CmpCompares ==
  ASSUME NearKeysOnly, NEW a \in Keys, NEW b \in Keys
  PROVE  Cmp(a, b) < 0 <=> a < b
<1> DEFINE half == UINT \div 2
<1>1. UINT \in Nat /\ half \in Nat /\ UINT = 2 * half
  BY SortedArrayAssumption
<1>2. a \in Nat /\ b \in Nat /\ a < half /\ b < half
  BY SortedArrayAssumption DEF NearKeysOnly
<1> HIDE DEF half
<1>3. CASE a < b
  <2>1. (a - b) % UINT = a - b + UINT
    BY <1>1, <1>2, <1>3
  <2>2. ~((a - b) % UINT < half)
    BY <1>1, <1>2, <1>3, <2>1
  <2>3. Cmp(a, b) = a - b
    BY <1>1, <1>2, <2>1, <2>2 DEF Cmp, AsInt, half
  <2>4. QED
    BY <1>2, <1>3, <2>3
<1>4. CASE a >= b
  <2>1. (a - b) % UINT = a - b
    BY <1>1, <1>2, <1>4
  <2>2. (a - b) % UINT < half
    BY <1>1, <1>2, <1>4, <2>1
  <2>3. Cmp(a, b) = a - b
    BY <1>1, <1>2, <2>1, <2>2 DEF Cmp, AsInt, half
  <2>4. QED
    BY <1>2, <1>4, <2>3
<1>5. QED
  BY <1>2, <1>3, <1>4

\* The insertion point separates the smaller keys from the others.
LEMMA InsertionPointSeparates ==
  ASSUME NearKeysOnly, STypeOK, Sorted, NEW el \in Keys
  PROVE  /\ InsertionPoint(el) \in 0 .. sa_size
         /\ \A j \in 0 .. (InsertionPoint(el) - 1) : sa_array[j] < el
         /\ \A j \in InsertionPoint(el) .. (sa_size - 1) : el <= sa_array[j]
<1> DEFINE S == {i \in 0 .. sa_size : i < sa_size => Cmp(sa_array[i], el) >= 0}
           p == InsertionPoint(el)
<1>1. sa_size \in Nat /\ S \subseteq Nat /\ sa_size \in S
  BY SortedArrayAssumption DEF STypeOK
<1>2. \E n \in S : \A m \in S : n <= m
  BY <1>1, LeastNatural, Zenon
<1>3. p \in S /\ \A m \in S : p <= m
  BY <1>2 DEF InsertionPoint, Min
<1>4. \A j \in 0 .. (sa_size - 1) : sa_array[j] \in Keys
  BY DEF STypeOK
<1>5. Keys \subseteq Nat
  BY SortedArrayAssumption
<1> HIDE DEF p
<1>6. ASSUME NEW j \in 0 .. (p - 1) PROVE sa_array[j] < el
  <2>1. j \in 0 .. sa_size /\ j < sa_size /\ j \notin S
    BY <1>1, <1>3
  <2>2. ~(Cmp(sa_array[j], el) >= 0)
    BY <2>1
  <2>3. Cmp(sa_array[j], el) < 0
    <3>1. Cmp(sa_array[j], el) \in Int
      BY <1>1, <1>4, <2>1, CmpIsInt
    <3>2. QED
      BY <2>2, <3>1
  <2>4. QED
    BY <1>1, <1>4, <2>1, <2>3, CmpCompares
<1>7. ASSUME NEW j \in p .. (sa_size - 1) PROVE el <= sa_array[j]
  <2>1. p \in 0 .. (sa_size - 1) /\ j \in 0 .. (sa_size - 1) /\ Cmp(sa_array[p], el) >= 0
    BY <1>1, <1>3
  <2>2. ~(Cmp(sa_array[p], el) < 0)
    <3>1. Cmp(sa_array[p], el) \in Int
      BY <1>4, <2>1, CmpIsInt
    <3>2. QED
      BY <2>1, <3>1
  <2>3. ~(sa_array[p] < el)
    BY <1>4, <2>1, <2>2, CmpCompares
  <2>4. sa_array[p] \in Nat /\ sa_array[j] \in Nat /\ el \in Nat
    BY <1>4, <1>5, <2>1, Zenon
  <2>5. sa_array[p] <= sa_array[j]
    <3>1. p = j \/ p < j
      BY <1>1, <2>1
    <3>2. QED
      BY <2>1, <2>4, <3>1 DEF Sorted
  <2>6. QED
    BY <2>3, <2>4, <2>5
<1>8. QED
  BY <1>3, <1>6, <1>7 DEF p

SInv == STypeOK /\ Sorted

\* insert_sorted_array keeps the array in order and writes no cell past the
\* block.
LEMMA InsertKeepsOrder ==
  ASSUME NearKeysOnly, SInv, NEW el \in Keys, SaInsert(el)
  PROVE  SInv' /\ sa_array'[MaxSize] = sa_array[MaxSize]
<1>1. MaxSize \in Nat \ {0} /\ Keys \subseteq Nat /\ sa_size \in 0 .. MaxSize
  BY SortedArrayAssumption DEF SInv, STypeOK
<1>2. CASE sa_size >= MaxSize
  <2>1. UNCHANGED <<sa_array, sa_size, held>> /\ sa_panic' = TRUE
    BY <1>1, <1>2 DEF SaInsert
  <2>2. QED
    BY <2>1 DEF SInv, STypeOK, Sorted
<1>3. CASE sa_size < MaxSize
  <2> DEFINE p == InsertionPoint(el)
  <2>1. /\ p \in 0 .. sa_size
        /\ \A j \in 0 .. (p - 1) : sa_array[j] < el
        /\ \A j \in p .. (sa_size - 1) : el <= sa_array[j]
    BY InsertionPointSeparates DEF SInv
  <2>2. /\ sa_array' = [j \in 0 .. MaxSize |->
                          IF j = p THEN el
                          ELSE IF p < j /\ j <= sa_size THEN sa_array[j - 1]
                          ELSE sa_array[j]]
        /\ sa_size' = sa_size + 1
        /\ held' = [held EXCEPT ![el] = @ + 1]
        /\ sa_panic' = sa_panic
    BY <1>1, <1>3 DEF SaInsert
  <2> HIDE DEF p
  <2>3. ASSUME NEW j \in 0 .. sa_size
        PROVE  /\ j < p => sa_array'[j] = sa_array[j] /\ sa_array[j] \in Keys
               /\ j = p => sa_array'[j] = el
               /\ j > p => /\ sa_array'[j] = sa_array[j - 1]
                           /\ j - 1 \in p .. (sa_size - 1) /\ sa_array[j - 1] \in Keys
    <3>1. j \in 0 .. MaxSize
      BY <1>1
    <3>2. QED
      BY <1>1, <2>1, <2>2, <3>1 DEF SInv, STypeOK
  <2>4. sa_array' \in [0 .. MaxSize -> Cell]
    BY <1>1, <1>3, <2>1, <2>2 DEF SInv, STypeOK, Cell
  <2>5. ASSUME NEW j \in 0 .. sa_size
        PROVE  sa_array'[j] \in Keys /\ sa_array'[j] \in Nat
    <3>1. j \in Nat /\ p \in Nat
      BY <1>1, <2>1
    <3>2. j < p \/ j = p \/ j > p
      BY <3>1
    <3>3. QED
      BY <1>1, <2>3, <3>2, Zenon
  <2>6. sa_size' - 1 = sa_size /\ sa_size' \in 0 .. MaxSize
    BY <1>1, <1>3, <2>2
  <2>7. STypeOK'
    <3>1. held' \in [Keys -> Int] /\ sa_panic' \in BOOLEAN
      BY <2>2 DEF SInv, STypeOK
    <3>2. QED
      BY <2>4, <2>5, <2>6, <3>1, Zenon DEF STypeOK
  <2>8. ASSUME NEW i \in 0 .. sa_size, NEW j \in 0 .. sa_size, i < j
        PROVE  sa_array'[i] <= sa_array'[j]
    <3>0. i \in Nat /\ j \in Nat /\ p \in Nat /\ sa_size \in Nat
      BY <1>1, <2>1
    <3>1. CASE j < p
      BY <1>1, <2>1, <2>3, <2>8, <3>1 DEF SInv, Sorted
    <3>2. CASE i > p
      BY <1>1, <2>1, <2>3, <2>8, <3>2 DEF SInv, Sorted
    <3>3. CASE i <= p /\ p <= j
      <4>1. el \in Nat /\ sa_array'[i] \in Nat /\ sa_array'[j] \in Nat
        BY <1>1, <2>5
      <4>2. sa_array'[i] <= el
        <5>1. CASE i = p
          BY <2>3, <4>1, <5>1
        <5>2. CASE i < p
          <6>1. i \in 0 .. (p - 1) /\ sa_array'[i] = sa_array[i]
            BY <2>3, <3>0, <5>2
          <6>2. QED
            BY <2>1, <4>1, <6>1
        <5>3. QED
          BY <3>0, <3>3, <5>1, <5>2
      <4>3. el <= sa_array'[j]
        <5>1. CASE j = p
          BY <2>3, <4>1, <5>1
        <5>2. CASE j > p
          BY <2>1, <2>3, <5>2
        <5>3. QED
          BY <3>0, <3>3, <5>1, <5>2
      <4>4. QED
        BY <4>1, <4>2, <4>3
    <3>4. QED
      BY <2>8, <3>0, <3>1, <3>2, <3>3
  <2>9. Sorted'
    BY <2>6, <2>8, Zenon DEF Sorted
  <2>10. sa_array'[MaxSize] = sa_array[MaxSize]
    BY <1>1, <1>3, <2>1, <2>2
  <2>11. QED
    BY <2>7, <2>9, <2>10 DEF SInv
<1>4. QED
  BY <1>1, <1>2, <1>3

\* remove_sorted_array keeps the array in order and writes no cell past the
\* block, though it reads that cell when the array is full.
LEMMA RemoveKeepsOrder ==
  ASSUME SInv, NEW i \in 0 .. MaxSize, SaRemove(i)
  PROVE  SInv' /\ sa_array'[MaxSize] = sa_array[MaxSize]
<1>1. MaxSize \in Nat \ {0} /\ Keys \subseteq Nat /\ sa_size \in 0 .. MaxSize
  BY SortedArrayAssumption DEF SInv, STypeOK
<1>2. CASE i >= sa_size
  <2>1. UNCHANGED <<sa_array, sa_size, held>> /\ sa_panic' = TRUE
    BY <1>1, <1>2 DEF SaRemove
  <2>2. QED
    BY <2>1 DEF SInv, STypeOK, Sorted
<1>3. CASE i < sa_size
  <2>1. /\ sa_array' = [j \in 0 .. MaxSize |->
                          IF i <= j /\ j < sa_size THEN sa_array[j + 1] ELSE sa_array[j]]
        /\ sa_size' = sa_size - 1
        /\ held' = [held EXCEPT ![sa_array[i]] = @ - 1]
        /\ sa_panic' = sa_panic
    BY <1>1, <1>3 DEF SaRemove
  <2>2. ASSUME NEW j \in 0 .. (sa_size - 2)
        PROVE  /\ j < i => sa_array'[j] = sa_array[j]
               /\ j >= i => sa_array'[j] = sa_array[j + 1]
               /\ sa_array[j] \in Keys /\ sa_array[j + 1] \in Keys
    BY <1>1, <2>1 DEF SInv, STypeOK
  <2>3. sa_array' \in [0 .. MaxSize -> Cell]
    BY <1>1, <1>3, <2>1 DEF SInv, STypeOK, Cell
  <2>4. sa_size' - 1 = sa_size - 2 /\ sa_size' \in 0 .. MaxSize
    BY <1>1, <1>3, <2>1
  <2>5. STypeOK'
    <3>1. held' \in [Keys -> Int] /\ sa_panic' \in BOOLEAN
      <4>1. held' \in [Keys -> Int]
        <5>1. sa_array[i] \in Keys
          BY <1>1, <1>3 DEF SInv, STypeOK
        <5>2. held \in [Keys -> Int] /\ held[sa_array[i]] - 1 \in Int
          BY <5>1 DEF SInv, STypeOK
        <5>3. held' = [held EXCEPT ![sa_array[i]] = held[sa_array[i]] - 1]
          BY <2>1
        <5>4. QED
          BY <5>1, <5>2, <5>3
      <4>2. sa_panic' \in BOOLEAN
        BY <2>1 DEF SInv, STypeOK
      <4>3. QED
        BY <4>1, <4>2
    <3>2. \A j \in 0 .. (sa_size - 2) : sa_array'[j] \in Keys
      <4> TAKE j \in 0 .. (sa_size - 2)
      <4>1. j < i \/ j >= i
        BY <1>1
      <4>2. QED
        BY <2>2, <4>1
    <3>3. QED
      BY <2>3, <2>4, <3>1, <3>2, Zenon DEF STypeOK
  <2>6. ASSUME NEW j \in 0 .. (sa_size - 2), NEW k \in 0 .. (sa_size - 2), j < k
        PROVE  sa_array'[j] <= sa_array'[k]
    <3>1. CASE k < i
      BY <1>1, <2>2, <2>6, <3>1 DEF SInv, Sorted
    <3>2. CASE j < i /\ k >= i
      BY <1>1, <2>2, <2>6, <3>2 DEF SInv, Sorted
    <3>3. CASE j >= i
      BY <1>1, <2>2, <2>6, <3>3 DEF SInv, Sorted
    <3>4. QED
      BY <1>1, <2>6, <3>1, <3>2, <3>3
  <2>7. Sorted'
    BY <2>4, <2>6, Zenon DEF Sorted
  <2>8. sa_array'[MaxSize] = sa_array[MaxSize]
    BY <1>1, <2>1
  <2>9. QED
    BY <2>5, <2>7, <2>8 DEF SInv
<1>4. QED
  BY <1>1, <1>2, <1>3

\* Every step keeps the invariant and leaves the word after the block alone.
LEMMA StepKeepsOrder ==
  ASSUME NearKeysOnly, SInv, [SNext]_svars
  PROVE  SInv' /\ sa_array'[MaxSize] = sa_array[MaxSize]
<1>1. CASE UNCHANGED svars
  BY <1>1 DEF svars, SInv, STypeOK, Sorted
<1>2. ASSUME NEW el \in Keys, SaInsert(el)
      PROVE  SInv' /\ sa_array'[MaxSize] = sa_array[MaxSize]
  BY <1>2, InsertKeepsOrder
<1>3. ASSUME NEW i \in 0 .. MaxSize, SaRemove(i)
      PROVE  SInv' /\ sa_array'[MaxSize] = sa_array[MaxSize]
  BY <1>3, RemoveKeepsOrder
<1>4. ASSUME NEW i \in 0 .. MaxSize, SaLookup(i)
      PROVE  SInv' /\ sa_array'[MaxSize] = sa_array[MaxSize]
  BY <1>4 DEF SaLookup, SInv, STypeOK, Sorted
<1>5. QED
  BY <1>1, <1>2, <1>3, <1>4 DEF SNext

\* The empty array of place_sorted_array is in order.
LEMMA InitInOrder == SInit => SInv
<1> SUFFICES ASSUME SInit PROVE SInv
  OBVIOUS
<1>1. MaxSize \in Nat \ {0}
  BY SortedArrayAssumption
<1>2. sa_array \in [0 .. MaxSize -> Cell]
  BY DEF SInit, Cell
<1>3. QED
  <2>1. sa_size = 0 /\ sa_size \in 0 .. MaxSize /\ 0 .. (sa_size - 1) = {}
    BY <1>1 DEF SInit
  <2>2. held \in [Keys -> Int] /\ sa_panic \in BOOLEAN
    <3>1. held \in [Keys -> Int]
      BY DEF SInit
    <3>2. sa_panic \in BOOLEAN
      BY Zenon DEF SInit
    <3>3. QED
      BY <3>1, <3>2
  <2>3. STypeOK
    BY <1>2, <2>1, <2>2 DEF STypeOK
  <2>4. Sorted
    BY <2>1, Zenon DEF Sorted
  <2>5. QED
    BY <2>3, <2>4 DEF SInv

(***************************************************************************)
(* After any sequence of insertions and removals of near keys the elements *)
(* in use are in ascending order.                                          *)
(***************************************************************************)
THEOREM StaysSorted == NearKeysOnly => (SSpec => [](STypeOK /\ Sorted))
<1> SUFFICES ASSUME NearKeysOnly PROVE SSpec => [](STypeOK /\ Sorted)
  OBVIOUS
<1>1. SInv /\ [SNext]_svars => SInv'
  BY StepKeepsOrder
<1>2. SInv => STypeOK /\ Sorted
  BY DEF SInv
<1>3. QED
  BY InitInOrder, <1>1, <1>2, PTL DEF SSpec

(***************************************************************************)
(* No operation writes the word that follows the array's block: the KASSERT*)
(* "has enough room" is enough to keep the shifting loops inside it.       *)
(***************************************************************************)
THEOREM NothingWrittenBeyond == NearKeysOnly => (SSpec => BeyondUntouched)
<1> SUFFICES ASSUME NearKeysOnly PROVE SSpec => BeyondUntouched
  OBVIOUS
<1>1. SInv /\ [SNext]_svars => SInv'
  BY StepKeepsOrder
<1>2. SInv /\ [SNext]_svars => [sa_array'[MaxSize] = sa_array[MaxSize]]_svars
  BY StepKeepsOrder
<1>3. QED
  BY InitInOrder, <1>1, <1>2, PTL DEF SSpec, BeyondUntouched

-----------------------------------------------------------------------------
(***************************************************************************)
(* Proof that what _kmalloc hands out before there is a heap overlaps      *)
(* neither the image nor what it has handed out before, for any sizes.     *)
(***************************************************************************)

Labels == {"bitset", "directory", "tables", "heap", "identity", "frames", "paged"}
Regions == [lo : Nat, len : Nat, aligned : BOOLEAN]

(***************************************************************************)
(* Regions end before placement_address, which never goes back: what is    *)
(* allocated next begins behind all of them.  placement_address is never   *)
(* in the first page, where M_ALIGNED does not align.                      *)
(***************************************************************************)
BootInv ==
  /\ boot \in [pc : Labels, i : Nat, placement : Nat, bitset : Nat, image : Nat,
               regions : SUBSET Regions]
  /\ PAGE <= boot.placement /\ boot.image <= boot.placement
  /\ \A r \in boot.regions : r.lo + r.len <= boot.placement
  /\ PlacementsApart

\* M_ALIGNED: the next page boundary above the address.
LEMMA AlignedIsNextPage ==
  ASSUME NEW a \in Nat, a >= PAGE
  PROVE  Aligned(a) \in Nat /\ Aligned(a) > a /\ Aligned(a) % PAGE = 0
<1>1. PAGE \in Nat \ {0}
  BY BootAssumption
<1> DEFINE q == a \div PAGE
<1>2. q \in Nat /\ a < q * PAGE + PAGE
  BY <1>1
<1>3. q * PAGE + PAGE = (q + 1) * PAGE
  BY <1>1, <1>2
<1>4. ((q + 1) * PAGE) % PAGE = 0
  BY <1>1, <1>2
<1>5. QED
  BY <1>1, <1>2, <1>3, <1>4 DEF Aligned

\* A region begins behind placement_address.
LEMMA RegionIsNew ==
  ASSUME BootInv, NEW len \in Nat, NEW aligned \in BOOLEAN
  PROVE  /\ Region(len, aligned) \in Regions
         /\ Region(len, aligned).lo >= boot.placement
         /\ Region(len, aligned).len = len
         /\ Region(len, aligned).aligned => Region(len, aligned).lo % PAGE = 0
BY AlignedIsNextPage DEF BootInv, Region, Regions

\* kmalloc0 of such a region keeps the invariant.
LEMMA KmallocKeepsInv ==
  ASSUME BootInv, NEW r \in Regions, r.lo >= boot.placement,
         r.aligned => r.lo % PAGE = 0,
         NEW pc \in Labels, NEW i \in Nat,
         boot' = [Kmalloc0(r) EXCEPT !.pc = pc, !.i = i]
  PROVE  BootInv'
<1> DEFINE rs == boot.regions \cup {r}
<1>a. r.lo \in Nat /\ r.len \in Nat /\ r.lo + r.len \in Nat
  BY DEF Regions
<1>b. rs \in SUBSET Regions
  BY DEF BootInv
<1>c. boot' = [boot EXCEPT !.placement = r.lo + r.len, !.regions = rs, !.pc = pc, !.i = i]
  BY DEF Kmalloc0
<1>d. boot' = [pc |-> pc, i |-> i, placement |-> r.lo + r.len, bitset |-> boot.bitset,
               image |-> boot.image, regions |-> rs]
  BY <1>c, Zenon DEF BootInv
<1>e. boot.bitset \in Nat /\ boot.image \in Nat
  BY DEF BootInv
<1> HIDE DEF rs
<1>1. /\ boot'.placement = r.lo + r.len /\ boot'.image = boot.image
      /\ boot'.regions = rs
      /\ boot' \in [pc : Labels, i : Nat, placement : Nat, bitset : Nat, image : Nat,
                    regions : SUBSET Regions]
  <2>1. boot'.placement = r.lo + r.len /\ boot'.image = boot.image /\ boot'.regions = rs
    BY <1>c, Zenon DEF BootInv
  <2>2. boot' \in [pc : Labels, i : Nat, placement : Nat, bitset : Nat, image : Nat,
                   regions : SUBSET Regions]
    BY <1>a, <1>b, <1>d, <1>e
  <2>3. QED
    BY <2>1, <2>2
<1> USE DEF rs
<1>2. \A q \in boot.regions : q \in Regions /\ q.lo + q.len <= r.lo
  BY DEF BootInv, Regions
<1>3. \A q \in boot'.regions : q.lo + q.len <= boot'.placement
  BY <1>1, <1>2 DEF Regions
<1>4. PlacementsApart'
  BY <1>1, <1>2 DEF BootInv, PlacementsApart, Regions
<1>5. PAGE <= boot'.placement /\ boot'.image <= boot'.placement
  BY <1>1, BootAssumption DEF BootInv, Regions
<1>6. QED
  BY <1>1, <1>3, <1>4, <1>5 DEF BootInv

\* A step of init_paging that allocates nothing.
LEMMA MovingOnKeepsInv ==
  ASSUME BootInv, NEW pc \in Labels, NEW i \in Nat,
         boot' = [boot EXCEPT !.pc = pc, !.i = i]
  PROVE  BootInv'
BY Zenon DEF BootInv, PlacementsApart

\* get_page makes a table.
LEMMA GetPageKeepsInv ==
  ASSUME BootInv, NEW page, GetPage(page)
  PROVE  BootInv'
<1> DEFINE r == Region(PAGE, TRUE)
<1>1. r \in Regions /\ r.lo >= boot.placement /\ (r.aligned => r.lo % PAGE = 0)
  BY RegionIsNew, BootAssumption, Zenon
<1>2. boot' = Kmalloc0(r)
  BY DEF GetPage
<1> HIDE DEF r
<1>3. Kmalloc0(r) = [Kmalloc0(r) EXCEPT !.pc = boot.pc, !.i = boot.i]
  BY Zenon DEF Kmalloc0, BootInv
<1>4. boot.pc \in Labels /\ boot.i \in Nat
  BY Zenon DEF BootInv
<1>5. QED
  BY <1>1, <1>2, <1>3, <1>4, KmallocKeepsInv, Zenon

\* The placement half of _kmalloc: regions lie apart from each other and from the
\* image, and are aligned where asked, for every end of the image behind the first
\* page and all sizes of the structures.
THEOREM PlacementsStayApart == BootSpec => []PlacementsApart
<1>1. BootInit => BootInv
  BY BootAssumption DEF BootInit, BootInv, PlacementsApart, Regions, Labels
<1>2. BootInv /\ [BootNext]_bootvars => BootInv'
  <2> SUFFICES ASSUME BootInv, [BootNext]_bootvars
               PROVE  BootInv'
    OBVIOUS
  <2> USE BootAssumption
  <2>0. /\ boot.pc \in Labels /\ boot.i \in Nat /\ boot.i + 1 \in Nat
        /\ {"directory", "tables", "heap", "identity", "frames", "paged"} \subseteq Labels
        /\ 0 \in Nat /\ HEAP_START \in Nat
    BY SMTT(30) DEF BootInv, Labels
  <2>1. CASE AllocBitset
    <3>1. BitsetBytes \in Nat
      BY DEF BitsetBytes
    <3> DEFINE r == Region(BitsetBytes, FALSE)
    <3>2. r \in Regions /\ r.lo >= boot.placement /\ (r.aligned => r.lo % PAGE = 0)
      BY <3>1, RegionIsNew, Zenon
    <3>3. boot' = [Kmalloc0(r) EXCEPT !.pc = "directory", !.i = boot.i]
      BY <2>1, Zenon DEF AllocBitset, Kmalloc0, BootInv
    <3> HIDE DEF r
    <3>4. QED
      BY <2>0, <3>2, <3>3, KmallocKeepsInv, Zenon
  <2>2. CASE AllocDirectory
    <3> DEFINE r == Region(DIRECTORY, TRUE)
    <3>2. r \in Regions /\ r.lo >= boot.placement /\ (r.aligned => r.lo % PAGE = 0)
      BY RegionIsNew, Zenon
    <3>3. boot' = [Kmalloc0(r) EXCEPT !.pc = "tables", !.i = boot.i]
      BY <2>2, Zenon DEF AllocDirectory, Kmalloc0, BootInv
    <3> HIDE DEF r
    <3>4. QED
      BY <2>0, <3>2, <3>3, KmallocKeepsInv, Zenon
  <2>3. CASE HeapTables
    <3>1. CASE GetPage(boot.i)
      BY <2>0, <3>1, GetPageKeepsInv, Zenon
    <3>2. CASE boot' = [boot EXCEPT !.i = @ + 1]
      <4>1. boot' = [boot EXCEPT !.pc = boot.pc, !.i = boot.i + 1]
        BY <3>2, Zenon DEF BootInv
      <4>2. QED
        BY <2>0, <4>1, MovingOnKeepsInv, Zenon
    <3>3. CASE boot' = [boot EXCEPT !.pc = "heap"]
      <4>1. boot' = [boot EXCEPT !.pc = "heap", !.i = boot.i]
        BY <3>3, Zenon DEF BootInv
      <4>2. QED
        BY <2>0, <4>1, MovingOnKeepsInv, Zenon
    <3>4. QED
      BY <2>3, <3>1, <3>2, <3>3 DEF HeapTables
  <2>4. CASE AllocHeap
    <3> DEFINE r == Region(HEAP_STRUCT, FALSE)
    <3>2. r \in Regions /\ r.lo >= boot.placement /\ (r.aligned => r.lo % PAGE = 0)
      BY RegionIsNew, ZenonT(30)
    <3>3. boot' = [Kmalloc0(r) EXCEPT !.pc = "identity", !.i = 0]
      BY <2>4 DEF AllocHeap
    <3> HIDE DEF r
    <3>4. QED
      BY <2>0, <3>2, <3>3, KmallocKeepsInv, Zenon
  <2>5. CASE IdentityMap
    <3>1. CASE GetPage(boot.i)
      BY <2>0, <3>1, GetPageKeepsInv, Zenon
    <3>2. CASE boot' = [boot EXCEPT !.i = @ + 1]
      <4>1. boot' = [boot EXCEPT !.pc = boot.pc, !.i = boot.i + 1]
        BY <3>2, Zenon DEF BootInv
      <4>2. QED
        BY <2>0, <4>1, MovingOnKeepsInv, Zenon
    <3>3. CASE boot' = [boot EXCEPT !.pc = "frames", !.i = HEAP_START]
      BY <2>0, <3>3, MovingOnKeepsInv, Zenon
    <3>4. QED
      BY <2>5, <3>1, <3>2, <3>3, Zenon DEF IdentityMap
  <2>6. CASE HeapFrames
    <3>1. CASE boot' = [boot EXCEPT !.i = @ + 1]
      <4>1. boot' = [boot EXCEPT !.pc = boot.pc, !.i = boot.i + 1]
        BY <3>1, Zenon DEF BootInv
      <4>2. QED
        BY <2>0, <4>1, MovingOnKeepsInv, Zenon
    <3>2. CASE boot' = [boot EXCEPT !.pc = "paged"]
      <4>1. boot' = [boot EXCEPT !.pc = "paged", !.i = boot.i]
        BY <3>2, Zenon DEF BootInv
      <4>2. QED
        BY <2>0, <4>1, MovingOnKeepsInv, Zenon
    <3>3. QED
      BY <2>6, <3>1, <3>2, Zenon DEF HeapFrames
  <2>7. CASE UNCHANGED bootvars
    BY <2>7 DEF BootInv, PlacementsApart, bootvars
  <2>8. QED
    BY <2>1, <2>2, <2>3, <2>4, <2>5, <2>6, <2>7, Zenon DEF BootNext
<1>3. BootInv => PlacementsApart
  BY DEF BootInv
<1>4. QED
  BY <1>1, <1>2, <1>3, PTL DEF BootSpec

-----------------------------------------------------------------------------
(***************************************************************************)
(* Proofs about the console, for every screen size, tab stop and set of    *)
(* glyphs allowed by MonitorAssumption.                                    *)
(***************************************************************************)

\* The inductive invariant: the cursor on the screen is what keeps the stores
\* of mon_putchar inside the frame buffer, and so the frame buffer's type.
Inv == TypeOK /\ CursorOnScreen

\* The screen has at least one line and one column.
LEMMA ScreenSize ==
  /\ MON_WIDTH \in Nat /\ MON_WIDTH > 0
  /\ MON_HEIGHT \in Nat /\ MON_HEIGHT > 0
  /\ TAB \in Nat /\ TAB > 0
BY MonitorAssumption

\* A line and a column of the screen name a cell of the frame buffer.
LEMMA CellOfPosition ==
  ASSUME NEW x \in Nat, NEW y \in Nat, x < MON_WIDTH, y < MON_HEIGHT
  PROVE  CellAt(x, y) \in Cells /\ CellAt(x, y) \in Nat
<1>1. MON_WIDTH * (y + 1) <= MON_WIDTH * MON_HEIGHT
  BY ScreenSize
<1>2. MON_WIDTH * (y + 1) = MON_WIDTH * y + MON_WIDTH
  BY ScreenSize
<1>3. MON_WIDTH * y \in Nat /\ MON_WIDTH * MON_HEIGHT \in Nat
  BY ScreenSize
<1> DEFINE below == MON_WIDTH * y
           all   == MON_WIDTH * MON_HEIGHT
<1>4. below + MON_WIDTH <= all /\ below \in Nat /\ all \in Nat
  BY <1>1, <1>2, <1>3
<1> HIDE DEF below, all
<1>5. below + x \in 0 .. (all - 1) /\ below + x \in Nat
  BY <1>4, ScreenSize
<1> QED
  BY <1>5 DEF Cells, CellAt, below, all

\* The cell one line further down a screen that has it is a cell.
LEMMA CellBelow ==
  ASSUME NEW i \in Cells, i < MON_WIDTH * (MON_HEIGHT - 1)
  PROVE  i + MON_WIDTH \in Cells
<1>1. MON_WIDTH * (MON_HEIGHT - 1) = MON_WIDTH * MON_HEIGHT - MON_WIDTH
  BY ScreenSize
<1>2. MON_WIDTH * MON_HEIGHT \in Nat
  BY ScreenSize
<1> DEFINE all == MON_WIDTH * MON_HEIGHT
<1>3. i < all - MON_WIDTH /\ all \in Nat /\ i \in 0 .. (all - 1)
  BY <1>1, <1>2 DEF Cells
<1> HIDE DEF all
<1>4. i + MON_WIDTH \in 0 .. (all - 1)
  BY <1>3, ScreenSize
<1> QED
  BY <1>4 DEF all, Cells

\* Any character class that leaves a well-typed frame buffer and a cursor on
\* the screen, past its right margin or just below it, is followed by a tail
\* that puts the cursor back on the screen.
LEMMA SettleKeepsInv ==
  ASSUME Inv,
         NEW vm \in [Cells -> Glyphs \cup {BLANK}],
         NEW x \in Nat, NEW y \in Nat, y <= MON_HEIGHT,
         Settle(vm, x, y)
  PROVE  Inv'
<1> DEFINE y1 == IF x >= MON_WIDTH THEN y + 1 ELSE y
<1>1. /\ cursor_x' \in Nat /\ cursor_x' < MON_WIDTH
      /\ y1 \in Nat
      /\ Scroll(vm, y1)
      /\ hw_cursor' = CellAt(cursor_x', cursor_y')
  BY ScreenSize DEF Settle, MoveCursor
<1> HIDE DEF y1
<1>2. cursor_y' \in Nat /\ cursor_y' < MON_HEIGHT
  BY <1>1, ScreenSize DEF Scroll
<1>3. video_memory' \in [Cells -> Glyphs \cup {BLANK}]
  <2>1. CASE y1 < MON_HEIGHT
    BY <1>1, <2>1, ScreenSize DEF Scroll
  <2>2. CASE y1 >= MON_HEIGHT
    <3> DEFINE last == MON_WIDTH * (MON_HEIGHT - 1)
    <3>1. \A i \in Cells : i < last => i + MON_WIDTH \in Cells
      BY CellBelow
    <3>2. video_memory' = [i \in Cells |->
                             IF i < last THEN vm[i + MON_WIDTH] ELSE BLANK]
      BY <1>1, <2>2, ScreenSize DEF Scroll
    <3> HIDE DEF last
    <3> QED
      BY <3>1, <3>2
  <2> QED
    BY <1>1, <2>1, <2>2, ScreenSize
<1>4. scrolled' \in Seq([Columns -> Glyphs \cup {BLANK}])
  <2>1. Line(vm, 0) \in [Columns -> Glyphs \cup {BLANK}]
    <3>1. ASSUME NEW c \in Columns
          PROVE  CellAt(c, 0) \in Cells
      <4>1. c \in Nat /\ c < MON_WIDTH /\ 0 < MON_HEIGHT
        BY ScreenSize DEF Columns
      <4> QED
        BY <4>1, CellOfPosition
    <3> QED
      BY <3>1 DEF Line
  <2>2. scrolled \in Seq([Columns -> Glyphs \cup {BLANK}])
    BY DEF Inv, TypeOK
  <2>3. scrolled' = scrolled \/ scrolled' = Append(scrolled, Line(vm, 0))
    BY <1>1 DEF Scroll
  <2> QED
    BY <2>1, <2>2, <2>3
<1>5. CellAt(cursor_x', cursor_y') \in Cells /\ CellAt(cursor_x', cursor_y') \in Nat
  BY <1>1, <1>2, CellOfPosition
<1>6. TypeOK'
  BY <1>1, <1>2, <1>3, <1>4, <1>5, Zenon DEF TypeOK
<1>7. CursorOnScreen'
  <2>1. (CellAt(cursor_x, cursor_y))' = CellAt(cursor_x', cursor_y')
    BY DEF CellAt
  <2> QED
    BY <1>1, <1>2, <1>5, <2>1 DEF CursorOnScreen
<1> QED
  BY <1>6, <1>7 DEF Inv

\* Whatever is printed, between two characters the cursor is on the screen, so
\* no store of mon_putchar leaves the frame buffer.
THEOREM CursorStaysOnScreen == Spec => [](TypeOK /\ CursorOnScreen)
<1>0. CellAt(0, 0) \in Cells /\ CellAt(0, 0) = 0
  BY CellOfPosition, ScreenSize DEF CellAt
<1>1. Init => Inv
  <2> SUFFICES ASSUME Init PROVE Inv
    OBVIOUS
  <2>1. video_memory \in [Cells -> Glyphs \cup {BLANK}]
    BY DEF Init
  <2> QED
    BY <1>0, <2>1, ScreenSize DEF Init, Inv, TypeOK, CursorOnScreen
<1>2. Inv /\ [Next]_vars => Inv'
  <2> SUFFICES ASSUME Inv, [Next]_vars PROVE Inv'
    OBVIOUS
  <2>0. /\ video_memory \in [Cells -> Glyphs \cup {BLANK}]
        /\ cursor_x \in Nat /\ cursor_x < MON_WIDTH
        /\ cursor_y \in Nat /\ cursor_y < MON_HEIGHT
        /\ CellAt(cursor_x, cursor_y) \in Cells
        /\ cursor_y <= MON_HEIGHT
    BY ScreenSize DEF Inv, TypeOK, CursorOnScreen
  <2>1. CASE Backspace
    <3>1. cursor_x > 0 /\ Settle(video_memory, cursor_x - 1, cursor_y)
      BY <2>1 DEF Backspace
    <3>2. cursor_x - 1 \in Nat
      BY <2>0, <3>1
    <3> QED
      BY <2>0, <3>1, <3>2, SettleKeepsInv
  <2>2. CASE Tab
    <3> DEFINE t == ((cursor_x + TAB) \div TAB) * TAB
    <3>1. (cursor_x + TAB) \div TAB \in Nat
      BY <2>0, ScreenSize
    <3>2. t \in Nat
      BY <3>1, ScreenSize
    <3>3. Settle(video_memory, t, cursor_y)
      BY <2>2 DEF Tab
    <3> HIDE DEF t
    <3> QED
      BY <2>0, <3>2, <3>3, SettleKeepsInv
  <2>3. CASE CarriageReturn
    BY <2>0, <2>3, SettleKeepsInv DEF CarriageReturn
  <2>4. CASE NewLine
    <3>1. cursor_y + 1 \in Nat /\ cursor_y + 1 <= MON_HEIGHT
      BY <2>0, ScreenSize
    <3> QED
      BY <2>0, <2>4, <3>1, SettleKeepsInv DEF NewLine
  <2>5. ASSUME NEW g \in Glyphs, Printable(g)
        PROVE  Inv'
    <3> DEFINE vm == [video_memory EXCEPT ![CellAt(cursor_x, cursor_y)] = g]
    <3>1. vm \in [Cells -> Glyphs \cup {BLANK}]
      BY <2>0
    <3>2. Settle(vm, cursor_x + 1, cursor_y)
      BY <2>5 DEF Printable
    <3>3. cursor_x + 1 \in Nat
      BY <2>0
    <3> HIDE DEF vm
    <3> QED
      BY <2>0, <3>1, <3>2, <3>3, SettleKeepsInv
  <2>6. CASE Ignored
    BY <2>0, <2>6, SettleKeepsInv DEF Ignored
  <2>7. CASE Clear
    <3>1. (CellAt(cursor_x, cursor_y))' = CellAt(cursor_x', cursor_y')
      BY DEF CellAt
    <3>2. video_memory' \in [Cells -> Glyphs \cup {BLANK}]
      BY <2>7 DEF Clear
    <3> QED
      BY <1>0, <2>7, <3>1, <3>2, ScreenSize
         DEF Clear, MoveCursor, Inv, TypeOK, CursorOnScreen
  <2>8. CASE UNCHANGED vars
    <3>1. (CellAt(cursor_x, cursor_y))' = CellAt(cursor_x, cursor_y)
      BY <2>8 DEF CellAt, vars
    <3> QED
      BY <2>8, <3>1 DEF vars, Inv, TypeOK, CursorOnScreen
  <2> QED
    BY <2>1, <2>2, <2>3, <2>4, <2>5, <2>6, <2>7, <2>8, Zenon DEF Next, PutChar
<1>3. Inv => TypeOK /\ CursorOnScreen
  BY DEF Inv
<1> QED
  BY <1>1, <1>2, <1>3, PTL DEF Spec

=============================================================================
