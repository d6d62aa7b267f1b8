--------------------------------- MODULE Heap --------------------------------
(***************************************************************************)
(* The kernel heap (heap.c) on top of the page tables it grows and shrinks *)
(* through (paging.c).                                                     *)
(*                                                                         *)
(* Memory is a function from word addresses to words: a header is three    *)
(* words (hh_magic, hh_is_hole, hh_size) and a footer two (hf_magic,       *)
(* hf_header), so sizes and addresses are in units of four bytes.  The     *)
(* index is the sequence of header addresses in the order of the array;    *)
(* sizes are read from memory when they are compared, as in the code.      *)
(*                                                                         *)
(* alloc() may call expand(), which may need a page table, which is        *)
(* allocated by alloc() again: the calls in progress are a stack.          *)
(***************************************************************************)
EXTENDS Paging, SequencesExt

CONSTANTS
  PAGE,             \* words in a page (1024)
  HEAP_START,       \* VM_KERN_HEAP_START
  INITIAL_SIZE,     \* VM_KERN_HEAP_INITIAL_SIZE
  HEAP_MAX,         \* h_addr_max
  INDEX_SIZE,       \* VM_HEAP_INDEX_SIZE: pointers the index has room for
  MIN_SIZE,         \* VM_HEAP_MIN_SIZE
  SUPERVISOR,       \* h_su
  READONLY,         \* h_ro
  UINT,             \* how many unsigned integers there are (2^32 bytes)
  Requests          \* what clients may ask for: [len, aligned, zero]

HDR == 3
FTR == 2
OVERHEAD == HDR + FTR

\* VM_HEAP_HDR_MAGIC and VM_HEAP_FTR_MAGIC: numbers that are no address.
HDR_MAGIC == UINT + 1
FTR_MAGIC == UINT + 2

VARIABLES
  mem,              \* the words of the heap's address range
  h_index,          \* the index: addresses of the headers of holes
  h_addr_end,       \* end of the heap's space
  blocks,           \* history: what the clients hold, oldest first
  stack             \* calls of alloc and expand in progress, outermost first

hvars == <<mem, h_index, h_addr_end, blocks, stack>>
vars == <<hvars, pvars>>

U(n) == n % UINT
AsInt(u) == IF u < UINT \div 2 THEN u ELSE u - UINT

\* The page boundary above n, for any n of at least a page: a boundary is
\* moved to the next one.
NextPage(n) == IF n >= PAGE THEN (n \div PAGE + 1) * PAGE ELSE n

h_addr_start == NextPage(HEAP_START + INDEX_SIZE)

ASSUME HeapAssumption ==
  /\ PAGE \in Nat /\ PAGE > OVERHEAD
  /\ HEAP_START % PAGE = 0 /\ INITIAL_SIZE % PAGE = 0 /\ HEAP_MAX % PAGE = 0
  /\ HEAP_START >= PAGE /\ UINT % (2 * PAGE) = 0
  /\ h_addr_start + OVERHEAD < HEAP_START + INITIAL_SIZE
  /\ HEAP_START + INITIAL_SIZE <= HEAP_MAX /\ HEAP_MAX < UINT
  /\ PageSet = (HEAP_START \div PAGE) .. (HEAP_MAX \div PAGE)
  /\ INITIAL_SIZE \div PAGE < NFRAMES
  /\ Requests \subseteq [len : Nat, aligned : BOOLEAN, zero : BOOLEAN]

Addresses == HEAP_START .. (HEAP_MAX + PAGE - 1)

-----------------------------------------------------------------------------
(***************************************************************************)
(* Memory holds the words the heap has written; any other word, client     *)
(* data included, reads as 0, which is neither a magic number nor a flag.  *)
(***************************************************************************)
Word(m, a) == IF a \in DOMAIN m THEN m[a] ELSE 0

Store(m, a, w) == (a :> w) @@ m

Magic(m, a) == Word(m, a)
IsHole(m, hdr) == Word(m, hdr + 1)
Size(m, hdr) == Word(m, hdr + 2)
HeaderOf(m, ftr) == Word(m, ftr + 1)

PutHeader(m, hdr, is_hole, size) ==
  (hdr :> HDR_MAGIC) @@ (hdr + 1 :> is_hole) @@ (hdr + 2 :> size) @@ m

PutFooter(m, ftr, hdr) == (ftr :> FTR_MAGIC) @@ (ftr + 1 :> hdr) @@ m

Span(from, len) == from .. (from + len - 1)

Zeroed(m, from, len) == Restrict(m, DOMAIN m \ Span(from, len))

PageOf(a) == a \div PAGE

(***************************************************************************)
(* What becomes of the kernel when it accesses the addresses in touched:   *)
(* a page that was never mapped is a page fault; a page whose frame was    *)
(* given back is still present and leads to physical frame 0.              *)
(***************************************************************************)
Outcome(pt, touched) ==
  LET at == {PageOf(a) : a \in touched}
  IN  IF \E p \in at : p \notin PageSet \/ pt[p].p_present = 0 THEN "pagefault"
      ELSE IF \E p \in at : pt[p].p_frame = 0 THEN "stray"
      ELSE "no"

-----------------------------------------------------------------------------
(***************************************************************************)
(* The index, a sorted array of headers (SortedArray models the array).    *)
(***************************************************************************)

\* vm_heap_header_cmp.
HeaderCmp(m, a, b) == AsInt(U(Size(m, a) - Size(m, b)))

\* For the mutation of IndexPoint: a new hole goes to the front.
IndexPoint_Front(m, index, hdr) == 1

\* Where insert_sorted_array puts hdr.
IndexPoint(m, index, hdr) ==
  Min({i \in 1 .. Len(index) + 1 :
         i <= Len(index) => HeaderCmp(m, index[i], hdr) >= 0})

IndexInsert(m, index, hdr) == InsertAt(index, IndexPoint(m, index, hdr), hdr)

\* The headers the insertion compares hdr with.
Compared(m, index, hdr) ==
  {index[i] : i \in 1 .. Min({IndexPoint(m, index, hdr), Len(index)})} \cup {hdr}

-----------------------------------------------------------------------------
(***************************************************************************)
(* A call of alloc: how many words, page aligned or not, zeroed by kmalloc *)
(* or not, and the page table it is for (NoTable for a client).            *)
(***************************************************************************)
NoTable == -1

Call(len, aligned, zero, table) ==
  [op |-> "alloc", len |-> len, aligned |-> aligned, zero |-> zero, table |-> table]

\* How far find_smallest_hole skips to align the data of a block at hdr.
AlignSkip(hdr) == IF hdr + HDR >= PAGE THEN PAGE - ((hdr + HDR) % PAGE) ELSE 0

Fits(m, hdr, size, aligned) ==
  IF aligned THEN AsInt(U(Size(m, hdr) - AlignSkip(hdr))) >= AsInt(size)
             ELSE Size(m, hdr) >= size

\* find_smallest_hole: the first hole in index order that fits, 0 if none.
FindSmallestHole(size, aligned) ==
  SelectInSeq(h_index, LAMBDA hdr : Fits(mem, hdr, size, aligned))

\* Is what would be left of the hole too small for a hole of its own?
Absorbs(hole_size, size) == U(hole_size - size) < OVERHEAD

\* The words between header and footer of a block of new_size.
Payload(len, new_size, asked) == U(len + new_size - asked)

\* For the mutation of AlignedPos: room for the header is forgotten.
AlignedPos_NoHeader(hole) == hole + PAGE - (hole % PAGE)

\* Where in a hole the header of a block with aligned data goes.
AlignedPos(hole) == hole + PAGE - (hole % PAGE) - HDR

(***************************************************************************)
(* alloc() once a hole is found, lines 214 to 273: the memory and index it *)
(* leaves, the pointer it returns and the addresses it touches.            *)
(***************************************************************************)
Carve(call, i) ==
  LET hole     == h_index[i]
      found    == Size(mem, hole)
      asked    == U(call.len + OVERHEAD)
      new_size == IF Absorbs(found, asked) THEN found ELSE asked
      size     == Payload(call.len, new_size, asked)
      in_front == call.aligned /\ hole >= PAGE
      gap      == U(PAGE - (hole % PAGE) - HDR)
      pos      == IF in_front THEN AlignedPos(hole) ELSE hole
      m1       == IF in_front THEN PutFooter(PutHeader(mem, hole, 1, gap), pos - FTR, hole)
                              ELSE mem
      index1   == IF in_front THEN h_index ELSE RemoveAt(h_index, i)
      left     == IF in_front THEN U(found - Size(m1, hole)) ELSE found
      m2       == PutFooter(PutHeader(m1, pos, 0, new_size), pos + HDR + size, pos)
      rest     == U(left - new_size)
      tail     == pos + HDR + size + FTR
      tail_ftr == U(tail + rest - FTR)
      m3       == PutHeader(m2, tail, 1, rest)
      m4       == IF tail_ftr < h_addr_end THEN PutFooter(m3, tail_ftr, tail) ELSE m3
      m        == IF rest > 0 THEN m4 ELSE m2
      full     == rest > 0 /\ Len(index1) >= INDEX_SIZE
      ptr      == pos + HDR
  IN  [ mem     |-> IF call.zero THEN Zeroed(m, ptr, call.len) ELSE m,
        index   |-> IF rest > 0 THEN IndexInsert(m4, index1, tail) ELSE index1,
        full    |-> full,
        ptr     |-> ptr,
        touched |-> {h_index[j] : j \in 1 .. i}
                      \cup Span(pos, HDR) \cup Span(pos + HDR + size, FTR)
                      \cup (IF in_front THEN Span(hole, HDR) \cup Span(pos - FTR, FTR) ELSE {})
                      \cup (IF rest > 0 THEN Span(tail, HDR) ELSE {})
                      \cup (IF rest > 0 /\ ~full THEN Compared(m4, index1, tail) ELSE {})
                      \cup (IF rest > 0 /\ tail_ftr < h_addr_end THEN Span(tail_ftr, FTR) ELSE {})
                      \cup (IF call.zero /\ ~full THEN Span(ptr, call.len) ELSE {}) ]

-----------------------------------------------------------------------------
Halt(why) ==
  /\ halted' = why
  /\ UNCHANGED <<hvars, frames, pages, tables>>

Running == halted = "no"
Idle == Running /\ stack = <<>>

\* The call in progress is an alloc (an expand).
InAlloc == Running /\ stack # <<>> /\ Last(stack).op = "alloc"
InExpand == Running /\ stack # <<>> /\ Last(stack).op = "expand"

\* kmalloc() and its variants enter alloc().
Kmalloc(len, aligned, zero) ==
  /\ Idle
  /\ stack' = <<Call(len, aligned, zero, NoTable)>>
  /\ UNCHANGED <<mem, h_index, h_addr_end, blocks, pvars>>

(***************************************************************************)
(* alloc() finds a hole and returns.  A client gets its block; get_page    *)
(* enters the new page table in the directory and expand() goes on.        *)
(***************************************************************************)
AllocPlace ==
  /\ InAlloc
  /\ LET call == Last(stack)
         i    == FindSmallestHole(U(call.len + OVERHEAD), call.aligned)
     IN  /\ i # 0
         /\ \E c \in {Carve(call, i)} :
            \/ /\ Outcome(pages, c.touched) # "no"
               /\ Halt(Outcome(pages, c.touched))
            \/ /\ Outcome(pages, c.touched) = "no" /\ c.full
               /\ Halt("panic")
            \/ /\ Outcome(pages, c.touched) = "no" /\ ~c.full
               /\ mem' = c.mem
               /\ h_index' = c.index
               /\ stack' = Front(stack)
               /\ blocks' = Append(blocks, [ptr |-> c.ptr, len |-> call.len,
                                            aligned |-> call.aligned, table |-> call.table])
               /\ tables' = IF call.table = NoTable THEN tables
                                                    ELSE tables \cup {call.table}
               /\ UNCHANGED <<h_addr_end, frames, pages, halted>>

\* For the mutation of GrownLength: down to the page boundary below.
GrownLength_Down(wanted) == (wanted \div PAGE) * PAGE

\* The length expand() makes of the one it is asked for.
GrownLength(wanted) == U(NextPage(wanted))

\* "don't overflow the heap"
WithinMax(new_size) == U(h_addr_start + new_size) <= HEAP_MAX

(***************************************************************************)
(* alloc() finds none and calls expand(), which checks the new length.     *)
(***************************************************************************)
AllocGrow ==
  /\ InAlloc
  /\ LET call       == Last(stack)
         asked      == U(call.len + OVERHEAD)
         old_length == h_addr_end - h_addr_start
         wanted     == U(old_length + asked)
         new_size   == GrownLength(wanted)
     IN  /\ FindSmallestHole(asked, call.aligned) = 0
         /\ IF wanted > old_length /\ WithinMax(new_size)
            THEN /\ stack' = Append(stack, [op |-> "expand", i |-> old_length,
                                            new_size |-> new_size,
                                            old_length |-> old_length,
                                            old_end |-> h_addr_end])
                 /\ UNCHANGED <<mem, h_index, h_addr_end, blocks, pvars>>
            ELSE Halt("panic")

\* For the mutation of PageLeft: the last page of the new space is left out.
PageLeft_AllButLast(call) == call.i + PAGE < call.new_size

\* The condition of expand's loop.
PageLeft(call) == call.i < call.new_size

(***************************************************************************)
(* One round of expand's loop: the page gets a frame.  A page that had one *)
(* before shows either frame, for the processor may still hold the old     *)
(* translation; memory never used reads as zero.                           *)
(***************************************************************************)
ExpandPage ==
  /\ InExpand
  /\ LET call == Last(stack)
         page == PageOf(h_addr_start + call.i)
     IN  /\ PageLeft(call)
         /\ TableOf(page) \in tables
         /\ AllocFrame(page, SUPERVISOR, READONLY)
         /\ stack' = [stack EXCEPT ![Len(stack)].i = @ + PAGE]
         /\ mem' \in IF pages[page].p_frame # 0 THEN {mem}
                     ELSE {mem, Zeroed(mem, page * PAGE, PAGE)}
         /\ UNCHANGED <<h_index, h_addr_end, blocks>>

(***************************************************************************)
(* The page has no page table yet: get_page allocates one with kmalloc0_ap,*)
(* from this heap, whose end has not moved yet.                            *)
(***************************************************************************)
ExpandTable ==
  /\ InExpand
  /\ LET call == Last(stack)
         t    == TableOf(PageOf(h_addr_start + call.i))
     IN  /\ PageLeft(call)
         /\ t \notin tables
         /\ stack' = Append(stack, Call(TABLE_PAGES, TRUE, TRUE, t))
         /\ UNCHANGED <<mem, h_index, h_addr_end, blocks, pvars>>

\* For the mutation of Endmost: endmost in size, not in location.
Endmost_InSize(index) == Last(index)

\* The endmost header in the index.
Endmost(index) == Max(ToSet(index))

(***************************************************************************)
(* expand() returns: the end moves, the endmost hole of the index takes in *)
(* the new space, or a new hole is made of it, and alloc() starts over.    *)
(***************************************************************************)
Stretch(m, index, end, old_end, old_length) ==
  LET grown == U(end - h_addr_start - old_length)
      last  == Endmost(index)
      size  == U(Size(m, last) + grown)
      fresh == PutFooter(PutHeader(m, old_end, 1, grown), U(old_end + grown - FTR), old_end)
  IN  IF index = <<>>
      THEN [mem     |-> fresh,
            index   |-> <<old_end>>,
            touched |-> Span(old_end, HDR) \cup Span(U(old_end + grown - FTR), FTR)]
      ELSE [mem     |-> PutFooter(Store(m, last + 2, size), U(last + size - FTR), last),
            index   |-> index,
            touched |-> Span(last, HDR) \cup Span(U(last + size - FTR), FTR)]

ExpandDone ==
  /\ InExpand
  /\ LET call == Last(stack)
         end  == h_addr_start + call.new_size
     IN  /\ ~PageLeft(call)
         /\ \E s \in {Stretch(mem, h_index, end, call.old_end, call.old_length)} :
            IF Outcome(pages, s.touched) # "no"
            THEN Halt(Outcome(pages, s.touched))
            ELSE /\ h_addr_end' = end
                 /\ mem' = s.mem
                 /\ h_index' = s.index
                 /\ stack' = Front(stack)
                 /\ UNCHANGED <<blocks, pvars>>

-----------------------------------------------------------------------------
\* contract(): the length the heap is cut to.  Bit 12 of the wanted length
\* decides; the bits above it are dropped.
Contract(want) ==
  LET rounded == IF (want \div PAGE) % 2 = 1 THEN 2 * PAGE ELSE want
  IN  IF rounded < MIN_SIZE THEN MIN_SIZE ELSE rounded

\* The pages contract's loop gives back, counting down from the last one.
Dropped(old_length, new_length) ==
  {PageOf(h_addr_start + old_length - k * PAGE) :
     k \in {j \in 1 .. (old_length \div PAGE) : new_length < old_length - j * PAGE}}

\* Is the thing to the left, which ends with ftr, a hole?
IsLeftHole(m, ftr) == Magic(m, ftr) = FTR_MAGIC /\ IsHole(m, HeaderOf(m, ftr)) = 1

\* For the mutation of JoinLeft: the footer keeps its old header.
JoinLeft_FooterKept(m, left, ftr, size) == Store(m, left + 2, U(Size(m, left) + size))

\* The hole on the left takes in a block of the given size that ends with ftr.
JoinLeft(m, left, ftr, size) ==
  LET m1 == Store(m, ftr + 1, left)
  IN  Store(m1, left + 2, U(Size(m1, left) + size))


\* What contracting the heap leaves of the hole at its end.
Kept(size, old_length, new_length) == U(size - (old_length - new_length))

\* The first part of free(), up to the test of the end address: the block
\* becomes a hole and joins the holes on its left and right.
Unify(p) ==
  LET own       == p - HDR
      good_hdr  == Magic(mem, own) = HDR_MAGIC
      size      == Size(mem, own)
      own_ftr   == U(own + size - FTR)
      good      == good_hdr /\ Magic(mem, own_ftr) = FTR_MAGIC
      m1        == Store(mem, own + 1, 1)
      left_ftr  == own - FTR
      left_hdr  == HeaderOf(m1, left_ftr)
      is_ftr    == Magic(m1, left_ftr) = FTR_MAGIC
      join_left == IsLeftHole(m1, left_ftr)
      header    == IF join_left THEN left_hdr ELSE own
      m2        == IF join_left THEN JoinLeft(m1, left_hdr, own_ftr, size) ELSE m1
      test      == own_ftr + FTR
      is_hdr    == Magic(m2, test) = HDR_MAGIC
      join_right == is_hdr /\ IsHole(m2, test) # 0
      m3        == IF join_right
                   THEN Store(m2, header + 2, U(Size(m2, header) + Size(m2, test)))
                   ELSE m2
  IN  [ mem     |-> m3,
        header  |-> header,
        test    |-> test,
        footer  |-> IF join_right THEN U(test + Size(m3, test) - FTR) ELSE own_ftr,
        add     |-> ~join_left,
        index   |-> IF join_right THEN Remove(h_index, test) ELSE h_index,
        bad     |-> ~good \/ (join_right /\ ~Contains(h_index, test)),
        touched |-> Span(own, HDR)
                      \cup (IF good_hdr THEN Span(own_ftr, FTR) ELSE {})
                      \cup (IF good THEN Span(left_ftr, FTR) \cup {test} ELSE {})
                      \cup (IF good /\ is_ftr THEN Span(left_hdr, HDR) ELSE {})
                      \cup (IF good /\ is_hdr THEN Span(test, HDR) ELSE {}) ]

\* The second part, when the hole reaches the end of the heap: the heap
\* contracts and the hole is cut down to what is left of it.
Shrink(u) ==
  LET old_length == h_addr_end - h_addr_start
      new_length == Contract(u.header - h_addr_start)
      kept       == Kept(Size(u.mem, u.header), old_length, new_length)
      footer     == U(u.header + kept - FTR)
      gone       == {q \in Dropped(old_length, new_length) : pages[q].p_frame # 0}
  IN  [ mem     |-> IF kept > 0
                    THEN PutFooter(Store(u.mem, u.header + 2, kept), footer, u.header)
                    ELSE u.mem,
        index   |-> IF kept > 0 THEN u.index ELSE Remove(u.index, u.test),
        end     |-> h_addr_start + new_length,
        frames  |-> {f \in frames : \A q \in gone : f \in ClearFrame(frames, pages[q].p_frame)},
        pages   |-> [q \in PageSet |->
                       IF q \in gone THEN [pages[q] EXCEPT !.p_frame = 0] ELSE pages[q]],
        bad     |-> u.header - h_addr_start >= old_length,
        touched |-> Span(u.header, HDR) \cup (IF kept > 0 THEN Span(footer, FTR) ELSE {}) ]

\* What the end of free() starts from when the heap does not contract.
Unshrunk(u) ==
  [mem |-> u.mem, index |-> u.index, end |-> h_addr_end, frames |-> frames,
   pages |-> pages, bad |-> FALSE, touched |-> {}]

(***************************************************************************)
(* free() of the client's n-th block.                                      *)
(***************************************************************************)
Kfree(n) ==
  /\ Idle
  /\ \E u \in {Unify(blocks[n].ptr)} :
     \E r \in {IF u.footer + FTR = h_addr_end THEN Shrink(u) ELSE Unshrunk(u)} :
     LET full    == u.add /\ Len(r.index) >= INDEX_SIZE
         touched == r.touched \cup (IF u.add /\ ~full THEN Compared(r.mem, r.index, u.header) ELSE {})
     IN  \/ /\ Outcome(pages, u.touched) # "no"
            /\ Halt(Outcome(pages, u.touched))
         \/ /\ Outcome(pages, u.touched) = "no"
            /\ ~(u.bad \/ r.bad)
            /\ Outcome(r.pages, touched) # "no"
            /\ Halt(Outcome(r.pages, touched))
         \/ /\ Outcome(pages, u.touched) = "no"
            /\ u.bad \/ r.bad \/ (full /\ Outcome(r.pages, touched) = "no")
            /\ Halt("panic")
         \/ /\ Outcome(pages, u.touched) = "no"
            /\ Outcome(r.pages, touched) = "no"
            /\ ~(u.bad \/ r.bad \/ full)
            /\ mem' = r.mem
            /\ h_index' = IF u.add THEN IndexInsert(r.mem, r.index, u.header) ELSE r.index
            /\ h_addr_end' = r.end
            /\ frames' = r.frames
            /\ pages' = r.pages
            /\ blocks' = RemoveAt(blocks, n)
            /\ UNCHANGED <<stack, tables, halted>>

-----------------------------------------------------------------------------
InitialPages == (HEAP_START \div PAGE) .. ((HEAP_START + INITIAL_SIZE) \div PAGE - 1)

(***************************************************************************)
(* What init_paging and init_heap leave: every page of the initial space   *)
(* has a frame (frame 0 belongs to the identity mapping), the index holds  *)
(* one hole that spans the space behind it, and that hole has no footer.   *)
(***************************************************************************)
Init ==
  /\ frames = 0 .. (INITIAL_SIZE \div PAGE)
  /\ pages = [p \in PageSet |->
                IF p \in InitialPages
                THEN MappedEntry(1 + p - HEAP_START \div PAGE, 0, 0)
                ELSE ZeroEntry]
  /\ tables = {TableOf(p) : p \in InitialPages}
  /\ halted = "no"
  /\ h_addr_end = HEAP_START + INITIAL_SIZE
  /\ mem = PutHeader(<<>>, h_addr_start, 1,
                     HEAP_START + INITIAL_SIZE - h_addr_start)
  /\ h_index = <<h_addr_start>>
  /\ blocks = <<>>
  /\ stack = <<>>

\* The steps of a call in progress, which no client can interrupt.
Step == AllocPlace \/ AllocGrow \/ ExpandPage \/ ExpandTable \/ ExpandDone

\* The blocks a client may free; page tables are never freed.
Freeable == {n \in 1 .. Len(blocks) : blocks[n].table = NoTable}

Next ==
  \/ \E r \in Requests : Kmalloc(r.len, r.aligned, r.zero)
  \/ \E n \in Freeable : Kfree(n)
  \/ Step

Spec == Init /\ [][Next]_vars /\ WF_vars(Step)

-----------------------------------------------------------------------------
Live == {blocks[n].ptr - HDR : n \in 1 .. Len(blocks)}
Holes == ToSet(h_index)

\* The space has its types, and the end stays within the heap's range.
TypeOK ==
  /\ PTypeOK
  /\ DOMAIN mem \subseteq Addresses
  /\ \A i \in 1 .. Len(h_index) : h_index[i] \in Addresses
  /\ Len(h_index) <= INDEX_SIZE
  /\ h_addr_end \in h_addr_start .. HEAP_MAX

\* Between calls the live blocks and the holes of the index partition the
\* heap: each starts where another ends, no two overlap, nothing is in two
\* of them and no word is lost to both.
Partition ==
  Idle =>
    LET Parts == Live \cup Holes
    IN  /\ Cardinality(Parts) = Len(blocks) + Len(h_index)
        /\ h_addr_start \in Parts
        /\ \A a \in Parts : a + Size(mem, a) \in Parts \cup {h_addr_end}
        /\ \A a, b \in Parts : a < b => a + Size(mem, a) <= b

\* Between calls every live block has the header and footer free() will ask
\* for, is as long as its client asked, and is backed by frames.
BlocksIntact ==
  Idle =>
    \A n \in 1 .. Len(blocks) :
      LET hdr == blocks[n].ptr - HDR
          ftr == hdr + Size(mem, hdr) - FTR
      IN  /\ Magic(mem, hdr) = HDR_MAGIC /\ IsHole(mem, hdr) = 0
          /\ Magic(mem, ftr) = FTR_MAGIC /\ HeaderOf(mem, ftr) = hdr
          /\ Size(mem, hdr) >= blocks[n].len + OVERHEAD
          /\ Outcome(pages, Span(hdr, Size(mem, hdr))) = "no"

\* No two live blocks share a word, even where the index has gone wrong.
LiveDisjoint ==
  \A m, n \in 1 .. Len(blocks) :
    m # n => Span(blocks[m].ptr, blocks[m].len) \cap Span(blocks[n].ptr, blocks[n].len) = {}

\* heap.c:319: the footer at the end of a hole, where there is one, points to
\* the header of that hole, so that free() of the next block joins it.
HoleFootersPointHome ==
  Idle =>
    \A hdr \in Holes :
      LET ftr == hdr + Size(mem, hdr) - FTR
      IN  Magic(mem, ftr) = FTR_MAGIC => HeaderOf(mem, ftr) = hdr

\* heap.c:136: the heap ends on a page boundary, whatever was freed.
EndsOnPage == h_addr_end % PAGE = 0

\* heap.c:142, "Don't contract too far!": no live block reaches beyond the end.
LiveBelowEnd ==
  \A n \in 1 .. Len(blocks) : blocks[n].ptr + blocks[n].len + FTR <= h_addr_end

\* heap.c:351: a hole that contract() cut off is no longer in the index.
HolesBelowEnd ==
  Idle => \A hdr \in Holes : hdr + Size(mem, hdr) <= h_addr_end

\* heap.c:201: the hole that takes in the new space is the one next to it.
GrowthAdjoinsHole ==
  [][InExpand /\ h_addr_end' # h_addr_end /\ h_index # <<>>
       => LET last == Max(Holes) IN last + Size(mem, last) = Last(stack).old_end]_vars

\* paging.h:52, "create it!": while expand() waits for the page table of a
\* page, the allocation of that table does not itself wait for it.
NoCircularWait ==
  \A j, k \in 1 .. Len(stack) :
    j # k /\ stack[j].op = "expand" /\ stack[k].op = "expand" => stack[j].i # stack[k].i

\* heap.h:63 promises a block on a page boundary when page_align is 1.
AlignedOnPage ==
  \A n \in 1 .. Len(blocks) : blocks[n].aligned => blocks[n].ptr % PAGE = 0

\* heap.c:19: an unaligned request gets the smallest hole that will fit.
SmallestHoleTaken ==
  [][InAlloc /\ Len(blocks') > Len(blocks) =>
       LET call  == Last(stack)
           asked == U(call.len + OVERHEAD)
           taken == Last(blocks').ptr - HDR
       IN  ~call.aligned =>
             \A hdr \in Holes : Fits(mem, hdr, asked, FALSE) => Size(mem, taken) <= Size(mem, hdr)]_vars

\* The kernel's own accesses to the heap's bookkeeping stay in mapped memory.
NoFault == halted \notin {"pagefault", "stray"}

\* Every call of kmalloc returns, unless the kernel panics.
KmallocReturns == (stack # <<>>) ~> (stack = <<>> \/ ~Running)

\* heap_alloc and heap_free, joins, splits and growth included: between calls the
\* heap is a row of blocks and holes with the headers and footers that the next
\* call will follow.
HeapSound == Partition /\ BlocksIntact /\ HoleFootersPointHome


=============================================================================
