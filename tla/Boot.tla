-------------------------------- MODULE Boot ---------------------------------
(***************************************************************************)
(* From the image to paged mode: kern_main sets placement_address behind   *)
(* the ramdisk, and init_paging (paging.c) takes from there, with the      *)
(* placement half of _kmalloc (kmalloc.c), the bitset of frames, the page  *)
(* directory, page tables and the heap structure, maps used memory onto    *)
(* itself and gives the first heap pages their frames.                     *)
(*                                                                         *)
(* Addresses are numbers of bytes.  The bits of the bitset live at real    *)
(* addresses: what is allocated over them and zeroed clears them.          *)
(***************************************************************************)
EXTENDS Integers, FiniteSets

CONSTANTS
  PAGE,             \* bytes in a page (0x1000)
  MEMORY_FRAMES,    \* nframes (4096)
  WORD,             \* bytes in a word (4)
  BITS,             \* bits of a word (32)
  ENTRIES,          \* entries of a page table (1024)
  DIRECTORY,        \* sizeof(struct vm_page_directory), 2 pages and a word
  HEAP_STRUCT,      \* sizeof(struct vm_heap)
  HEAP_START,       \* the first page of the kernel heap
  HEAP_PAGES,       \* pages mapped for it at first (256)
  ImageEnds         \* where the ramdisk may end

\* The image is loaded at 1 MB, behind the first page.
ASSUME BootAssumption ==
  /\ {PAGE, WORD, BITS, ENTRIES} \subseteq Nat \ {0}
  /\ {MEMORY_FRAMES, DIRECTORY, HEAP_STRUCT, HEAP_START, HEAP_PAGES} \subseteq Nat
  /\ ImageEnds \subseteq Nat /\ \A end \in ImageEnds : PAGE <= end

VARIABLES
  bits, entries, btables, bhalted,  \* the state of Paging
  boot              \* where init_paging is, and the placement allocator

bootvars == <<bits, entries, btables, bhalted, boot>>

HeapPages == HEAP_START .. (HEAP_START + HEAP_PAGES - 1)
LowPages == 0 .. (MEMORY_FRAMES - 1)

P == INSTANCE Paging WITH
  NFRAMES <- MEMORY_FRAMES, FRAME_SIZE <- PAGE, WORD_BITS <- BITS,
  TABLE_PAGES <- ENTRIES, PageSet <- LowPages \cup HeapPages,
  frames <- bits, pages <- entries, tables <- btables, halted <- bhalted

-----------------------------------------------------------------------------
\* For the mutation of Aligned: down to the page instead of up.
Aligned_Down(addr) == (addr \div PAGE) * PAGE

\* M_ALIGNED: to the next page, from an aligned address as well; only the
\* first page of memory is left alone.
Aligned(addr) == IF addr >= PAGE THEN (addr \div PAGE) * PAGE + PAGE ELSE addr

Region(len, aligned) ==
  [lo |-> IF aligned THEN Aligned(boot.placement) ELSE boot.placement,
   len |-> len, aligned |-> aligned]

Within(addr, r) == r.lo <= addr /\ addr < r.lo + r.len

\* Where the word of the bitset with the bit of frame f is.
WordAt(f) == boot.bitset + (f \div BITS) * WORD

\* kmalloc0 before there is a heap: the region is taken and zeroed.
Kmalloc0(r) == [boot EXCEPT !.placement = r.lo + r.len, !.regions = @ \cup {r}]
Zeroed(bs, r) == {f \in bs : ~Within(WordAt(f), r)}

At(l) == boot.pc = l /\ bhalted = "no"

-----------------------------------------------------------------------------
\* kmalloc0(INDEX_FROM_BIT(nframes)): a byte for each word.
BitsetBytes == MEMORY_FRAMES \div BITS

\* The frames whose words lie in the bytes allocated for the bitset.
CoveredFrames == (BitsetBytes \div WORD) * BITS

\* What was in memory where the bitset goes: nothing, one bit or all of them.
Noise == {{}, LowPages} \cup {{f} : f \in LowPages}

BootInit ==
  /\ \E end \in ImageEnds :
       boot = [pc |-> "bitset", i |-> HEAP_START, placement |-> end,
               bitset |-> end, image |-> end, regions |-> {}]
  /\ bits \in Noise
  /\ entries = [p \in LowPages \cup HeapPages |-> P!ZeroEntry]
  /\ btables = {} /\ bhalted = "no"

\* first_frame and set_frame use a word where a byte is allocated, so only a
\* part of the bits is zeroed.
AllocBitset ==
  /\ At("bitset")
  /\ LET r == Region(BitsetBytes, FALSE)
     IN  /\ boot' = [Kmalloc0(r) EXCEPT !.pc = "directory"]
         /\ bits' = Zeroed(bits, r)
  /\ UNCHANGED <<entries, btables, bhalted>>

AllocDirectory ==
  /\ At("directory")
  /\ LET r == Region(DIRECTORY, TRUE)
     IN  /\ boot' = [Kmalloc0(r) EXCEPT !.pc = "tables"]
         /\ bits' = Zeroed(bits, r)
  /\ UNCHANGED <<entries, btables, bhalted>>

\* get_page(i, 1, kernel_directory) where the table does not exist.
GetPage(page) ==
  /\ P!TableOf(page) \notin btables
  /\ btables' = btables \cup {P!TableOf(page)}
  /\ LET r == Region(PAGE, TRUE)
     IN  boot' = Kmalloc0(r) /\ bits' = Zeroed(bits, r)
  /\ UNCHANGED <<entries, bhalted>>

HasTable(page) == P!TableOf(page) \in btables

\* The loop over the pages of the heap that only makes their tables.
HeapTables ==
  /\ At("tables")
  /\ \/ boot.i \in HeapPages /\ GetPage(boot.i)
     \/ /\ boot.i \in HeapPages /\ HasTable(boot.i)
        /\ boot' = [boot EXCEPT !.i = @ + 1]
        /\ UNCHANGED <<bits, entries, btables, bhalted>>
     \/ /\ boot.i \notin HeapPages
        /\ boot' = [boot EXCEPT !.pc = "heap"]
        /\ UNCHANGED <<bits, entries, btables, bhalted>>

AllocHeap ==
  /\ At("heap")
  /\ LET r == Region(HEAP_STRUCT, FALSE)
     IN  /\ boot' = [Kmalloc0(r) EXCEPT !.pc = "identity", !.i = 0]
         /\ bits' = Zeroed(bits, r)
  /\ UNCHANGED <<entries, btables, bhalted>>

\* For the mutation of InUse: the bound of the loop is the end of the image.
InUse_Once(page) == page * PAGE < boot.image

\* The condition of the identity-mapping loop, with placement_address as the
\* tables allocated in its body have left it.
InUse(page) == page * PAGE < boot.placement

\* The identity-mapping loop: get_page and alloc_frame for each page in use.
IdentityMap ==
  /\ At("identity")
  /\ \/ InUse(boot.i) /\ GetPage(boot.i)
     \/ /\ InUse(boot.i) /\ HasTable(boot.i)
        /\ P!AllocFrame(boot.i, 0, 0)
        /\ boot' = [boot EXCEPT !.i = @ + 1]
     \/ /\ ~InUse(boot.i)
        /\ boot' = [boot EXCEPT !.pc = "frames", !.i = HEAP_START]
        /\ UNCHANGED <<bits, entries, btables, bhalted>>

\* Frames for the pages of the heap, then the page fault handler, paging and
\* the heap itself: kmalloc no longer comes here.
HeapFrames ==
  /\ At("frames")
  /\ \/ /\ boot.i \in HeapPages
        /\ P!AllocFrame(boot.i, 0, 0)
        /\ boot' = [boot EXCEPT !.i = @ + 1]
     \/ /\ boot.i \notin HeapPages
        /\ boot' = [boot EXCEPT !.pc = "paged"]
        /\ UNCHANGED <<bits, entries, btables, bhalted>>

BootNext ==
  \/ AllocBitset \/ AllocDirectory \/ HeapTables \/ AllocHeap \/ IdentityMap \/ HeapFrames
  \/ (boot.pc = "paged" \/ bhalted # "no") /\ UNCHANGED bootvars

BootSpec == BootInit /\ [][BootNext]_bootvars

-----------------------------------------------------------------------------
Paged == boot.pc = "paged" /\ bhalted = "no"

\* The used memory, and the frames the heap needs besides, are within the part
\* of the bitset that was allocated.
SmallImage == boot.placement \div PAGE + 1 + HEAP_PAGES <= CoveredFrames

IdentityMapped ==
  \A p \in LowPages : p * PAGE < boot.placement =>
    entries[p].p_present = 1 /\ entries[p].p_frame = p

\* _kmalloc before the heap: regions do not overlap each other or the image, and
\* those asked for page-aligned are, wherever the image ends.
PlacementsApart ==
  /\ \A r \in boot.regions : boot.image <= r.lo /\ (r.aligned => r.lo % PAGE = 0)
  /\ \A r, q \in boot.regions : r # q => r.lo + r.len <= q.lo \/ q.lo + q.len <= r.lo

\* init_paging: when paging comes on, memory in use is where it was, page tables
\* made while the loop ran included; and no heap page has one of its frames.
BootKeepsMemory ==
  Paged /\ SmallImage =>
    /\ IdentityMapped
    /\ \A p \in HeapPages : entries[p].p_present = 1 /\ entries[p].p_frame * PAGE >= boot.placement

\* set_frame writes no word that belongs to another allocation.
BitsetStaysInside ==
  SmallImage => \A f \in bits : \A r \in boot.regions :
    Within(WordAt(f), r) => r.lo = boot.bitset

\* init_paging, for every end of the kernel image that its bitset can cover: memory
\* that was in use before paging is found after it, and marking frames damages none.
BootSound == BootKeepsMemory /\ BitsetStaysInside

=============================================================================
