-------------------------------- MODULE Paging -------------------------------
(***************************************************************************)
(* Physical frames and page table entries (paging.c): the bitset of used   *)
(* frames, the page tables of the kernel directory, and the functions that *)
(* give a page a frame and take it back.  A page is named by its number,   *)
(* address / 0x1000; the page table that holds it by page / 1024.          *)
(***************************************************************************)
EXTENDS Integers, FiniteSetsExt

CONSTANTS
  NFRAMES,      \* frames of physical memory (16 MB / 4 KB in init_paging)
  FRAME_SIZE,   \* bytes in a frame (0x1000)
  WORD_BITS,    \* frames per word of the bitset (8 * 4)
  TABLE_PAGES,  \* entries of a page table (1024)
  PageSet       \* the virtual pages the model speaks of

(***************************************************************************)
(* 16 MB is 4096 frames, so every frame number is below the size of a      *)
(* frame.                                                                  *)
(***************************************************************************)
ASSUME PagingAssumption ==
  /\ NFRAMES \in Nat \ {0} /\ FRAME_SIZE \in Nat \ {0}
  /\ WORD_BITS \in Nat \ {0} /\ TABLE_PAGES \in Nat \ {0}
  /\ NFRAMES <= FRAME_SIZE
  /\ PageSet \subseteq Nat

VARIABLES
  frames,       \* the frames whose bit is set
  pages,        \* the entry of each page
  tables,       \* page tables present in the directory (pd_tables # NULL)
  halted        \* why the kernel stopped, "no" while it runs

pvars == <<frames, pages, tables, halted>>

Frames == 0 .. (NFRAMES - 1)

Entry == [p_present : {0, 1}, p_rw : {0, 1}, p_user : {0, 1}, p_frame : Frames]

\* An entry of a page table fresh from kmalloc0.
ZeroEntry == [p_present |-> 0, p_rw |-> 0, p_user |-> 0, p_frame |-> 0]

TableOf(page) == page \div TABLE_PAGES

-----------------------------------------------------------------------------
\* For the mutation of SetFrame: the bit is set in the first word.
SetFrame_FirstWord(fs, frame_addr) == fs \cup {(frame_addr \div FRAME_SIZE) % WORD_BITS}

\* set_frame and clear_frame take the address of a frame, not its number.
SetFrame(fs, frame_addr) == fs \cup {frame_addr \div FRAME_SIZE}

ClearFrame(fs, frame_addr) == fs \ {frame_addr \div FRAME_SIZE}

\* The word of the bitset that holds the bit of a frame.
INDEX_FROM_BIT(frame) == frame \div WORD_BITS

\* The frames first_frame looks at: those of the whole words of the bitset.
Scanned == {f \in Frames : INDEX_FROM_BIT(f) < INDEX_FROM_BIT(NFRAMES)}

NoFreeFrame(fs) == Scanned \subseteq fs

\* first_frame(): the lowest clear bit.
FirstFrame(fs) == Min(Scanned \ fs)

\* The entry alloc_frame leaves for frame idx.
MappedEntry(idx, is_kernel, is_writeable) ==
  [p_present |-> 1,
   p_rw      |-> IF is_writeable # 0 THEN 1 ELSE 0,
   p_user    |-> IF is_kernel # 0 THEN 0 ELSE 1,
   p_frame   |-> idx]

\* For the mutation of AllocFrame: the frame is not marked as used.
AllocFrame_Unmarked(page, is_kernel, is_writeable) ==
  /\ UNCHANGED <<tables, halted, frames>>
  /\ pages' = [pages EXCEPT
                 ![page] = MappedEntry(FirstFrame(frames), is_kernel, is_writeable)]

(***************************************************************************)
(* alloc_frame(): a page that has a frame number keeps it; otherwise the   *)
(* first free frame becomes its frame, or there is none and the kernel     *)
(* panics.                                                                 *)
(***************************************************************************)
AllocFrame(page, is_kernel, is_writeable) ==
  /\ UNCHANGED tables
  /\ \/ /\ pages[page].p_frame # 0
        /\ UNCHANGED <<frames, pages, halted>>
     \/ /\ pages[page].p_frame = 0
        /\ NoFreeFrame(frames)
        /\ halted' = "panic"
        /\ UNCHANGED <<frames, pages>>
     \/ /\ pages[page].p_frame = 0
        /\ ~NoFreeFrame(frames)
        /\ LET idx == FirstFrame(frames)
           IN  /\ frames' = SetFrame(frames, idx * FRAME_SIZE)
               /\ pages' = [pages EXCEPT
                              ![page] = MappedEntry(idx, is_kernel, is_writeable)]
        /\ UNCHANGED halted

(***************************************************************************)
(* free_frame(): nothing for a page without a frame number; otherwise the  *)
(* number is handed to clear_frame and dropped from the entry, whose       *)
(* present bit stays as it is.                                             *)
(***************************************************************************)
FreeFrame(page) ==
  /\ UNCHANGED <<tables, halted>>
  /\ \/ /\ pages[page].p_frame = 0
        /\ UNCHANGED <<frames, pages>>
     \/ /\ pages[page].p_frame # 0
        /\ frames' = ClearFrame(frames, pages[page].p_frame)
        /\ pages' = [pages EXCEPT ![page].p_frame = 0]

(***************************************************************************)
(* get_page(..., create = 1, ...) on a page whose table does not exist:    *)
(* the zeroed table is entered in the directory.                           *)
(***************************************************************************)
CreateTable(t) ==
  /\ t \notin tables
  /\ tables' = tables \cup {t}
  /\ UNCHANGED <<frames, pages, halted>>

(***************************************************************************)
(* An access to a page that is not present: the processor raises interrupt *)
(* 14 and page_fault_handler reports it and panics.                        *)
(***************************************************************************)
PageFault(page) ==
  /\ pages[page].p_present = 0
  /\ halted' = "pagefault"
  /\ UNCHANGED <<frames, pages, tables>>

\* The pages get_page finds without creating a table.
Reachable == {p \in PageSet : TableOf(p) \in tables}

-----------------------------------------------------------------------------
(***************************************************************************)
(* The component on its own: kernel code maps and unmaps pages in any      *)
(* order.  Frame 0 backs page 0 (the identity mapping starts there).       *)
(***************************************************************************)
PInit ==
  /\ frames = {}
  /\ pages = [p \in PageSet |-> ZeroEntry]
  /\ tables = {}
  /\ halted = "no"

PNext ==
  /\ halted = "no"
  /\ \/ \E p \in PageSet : CreateTable(TableOf(p))
     \/ \E p \in Reachable, k \in {0, 1}, w \in {0, 1} : AllocFrame(p, k, w)
     \/ \E p \in Reachable : FreeFrame(p)
     \/ \E p \in PageSet : PageFault(p)

PSpec == PInit /\ [][PNext]_pvars

-----------------------------------------------------------------------------
\* Every entry is a page table entry with a frame of physical memory.
PTypeOK ==
  /\ frames \subseteq Frames
  /\ pages \in [PageSet -> Entry]
  /\ tables \subseteq {TableOf(p) : p \in PageSet}
  /\ halted \in {"no", "panic", "pagefault", "stray"}

\* No two pages hold the same nonzero frame number, whatever the order in
\* which alloc_frame and free_frame are called.
FramesNotShared ==
  \A p, q \in PageSet :
     p # q /\ pages[p].p_frame # 0 => pages[p].p_frame # pages[q].p_frame

\* The bitset has a bit for every frame number an entry holds, so first_frame
\* cannot hand that frame out again.
HeldFramesMarked ==
  \A p \in PageSet : pages[p].p_frame # 0 => pages[p].p_frame \in frames

\* What free_frame says it does (paging.c:109, "Frame is now free again."):
\* the frame a page gives up can be handed out again.
FreedFrameIsFree ==
  [][\A p \in PageSet :
        pages[p].p_frame # 0 /\ pages'[p].p_frame = 0
          => pages[p].p_frame \notin frames']_pvars

\* alloc_frame and free_frame in any order: an entry's frame is in physical memory,
\* is no other entry's, and will not be handed out while it is held.
FramesAccounted == PTypeOK /\ FramesNotShared /\ HeldFramesMarked

=============================================================================
