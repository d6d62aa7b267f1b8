------------------------------- MODULE Ramdisk -------------------------------
(***************************************************************************)
(* The initial ramdisk: the archive in memory, its parser (tar.c), the     *)
(* nodes made of its files and their callbacks (initrd.c), the switch that *)
(* calls them (vfs.c) and the listing of the root (main.c).                *)
(*                                                                         *)
(* Memory is a sequence of blocks, each as the parser may read it: a       *)
(* header with a name and the octal digits of a size, data, or zeros.  An  *)
(* offset in a file stands for the byte there.  All allocations succeed,   *)
(* as kmalloc panics when it cannot.                                       *)
(***************************************************************************)
EXTENDS Integers, Sequences, SequencesExt

CONSTANTS
  BLOCK,        \* bytes in a block of the archive (512)
  DIGITS,       \* octal digits of a size (11)
  SIZE_T,         \* numbers of a uint32_t (2^32)
  SHOWN,        \* bytes of a file that the listing asks for (1024)
  FileNames,    \* names in archives; "dev" is the name of a directory
  FileSizes,    \* sizes in archives
  MaxFiles      \* files in an archive

VARIABLE rd

None == "none"

\* Nodes: the two directories, no node, and the numbers of the file nodes.
Root == -1
Dev == 0
NoNode == -2

\* ---- What tar writes (external) ----
Octal(n) == [j \in 1 .. DIGITS |-> (n \div 8 ^ (DIGITS - j)) % 8]
DataBlocks(n) == (n + BLOCK - 1) \div BLOCK
ZeroBlock == [name |-> None, size |-> Octal(0)]
\* Data may look like anything; here it looks like a header of a file.
DataBlock == [name |-> "data", size |-> Octal(0)]
Member(f) == <<[name |-> f.name, size |-> Octal(f.size)]>>
             \o [j \in 1 .. DataBlocks(f.size) |-> DataBlock]
Archive(fs) == FlattenSeq([i \in DOMAIN fs |-> Member(fs[i])]) \o <<ZeroBlock, ZeroBlock>>

-----------------------------------------------------------------------------
\* getsize(): the digits from the last to the first, with powers of 8.
GetSize(in) == FoldLeft(LAMBDA a, d : (a * 8 + d) % SIZE_T, 0, in)

\* For the mutation of Step: a part of a block gets no block of its own.
Step_Whole(siz) == siz \div BLOCK + 1

\* How far the parser moves: the header, whole blocks, and the last part.
Step(siz) == siz \div BLOCK + 1 + (IF siz % BLOCK # 0 THEN 1 ELSE 0)

Here == rd.memory[rd.p]

\* One turn of tar_parse_mem's loop on a header: the file goes to the tail of
\* the list.
ParseMember ==
  /\ rd.phase = "parse" /\ Here.name # None
  /\ LET siz == GetSize(Here.size)
     IN  rd' = [rd EXCEPT !.p = @ + Step(siz),
                          !.files = Append(@, [name |-> Here.name, size |-> siz, at |-> rd.p + 1])]

\* The end of the archive; init_initrd makes a node for each file.
ParseEnd ==
  /\ rd.phase = "parse" /\ Here.name = None
  /\ rd' = [rd EXCEPT !.phase = "ready",
                      !.nodes = [i \in DOMAIN rd.files |-> [name |-> rd.files[i].name, inode |-> i - 1]]]

-----------------------------------------------------------------------------
IsDir(n) == n \in {Root, Dev}
Nodes == {Root, Dev} \cup DOMAIN rd.nodes

\* The size of a read that starts within the file, with the sum of 32 bits.
Cut(offset, size, siz) == IF (offset + size) % SIZE_T > siz THEN siz - offset ELSE size

NameOf(n) == CASE n = Root -> "initrd" [] n = Dev -> "dev" [] OTHER -> rd.nodes[n].name

\* What is copied: count bytes of the data that begins at block "at".
NoRead == [fault |-> FALSE, at |-> 0, from |-> 0, count |-> 0]

\* initrd_read(): the file is found by its name; which bytes are copied.
\* An empty list would be dereferenced.
InitrdRead(n, offset, size) ==
  LET named == {i \in DOMAIN rd.files : rd.files[i].name = NameOf(n)}
      f == rd.files[CHOOSE i \in named : \A j \in named : i <= j]
  IN  IF rd.files = <<>> THEN [NoRead EXCEPT !.fault = TRUE]
      ELSE IF named = {} \/ offset > f.size THEN NoRead
      ELSE [fault |-> FALSE, at |-> f.at, from |-> offset, count |-> Cut(offset, size, f.size)]

\* index-1 >= nroot_nodes, as 32 bits, is the end of the directory.
Listed(index) == (index - 1) % SIZE_T < Len(rd.nodes)

\* initrd_readdir(): the entry, or None.
InitrdReaddir(n, index) ==
  IF n = Root /\ index = 0 THEN [name |-> "dev", inode |-> 0]
  ELSE IF ~Listed(index) THEN [name |-> None, inode |-> 0]
  ELSE [name |-> rd.nodes[index].name, inode |-> rd.nodes[index].inode]

NodesNamed(name) == {i \in DOMAIN rd.nodes : rd.nodes[i].name = name}

\* initrd_finddir(): the first node with the name; any directory has the files.
InitrdFinddir(n, name) ==
  LET named == NodesNamed(name)
  IN  IF n = Root /\ name = "dev" THEN Dev
      ELSE IF named = {} THEN NoNode
      ELSE CHOOSE i \in named : \A j \in named : i <= j

-----------------------------------------------------------------------------
\* Only files have a read callback; no node has write, open or close.
HasRead(n) == ~IsDir(n)

\* The switch: a callback that a node does not have yields nothing.
VfsRead(n, offset, size) == IF HasRead(n) THEN InitrdRead(n, offset, size) ELSE NoRead
VfsReaddir(n, index) ==
  IF IsDir(n) THEN InitrdReaddir(n, index) ELSE [name |-> None, inode |-> 0]
VfsFinddir(n, name) == IF IsDir(n) THEN InitrdFinddir(n, name) ELSE NoNode

\* A caller with any arguments.  Neither call changes what the next one sees but
\* for the static dirent, so one call is as good as many.
Read(n, offset, size) ==
  /\ rd.phase = "ready" /\ rd.i = 0
  /\ rd' = [rd EXCEPT !.phase = "called", !.read = VfsRead(n, offset, size),
                      !.asked = [node |-> n, offset |-> offset, size |-> size]]

Readdir(n, index) ==
  /\ rd.phase = "ready" /\ rd.i = 0
  /\ LET e == VfsReaddir(n, index)
     IN  rd' = [rd EXCEPT !.phase = "called", !.dirent = IF e.name = None THEN @ ELSE e]

\* vfs_print_content(), one entry a step: what is printed is the name with the
\* word "directory" or the bytes read.
PrintEntry ==
  /\ rd.phase = "ready"
  /\ LET e == VfsReaddir(Root, rd.i)
         n == VfsFinddir(Root, e.name)
     IN  \/ e.name = None /\ rd' = [rd EXCEPT !.phase = "done"]
         \/ /\ e.name # None
            /\ rd' = [rd EXCEPT !.i = @ + 1, !.dirent = e,
                                !.printed = Append(@, [name |-> e.name, dir |-> IsDir(n),
                                                       read |-> VfsRead(n, 0, SHOWN)])]

\* An archive is any sequence of at most MaxFiles files.
RInit ==
  \E fs \in BoundedSeq([name : FileNames, size : FileSizes], MaxFiles) :
    rd = [phase |-> "parse", archive |-> fs, memory |-> Archive(fs), p |-> 1, i |-> 0,
          files |-> <<>>, nodes |-> <<>>, printed |-> <<>>,
          dirent |-> [name |-> None, inode |-> 0], read |-> NoRead,
          asked |-> [node |-> Root, offset |-> 0, size |-> 0]]

RNext ==
  \/ ParseMember \/ ParseEnd \/ PrintEntry
  \/ \E n \in Nodes, offset, size \in 0 .. (SIZE_T - 1) : Read(n, offset, size)
  \/ \E n \in Nodes, index \in 0 .. (SIZE_T - 1) : Readdir(n, index)

RSpec == RInit /\ [][RNext]_rd

-----------------------------------------------------------------------------
Distinct == \A i, j \in DOMAIN rd.archive :
  rd.archive[i].name = rd.archive[j].name => i = j

\* Where the data of file i of the archive begins, by the format of tar.
DataOf(i) ==
  1 + FoldLeft(LAMBDA a, f : a + 1 + DataBlocks(f.size), 1, SubSeq(rd.archive, 1, i - 1))

\* tar_parse_mem: the parser stays in step with the blocks of the archive: it
\* finds its files, all of them, with their sizes and the place of their data.
ParsesTheArchive ==
  rd.phase # "parse" =>
    rd.files = [i \in DOMAIN rd.archive |->
                  [name |-> rd.archive[i].name, size |-> rd.archive[i].size, at |-> DataOf(i)]]

\* initrd_read: a read returns the bytes of the file that are there, no byte of
\* its neighbour, unless the end of what is asked wraps around.
ReadsWithinFile ==
  LET n == rd.asked.node
      f == rd.files[n]
      left == f.size - rd.asked.offset
  IN  Distinct /\ ~IsDir(n) /\ rd.asked.offset + rd.asked.size < SIZE_T =>
        /\ rd.read.count = IF left < 0 THEN 0
                           ELSE IF rd.asked.size < left THEN rd.asked.size ELSE left
        /\ rd.read.count > 0 => rd.read.at = f.at /\ rd.read.from = rd.asked.offset

\* initrd_read: the list is not empty whenever a node with a read callback exists.
NoNullFile == ~rd.read.fault

\* readdir against finddir: what an entry names can be found, in the directory it
\* was listed for, and it is the node with the entry's inode.
EntriesAreFound ==
  rd.phase # "parse" /\ Distinct /\ rd.dirent.name # None =>
    \E n \in {Root, Dev} :
      LET found == VfsFinddir(n, rd.dirent.name)
      IN  found = Dev \/ (found # NoNode /\ rd.nodes[found].inode = rd.dirent.inode)

\* vfs_print_content: the listing names every file once, behind "dev", with the
\* beginning of its data.
ListsEverything ==
  rd.phase = "done" /\ Distinct =>
    /\ Len(rd.printed) = Len(rd.archive) + 1
    /\ rd.printed[1].dir
    /\ \A i \in DOMAIN rd.archive :
         LET line == rd.printed[i + 1]
             f == rd.archive[i]
         IN  /\ line.name = f.name /\ ~line.dir /\ line.read.from = 0
             /\ line.read.count = IF f.size < SHOWN THEN f.size ELSE SHOWN
             /\ line.read.count > 0 => line.read.at = DataOf(i)

\* tar.c, initrd.c and vfs.c together: what was archived is what is found, listed
\* and read, whatever the sizes of the files and wherever a read starts.
RamdiskSound ==
  ParsesTheArchive /\ ReadsWithinFile /\ NoNullFile /\ EntriesAreFound /\ ListsEverything

=============================================================================
