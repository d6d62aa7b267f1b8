----------------------------- MODULE FileSystem ------------------------------
(***************************************************************************)
(* The minix file system of Linux 0.01: bitmap.c, inode.c, truncate.c,     *)
(* namei.c, open.c, file_dev.c, read_write.c, fcntl.c.  A system call that *)
(* finds its blocks in the cache does not sleep, and the kernel is not     *)
(* preempted: a call is one step.                                          *)
(*                                                                         *)
(* Everything is in one record f, and the functions of the kernel are      *)
(* operators on it; those that also return something return <<f, result>>. *)
(*   nzones the zones there are (s_nzones)                                 *)
(*   slot   the inode table: number (0: i_dev is 0), count, dirt, inode    *)
(*   dinode inodes on the disk;  imap, zmap  the bits set in the bitmaps   *)
(*   ptr    blocks of pointers;  byte  blocks of bytes                     *)
(*   ent    the entries of directories, by inode number                    *)
(*   file   the file table;  filp, pwd, root  of the processes             *)
(*   panic  whether the kernel has given up                                *)
(*   text   history: what the bytes of each file should be                 *)
(*   got, due   what the last read returned, and what it should have       *)
(***************************************************************************)
EXTENDS Integers, FiniteSets, SequencesExt, FiniteSetsExt

CONSTANTS
  NR_INODE, NR_FILE, NR_OPEN,
  NINODES,      \* inodes of the file system, 1 being the root
  NZONES,       \* data zones, at most
  BLOCK_SIZE, DIR_ENTRIES_PER_BLOCK,
  DIRECT, PER,  \* direct zones of an inode, pointers in a block
  Users,        \* processes
  Names         \* names that calls use

ASSUME FileSystemAssumption ==
  /\ {NR_INODE, NR_FILE, NR_OPEN, NINODES, NZONES} \subseteq Nat \ {0}
  /\ {BLOCK_SIZE, DIRECT, PER} \subseteq Nat \ {0} /\ DIR_ENTRIES_PER_BLOCK \in Nat \ {0, 1}

VARIABLE f

Slots == 1 .. NR_INODE
Zones == 1 .. NZONES
Numbers == 1 .. NINODES

\* i_zone: the direct zones, the indirect and the double indirect one.
NoInode == [type |-> "none", nlinks |-> 0, size |-> 0, zone |-> [i \in 0 .. DIRECT + 1 |-> 0]]
NoSlot == [num |-> 0, count |-> 0, dirt |-> FALSE, i |-> NoInode]
NoFile == [count |-> 0, inode |-> 0, pos |-> 0, append |-> FALSE]

First(S) == CHOOSE x \in S : \A z \in S : x <= z
Panic(g, what) == IF g.panic = "no" THEN [g EXCEPT !.panic = what] ELSE g

-----------------------------------------------------------------------------
\* bitmap.c.  A zone that is freed leaves the cache; a new one is all zero.
NewBlock(g) ==
  LET free == (1 .. g.nzones) \ g.zmap
  IN  IF free = {} THEN <<g, 0>>
      ELSE LET z == First(free)
           IN  <<[g EXCEPT !.zmap = @ \cup {z}, !.ptr[z] = [i \in 0 .. PER - 1 |-> 0],
                           !.byte[z] = [i \in 0 .. BLOCK_SIZE - 1 |-> 0]], z>>

FreeBlock(g, z) ==
  IF z \notin g.zmap THEN Panic(g, "free_block") ELSE [g EXCEPT !.zmap = @ \ {z}]

FreeBlocks(g, zs) == FoldSet(LAMBDA z, e : FreeBlock(e, z), g, zs)

\* free_ind and free_dind, of what block z points to.
Pointed(g, z) == IF z = 0 THEN {} ELSE {g.ptr[z][i] : i \in 0 .. PER - 1} \ {0}

Indirects(g, i) == ({i.zone[DIRECT], i.zone[DIRECT + 1]} \ {0}) \cup Pointed(g, i.zone[DIRECT + 1])

LeafBlocks(g, i) ==
  ({i.zone[n] : n \in 0 .. DIRECT - 1} \ {0})
    \cup UNION {Pointed(g, z) : z \in {i.zone[DIRECT]} \cup Pointed(g, i.zone[DIRECT + 1])}

\* truncate.
Truncate(g, s) ==
  LET i == g.slot[s].i
      e == FreeBlocks(g, LeafBlocks(g, i) \cup Indirects(g, i))
  IN  IF i.type \notin {"reg", "dir"} THEN g
      ELSE [e EXCEPT !.slot[s].i.zone = NoInode.zone, !.slot[s].i.size = 0, !.slot[s].dirt = TRUE,
                     !.text[g.slot[s].num] = <<>>]

FreeInode(g, s) ==
  LET n == g.slot[s].num
  IN  IF g.slot[s].count > 1 THEN Panic(g, "free_inode")
      ELSE IF n \notin g.imap THEN Panic(g, "free_inode: bit")
      ELSE [g EXCEPT !.imap = @ \ {n}, !.slot[s] = NoSlot]

-----------------------------------------------------------------------------
\* inode.c.
WriteInode(g, s) ==
  [g EXCEPT !.dinode = IF g.slot[s].num = 0 THEN @ ELSE [@ EXCEPT ![g.slot[s].num] = g.slot[s].i],
            !.slot[s].dirt = FALSE]


Drops(g, s) == g.slot[s].i.nlinks = 0

\* iput; the repeat of its loop writes the inode at most once.
Iput(g, s) ==
  IF s = 0 THEN g
  ELSE IF g.slot[s].count = 0 THEN Panic(g, "iput")
  ELSE IF g.slot[s].num = 0 \/ g.slot[s].count > 1 THEN [g EXCEPT !.slot[s].count = @ - 1]
  ELSE IF Drops(g, s) THEN FreeInode(Truncate(g, s), s)
  ELSE [(IF g.slot[s].dirt THEN WriteInode(g, s) ELSE g) EXCEPT !.slot[s].count = @ - 1]

\* get_empty_inode: the next slot nobody uses, written out and emptied.
GetEmptyInode(g) ==
  LET free == {s \in Slots : g.slot[s].count = 0}
      from == {s \in free : s >= g.last}
      s == First(IF from = {} THEN free ELSE from)
  IN  IF free = {} THEN <<Panic(g, "No free inodes in mem"), 0>>
      ELSE LET e == IF g.slot[s].dirt THEN WriteInode(g, s) ELSE g
           IN  <<[e EXCEPT !.last = s, !.slot[s] = [NoSlot EXCEPT !.count = 1]], s>>


Cached(g, n) == {s \in Slots : g.slot[s].num = n}

\* iget: an inode that is in the table is used again, whether it is in use or not,
\* and the slot that get_empty_inode has returned is put back.
Again(g, n, empty) ==
  LET in == First(Cached(g, n))
  IN  <<Iput([g EXCEPT !.slot[in].count = @ + 1], empty), in>>

\* iget, when get_empty_inode has returned r.
IgetInto(r, n) ==
  IF r[2] = 0 THEN r
  ELSE IF Cached(r[1], n) # {} THEN Again(r[1], n, r[2])
  ELSE <<[r[1] EXCEPT !.slot[r[2]].num = n, !.slot[r[2]].i = r[1].dinode[n]], r[2]>>

Iget(g, n) == IgetInto(GetEmptyInode(g), n)

\* new_inode, when get_empty_inode has returned r.
NewInodeInto(r) ==
  LET free == Numbers \ r[1].imap
  IN  IF r[2] = 0 THEN r
      ELSE IF free = {} THEN <<Iput(r[1], r[2]), 0>>
      ELSE <<[r[1] EXCEPT !.imap = @ \cup {First(free)}, !.text[First(free)] = <<>>,
                          !.slot[r[2]] = [num |-> First(free), count |-> 1, dirt |-> TRUE,
                                          i |-> [NoInode EXCEPT !.nlinks = 1]]], r[2]>>

NewInode(g) == NewInodeInto(GetEmptyInode(g))

(***************************************************************************)
(* _bmap: block b of the file of slot s, made if create.  The pointer to  *)
(* it is in the inode, or in a block of pointers.                          *)
(***************************************************************************)
InInode(g, s, n, create) ==
  LET z == g.slot[s].i.zone[n]
      set(e) == IF e[2] = 0 THEN <<g, 0>>
                ELSE <<[e[1] EXCEPT !.slot[s].i.zone[n] = e[2], !.slot[s].dirt = TRUE], e[2]>>
  IN  IF z # 0 \/ ~create THEN <<g, z>> ELSE set(NewBlock(g))

InBlock(r, n, create) ==
  LET z == r[1].ptr[r[2]][n]
      set(e) == IF e[2] = 0 THEN <<r[1], 0>> ELSE <<[e[1] EXCEPT !.ptr[r[2]][n] = e[2]], e[2]>>
  IN  IF r[2] = 0 THEN r ELSE IF z # 0 \/ ~create THEN <<r[1], z>> ELSE set(NewBlock(r[1]))

Bmap(g, s, b, create) ==
  LET d == b - DIRECT
  IN  IF d < 0 THEN InInode(g, s, b, create)
      ELSE IF d < PER THEN InBlock(InInode(g, s, DIRECT, create), d, create)
      ELSE IF d >= PER + PER * PER THEN <<Panic(g, "block>big"), 0>>
      ELSE InBlock(InBlock(InInode(g, s, DIRECT + 1, create), (d - PER) \div PER, create),
                   (d - PER) % PER, create)

-----------------------------------------------------------------------------
\* namei.c.  An entry is <<name, inode number>>, the number 0 when it is free.
Entries(g, s) == g.ent[g.slot[s].num]
FindEntry(g, s, name) ==
  LET at == {i \in DOMAIN Entries(g, s) : Entries(g, s)[i][1] = name /\ Entries(g, s)[i][2] # 0}
  IN  IF at = {} THEN 0 ELSE First(at)

\* The inode number that an entry gives.
NumberAt(g, s, e) == Entries(g, s)[e][2]

FreeEntries(es) == {i \in DOMAIN es : es[i][2] = 0}

(***************************************************************************)
(* add_entry, and the caller putting n into it: the first free entry, or a *)
(* new one, for which the directory may need a block (b is what _bmap      *)
(* returned).                                                              *)
(***************************************************************************)
AppendEntry(b, s, name, n) ==
  LET d == b[1].slot[s].num
  IN  IF b[2] = 0 THEN <<b[1], FALSE>>
      ELSE <<[b[1] EXCEPT !.ent[d] = Append(@, <<name, n>>), !.slot[s].i.size = Len(b[1].ent[d]) + 1,
                          !.slot[s].dirt = TRUE], TRUE>>

AddEntry(g, s, name, n) ==
  LET es == Entries(g, s)
  IN  IF FreeEntries(es) # {}
      THEN <<[g EXCEPT !.ent[g.slot[s].num][First(FreeEntries(es))] = <<name, n>>], TRUE>>
      ELSE AppendEntry(Bmap(g, s, Len(es) \div DIR_ENTRIES_PER_BLOCK, TRUE), s, name, n)

\* permission(): nobody may do anything with a deleted file.
Permitted(g, s) == g.slot[s].i.nlinks > 0

\* get_dir: from the root or the working directory through the names of the path.
Usable(g, s) == g.slot[s].i.type = "dir" /\ Permitted(g, s)

Walk(r, name) ==
  LET e == FindEntry(r[1], r[2], name)
  IN  IF r[2] = 0 THEN r
      ELSE IF ~Usable(r[1], r[2]) \/ e = 0 THEN <<Iput(r[1], r[2]), 0>>
      ELSE Iget(Iput(r[1], r[2]), NumberAt(r[1], r[2], e))

DirOnly(r) == IF r[2] # 0 /\ ~Usable(r[1], r[2]) THEN <<Iput(r[1], r[2]), 0>> ELSE r

GetDir(g, p, path) ==
  LET s == IF path.absolute THEN g.root[p] ELSE g.pwd[p]
  IN  DirOnly(FoldLeft(Walk, <<[g EXCEPT !.slot[s].count = @ + 1], s>>, path.dirs))

\* namei, in the directory that dir_namei has returned.
Accessed(r) == IF r[2] = 0 THEN r ELSE <<[r[1] EXCEPT !.slot[r[2]].dirt = TRUE], r[2]>>

NameiIn(d, name) ==
  LET e == FindEntry(d[1], d[2], name)
  IN  IF d[2] = 0 \/ name = "" THEN d
      ELSE IF e = 0 THEN <<Iput(d[1], d[2]), 0>>
      ELSE Accessed(Iget(Iput(d[1], d[2]), NumberAt(d[1], d[2], e)))

Namei(g, p, path) == NameiIn(GetDir(g, p, path), path.base)

-----------------------------------------------------------------------------
\* open_namei: a new file n in directory d; a is what add_entry has returned.
Entered(a, n, d) ==
  IF ~a[2] THEN <<Iput(Iput([a[1] EXCEPT !.slot[n].i.nlinks = @ - 1], n), d), 0>>
  ELSE <<Iput(a[1], d), n>>

NewFile(n, d, name) ==
  IF n[2] = 0 THEN <<Iput(n[1], d), 0>>
  ELSE Entered(AddEntry([n[1] EXCEPT !.slot[n[2]].i.type = "reg"], d, name, n[1].slot[n[2]].num), n[2], d)

\* open_namei: the file i is there.
OpenOld(i, how) ==
  LET s == i[2]
  IN  IF s = 0 THEN i
      ELSE IF (i[1].slot[s].i.type = "dir" /\ how \cap {"write", "trunc"} # {}) \/ ~Permitted(i[1], s)
           THEN <<Iput(i[1], s), 0>>
      ELSE <<IF "trunc" \in how THEN Truncate(i[1], s) ELSE i[1], s>>

OpenIn(r, name, how) ==
  LET g == r[1]
      d == r[2]
      e == FindEntry(g, d, name)
  IN  IF d = 0 \/ (name = "" /\ how \cap {"write", "creat", "trunc"} = {}) THEN r
      ELSE IF \/ name = ""
              \/ e = 0 /\ ("creat" \notin how \/ ~Permitted(g, d))
              \/ e # 0 /\ "excl" \in how
           THEN <<Iput(g, d), 0>>
      ELSE IF e = 0 THEN NewFile(NewInode(g), d, name)
      ELSE OpenOld(Iget(Iput(g, d), NumberAt(g, d, e)), how)

OpenNamei(g, p, path, how) == OpenIn(GetDir(g, p, path), path.base, how)

\* sys_open: the descriptor and the file are taken before the name is looked up.
Opened(r, p, how) ==
  LET fd == First({d \in 1 .. NR_OPEN : f.filp[p][d] = 0})
      x == First({y \in 1 .. NR_FILE : f.file[y].count = 0})
  IN  IF r[2] = 0 THEN r[1]
      ELSE [r[1] EXCEPT !.filp[p][fd] = x,
                        !.file[x] = [count |-> 1, inode |-> r[2], pos |-> 0,
                                     append |-> "append" \in how]]

Open(p, path, how) ==
  /\ \E d \in 1 .. NR_OPEN : f.filp[p][d] = 0
  /\ \E x \in 1 .. NR_FILE : f.file[x].count = 0
  /\ f' = Opened(OpenNamei(f, p, path, how), p, how)

\* sys_close.
Closed(g, p, fd) ==
  LET x == g.filp[p][fd]
      e == [g EXCEPT !.filp[p][fd] = 0, !.file[x].count = @ - 1]
  IN  IF x = 0 THEN g
      ELSE IF g.file[x].count = 0 THEN Panic(g, "Close: file count is 0")
      ELSE IF e.file[x].count > 0 THEN e
      ELSE [Iput(e, g.file[x].inode) EXCEPT !.file[x] = NoFile]

Close(p, fd) == f.filp[p][fd] # 0 /\ f' = Closed(f, p, fd)

Share(x) == [x EXCEPT !.count = @ + 1]

\* dupfd, for dup and F_DUPFD from arg = from on, and for dup2.
Dup(p, fd, from, two) ==
  LET g == IF two THEN Closed(f, p, from) ELSE f
      free == {d \in from .. NR_OPEN : g.filp[p][d] = 0}
      x == g.filp[p][fd]
  IN  /\ f.filp[p][fd] # 0
      /\ f' = IF x = 0 \/ free = {} THEN g
              ELSE [g EXCEPT !.filp[p][First(free)] = x, !.file[x] = Share(@)]

\* fcntl's F_SETFL.
SetFlags(p, fd, append) ==
  /\ f.filp[p][fd] # 0
  /\ f' = [f EXCEPT !.file[f.filp[p][fd]].append = append]

\* sys_lseek, from any origin, when the new position is not negative.
Lseek(p, fd, to) ==
  /\ f.filp[p][fd] # 0
  /\ f' = [f EXCEPT !.file[f.filp[p][fd]].pos = to]

\* The byte at pos, a hole being zero.
ByteAt(g, s, pos) ==
  LET z == Bmap(g, s, pos \div BLOCK_SIZE, FALSE)[2]
  IN  IF z = 0 THEN 0 ELSE g.byte[z][pos % BLOCK_SIZE]

\* For the mutation of Available: the end of the file is not looked at.
Available_Any(g, s, pos, n) == n

\* What sys_read makes of count before it calls file_read.
Available(g, s, pos, n) == IF n + pos > g.slot[s].i.size THEN g.slot[s].i.size - pos ELSE n

\* sys_read and file_read; the bytes of directories are left out.
Read(p, fd, n) ==
  LET x == f.filp[p][fd]
      s == f.file[x].inode
      pos == f.file[x].pos
      m == Available(f, s, pos, n)
      c == IF m <= 0 THEN 0 ELSE m
      whole == f.text[f.slot[s].num]
      end == IF pos + n < Len(whole) THEN pos + n ELSE Len(whole)
  IN  /\ x # 0 /\ f.slot[s].i.type = "reg"
      /\ f' = [f EXCEPT !.file[x].pos = pos + c,
                        !.got = [k \in 1 .. c |-> ByteAt(f, s, pos + k - 1)],
                        !.due = [k \in 1 .. end - pos |-> whole[pos + k]]]

\* One round of file_write: the bytes of one block, as many as fit and are left.
Filled(r, b) ==
  LET g == r.g
      o == r.pos % BLOCK_SIZE
      c == IF BLOCK_SIZE - o < r.left THEN BLOCK_SIZE - o ELSE r.left
      n == g.slot[r.s].num
      old == g.text[n]
      end == IF r.pos + c > Len(old) THEN r.pos + c ELSE Len(old)
  IN  IF b[2] = 0 THEN [r EXCEPT !.g = b[1], !.stop = TRUE]
      ELSE [r EXCEPT
             !.pos = @ + c, !.left = @ - c,
             !.g = [b[1] EXCEPT
                      !.byte[b[2]] = [k \in DOMAIN @ |-> IF k \in o .. o + c - 1 THEN 1 ELSE @[k]],
                      !.slot[r.s].i.size = IF r.pos + c > @ THEN r.pos + c ELSE @,
                      !.slot[r.s].dirt = @ \/ r.pos + c > g.slot[r.s].i.size,
                      !.text[n] = [k \in 1 .. end |-> IF k \in r.pos + 1 .. r.pos + c THEN 1
                                                      ELSE IF k <= Len(old) THEN old[k] ELSE 0]]]

WriteBlock(r) ==
  IF r.left = 0 \/ r.stop THEN r ELSE Filled(r, Bmap(r.g, r.s, r.pos \div BLOCK_SIZE, TRUE))

\* sys_write and file_write of n bytes, all 1.
Write(p, fd, n) ==
  LET x == f.filp[p][fd]
      s == f.file[x].inode
      from == IF f.file[x].append THEN f.slot[s].i.size ELSE f.file[x].pos
      blocks == n \div BLOCK_SIZE + 2
      round[k \in 0 .. blocks] ==
        IF k = 0 THEN [g |-> f, s |-> s, pos |-> from, left |-> n, stop |-> FALSE]
        ELSE WriteBlock(round[k - 1])
      r == round[blocks]
  IN  /\ x # 0 /\ f.slot[s].i.type = "reg"
      /\ f' = IF f.file[x].append THEN r.g ELSE [r.g EXCEPT !.file[x].pos = r.pos]

-----------------------------------------------------------------------------
Linked(g, s) == [g EXCEPT !.slot[s].i.nlinks = @ + 1, !.slot[s].dirt = TRUE]

\* sys_link of slot o into directory r; a is what add_entry has returned.
LinkEntered(a, o, d) ==
  IF ~a[2] THEN Iput(Iput(a[1], d), o) ELSE Iput(Linked(Iput(a[1], d), o), o)

LinkUnder(r, o, name) ==
  LET g == r[1]
      d == r[2]
  IN  IF d = 0 THEN Iput(g, o)
      ELSE IF name = "" \/ ~Permitted(g, d) \/ FindEntry(g, d, name) # 0 THEN Iput(Iput(g, d), o)
      ELSE LinkEntered(AddEntry(g, d, name, g.slot[o].num), o, d)

LinkTo(o, p, to) ==
  IF o[2] = 0 THEN o[1]
  ELSE IF o[1].slot[o[2]].i.type # "reg" THEN Iput(o[1], o[2])
  ELSE LinkUnder(GetDir(o[1], p, to), o[2], to.base)

Link(p, from, to) == f' = LinkTo(Namei(f, p, from), p, to)

\* sys_unlink of entry e of directory d, which names what iget has returned in i.
UnlinkAt(i, d, e, name) ==
  LET s == i[2]
  IN  IF s = 0 THEN Iput(i[1], d)
      ELSE IF i[1].slot[s].i.type # "reg" THEN Iput(Iput(i[1], s), d)
      ELSE Iput(Iput([i[1] EXCEPT !.ent[i[1].slot[d].num][e] = <<name, 0>>,
                                  !.slot[s].i.nlinks = @ - 1, !.slot[s].dirt = TRUE], s), d)

UnlinkIn(r, name) ==
  LET g == r[1]
      d == r[2]
      e == FindEntry(g, d, name)
  IN  IF d = 0 THEN g
      ELSE IF name = "" \/ ~Permitted(g, d) \/ e = 0 THEN Iput(g, d)
      ELSE UnlinkAt(Iget(g, NumberAt(g, d, e)), d, e, name)

Unlink(p, path) == f' = UnlinkIn(GetDir(f, p, path), path.base)

(***************************************************************************)
(* sys_mkdir.  When there is no room for the entry, the block of the new   *)
(* directory is freed, and freed again by the iput of a directory without  *)
(* links.                                                                  *)
(***************************************************************************)
DirEntered(a, s, d, block) ==
  IF ~a[2] THEN Iput([FreeBlock(Iput(a[1], d), block) EXCEPT !.slot[s].i.nlinks = 0], s)
  ELSE Iput(Iput(Linked(a[1], d), d), s)

WithBlock(b, s, d, name) ==
  LET g == b[1]
      num == g.slot[s].num
      i == [g EXCEPT !.slot[s].i.size = 2, !.slot[s].i.nlinks = 2, !.slot[s].i.type = "dir",
                     !.ent[num] = <<<<".", num>>, <<"..", g.slot[d].num>>>>]
  IN  IF b[2] = 0 THEN Iput([Iput(g, d) EXCEPT !.slot[s].i.nlinks = @ - 1], s)
      ELSE DirEntered(AddEntry(i, d, name, num), s, d, b[2])

NewDir(n, d, name) ==
  IF n[2] = 0 THEN Iput(n[1], d) ELSE WithBlock(InInode(n[1], n[2], 0, TRUE), n[2], d, name)

MkdirIn(r, name) ==
  LET g == r[1]
      d == r[2]
  IN  IF d = 0 THEN g
      ELSE IF name = "" \/ ~Permitted(g, d) \/ FindEntry(g, d, name) # 0 THEN Iput(g, d)
      ELSE NewDir(NewInode(g), d, name)

Mkdir(p, path) == f' = MkdirIn(GetDir(f, p, path), path.base)

\* empty_dir: nothing but "." and "..".
EmptyDir(g, s) == \A i \in 3 .. Len(Entries(g, s)) : Entries(g, s)[i][2] = 0

RmdirAt(i, d, e, name) ==
  LET s == i[2]
  IN  IF s = 0 THEN Iput(i[1], d)
      ELSE IF s = d \/ i[1].slot[s].i.type # "dir" \/ ~EmptyDir(i[1], s) THEN Iput(Iput(i[1], s), d)
      ELSE Iput(Iput([i[1] EXCEPT !.ent[i[1].slot[d].num][e] = <<name, 0>>, !.slot[s].i.nlinks = 0,
                                  !.slot[s].dirt = TRUE, !.slot[d].i.nlinks = @ - 1,
                                  !.slot[d].dirt = TRUE], d), s)

RmdirIn(r, name) ==
  LET g == r[1]
      d == r[2]
      e == FindEntry(g, d, name)
  IN  IF d = 0 THEN g
      ELSE IF name = "" \/ e = 0 \/ ~Permitted(g, d) THEN Iput(g, d)
      ELSE RmdirAt(Iget(g, NumberAt(g, d, e)), d, e, name)

Rmdir(p, path) == f' = RmdirIn(GetDir(f, p, path), path.base)

\* sys_chdir and sys_chroot: the old directory is put after the new one was got.
ChangedTo(r, p, chroot) ==
  LET s == r[2]
  IN  IF s = 0 THEN r[1]
      ELSE IF r[1].slot[s].i.type # "dir" THEN Iput(r[1], s)
      ELSE IF chroot THEN [Iput(r[1], f.root[p]) EXCEPT !.root[p] = s]
      ELSE [Iput(r[1], f.pwd[p]) EXCEPT !.pwd[p] = s]

Chdir(p, path, chroot) == f' = ChangedTo(Namei(f, p, path), p, chroot)

\* sys_stat, sys_access, sys_chmod, sys_chown, sys_utime: what they do to the tables.
Touched(r, dirty) ==
  IF r[2] = 0 THEN r[1] ELSE Iput([r[1] EXCEPT !.slot[r[2]].dirt = @ \/ dirty], r[2])

Touch(p, path, dirty) == f' = Touched(Namei(f, p, path), dirty)

\* sync_inodes, by sys_sync.
SyncInodes == f' = FoldSet(LAMBDA s, g : IF g.slot[s].dirt THEN WriteInode(g, s) ELSE g, f, Slots)

-----------------------------------------------------------------------------
\* mount_root on a new file system; the root's inode is used once for each
\* process's root and working directory, and twice by the super block.
FInit(nzones) ==
  LET root == [type |-> "dir", nlinks |-> 2, size |-> 2, zone |-> [NoInode.zone EXCEPT ![0] = 1]]
  IN  f = [slot |-> [s \in Slots |-> IF s = 1 THEN [num |-> 1, count |-> 2 * Cardinality(Users) + 2,
                                                     dirt |-> FALSE, i |-> root] ELSE NoSlot],
           dinode |-> [n \in Numbers |-> IF n = 1 THEN root ELSE NoInode],
           imap |-> {1}, zmap |-> {1}, nzones |-> nzones,
           ptr |-> [z \in Zones |-> [i \in 0 .. PER - 1 |-> 0]],
           byte |-> [z \in Zones |-> [i \in 0 .. BLOCK_SIZE - 1 |-> 0]],
           ent |-> [n \in Numbers |-> IF n = 1 THEN <<<<".", 1>>, <<"..", 1>>>> ELSE <<>>],
           text |-> [n \in Numbers |-> <<>>],
           last |-> 1, file |-> [x \in 1 .. NR_FILE |-> NoFile],
           filp |-> [p \in Users |-> [d \in 1 .. NR_OPEN |-> 0]],
           pwd |-> [p \in Users |-> 1], root |-> [p \in Users |-> 1],
           panic |-> "no", got |-> <<>>, due |-> <<>>]

-----------------------------------------------------------------------------
\* Counts, numbers and zones are those of the tables, whatever calls are made.
FTypeOK ==
  /\ f.imap \subseteq Numbers /\ f.zmap \subseteq Zones
  /\ \A s \in Slots : f.slot[s].num \in 0 .. NINODES /\ f.slot[s].count \in Nat /\ f.slot[s].i.nlinks \in Nat
  /\ f.filp \in [Users -> [1 .. NR_OPEN -> 0 .. NR_FILE]]

Fine == f.panic = "no"

\* The inode as it is now: in the table, or else on the disk.
Inode(n) == LET in == {s \in Slots : f.slot[s].num = n}
            IN  IF in = {} THEN f.dinode[n] ELSE f.slot[First(in)].i

\* iget, iput, open, close, chdir and the paths of namei.c: an inode's count is the
\* number of files, working directories and roots that refer to it, after any call,
\* whichever way the call failed; and no inode is in the table twice.
CountsReferences ==
  Fine =>
    /\ \A s \in Slots : f.slot[s].count =
         Cardinality({x \in 1 .. NR_FILE : f.file[x].count > 0 /\ f.file[x].inode = s})
         + Cardinality({p \in Users : f.pwd[p] = s}) + Cardinality({p \in Users : f.root[p] = s})
         + (IF f.slot[s].num = 1 THEN 2 ELSE 0)
    /\ \A s, t \in Slots : f.slot[s].num = f.slot[t].num /\ f.slot[s].num # 0 => s = t

\* open, dup, dup2, close: a file's count is the number of descriptors it has.
FilesCounted ==
  \A x \in 1 .. NR_FILE :
    f.file[x].count = Cardinality({<<p, d>> \in Users \X (1 .. NR_OPEN) : f.filp[p][d] = x})

Living == {n \in f.imap : Inode(n).type = "dir" /\ Inode(n).nlinks > 0}

\* link, unlink, mkdir, rmdir and open: an inode's links are the entries that name
\* it in directories that still exist, and no entry names a free inode.
LinksAreEntries ==
  Fine =>
    /\ \A n \in f.imap : Inode(n).nlinks =
         Cardinality({<<d, i>> \in Living \X (1 .. 2 * DIR_ENTRIES_PER_BLOCK) :
                        i \in DOMAIN f.ent[d] /\ f.ent[d][i][2] = n})
    /\ \A d \in Living : \A i \in DOMAIN f.ent[d] : f.ent[d][i][2] \in f.imap \cup {0}

\* The blocks of inode n, those of pointers included.
BlocksOf(n) == LeafBlocks(f, Inode(n)) \cup Indirects(f, Inode(n))

\* new_block, free_block, truncate and iput: the zone bitmap is exactly the blocks of
\* the inodes in use, and no block belongs to two of them: nothing leaks, whatever
\* ran out of space on the way.
BlocksAccounted ==
  Fine => /\ f.zmap = UNION {BlocksOf(n) : n \in f.imap}
          /\ \A m, n \in f.imap : m # n => BlocksOf(m) \cap BlocksOf(n) = {}

\* file_write, file_read, _bmap and truncate: a file has the bytes that were written
\* to it, and zero in between, across direct and indirect blocks; a read returns them.
FilesKeepBytes ==
  Fine =>
    /\ f.got = f.due
    /\ \A s \in Slots : f.slot[s].num \in f.imap /\ f.slot[s].i.type = "reg" =>
         /\ f.slot[s].i.size = Len(f.text[f.slot[s].num])
         /\ \A k \in 1 .. f.slot[s].i.size : ByteAt(f, s, k - 1) = f.text[f.slot[s].num][k]

\* iput and free_inode: an inode in use has a name or is open; nothing is kept that
\* nobody can reach.
NothingUnreachable ==
  Fine => \A n \in f.imap : Inode(n).nlinks > 0 \/ \E s \in Slots : f.slot[s].num = n /\ f.slot[s].count > 0


=============================================================================
