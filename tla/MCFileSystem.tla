---------------------------- MODULE MCFileSystem -----------------------------
(***************************************************************************)
(* Two loads: calls on names, and calls on the bytes of one file.          *)
(***************************************************************************)
EXTENDS FileSystem

CONSTANTS MaxNameCalls, MaxByteCalls, Scarce

VARIABLES fload, fcalls

fsvars == <<f, fload, fcalls>>

Paths == [absolute : BOOLEAN, dirs : {<<>>, <<"d">>, <<"..">>}, base : Names \cup {"d", ""}]
AnyPath == [absolute : {TRUE}, dirs : {<<>>, <<"d">>}, base : Names \cup {"d"}]

NameCall(p) ==
  \/ \E path \in Paths : \E how \in {{}, {"creat"}, {"creat", "excl"}} : Open(p, path, how)
  \/ \E fd \in 1 .. NR_OPEN : Close(p, fd)
  \/ \E a, b \in AnyPath : Link(p, a, b)
  \/ \E path \in Paths :
       Unlink(p, path) \/ Mkdir(p, path) \/ Rmdir(p, path) \/ Touch(p, path, TRUE) \/ Touch(p, path, FALSE)
  \/ \E path \in Paths, chroot \in BOOLEAN : Chdir(p, path, chroot)
  \/ SyncInodes

\* A larger file than i_zone can describe is a panic of _bmap, and is not asked for.
WithinFile(p, fd, n) ==
  LET x == f.file[f.filp[p][fd]]
  IN  /\ x.pos + n <= (DIRECT + PER + PER * PER) * BLOCK_SIZE
      /\ f.slot[x.inode].i.size + n <= (DIRECT + PER + PER * PER) * BLOCK_SIZE

ByteCall(p) ==
  \/ \E how \in {{}, {"creat", "write"}, {"write", "trunc"}, {"write", "append"}} :
       Open(p, [absolute |-> TRUE, dirs |-> <<>>, base |-> "a"], how)
  \/ Unlink(p, [absolute |-> TRUE, dirs |-> <<>>, base |-> "a"])
  \/ \E fd \in 1 .. NR_OPEN :
       \/ Close(p, fd)
       \/ \E from \in 1 .. NR_OPEN, two \in BOOLEAN : Dup(p, fd, from, two)
       \/ \E to \in {0, 1, 3, 6, 9} : Lseek(p, fd, to)
       \/ \E append \in BOOLEAN : SetFlags(p, fd, append)
       \/ \E n \in {1, 3, 5} : Read(p, fd, n)
       \/ \E n \in {1, 3, 5} : f.filp[p][fd] # 0 /\ WithinFile(p, fd, n) /\ Write(p, fd, n)

MFInit ==
  /\ fcalls = 0
  /\ \/ fload = "names" /\ \E n \in Scarce : FInit(n)
     \/ fload = "bytes" /\ FInit(NZONES)

MFNext ==
  /\ Fine /\ fcalls' = fcalls + 1 /\ UNCHANGED fload
  /\ \E p \in Users :
       \/ fload = "names" /\ fcalls < MaxNameCalls /\ NameCall(p)
       \/ fload = "bytes" /\ fcalls < MaxByteCalls /\ ByteCall(p)

MFSpec == MFInit /\ [][MFNext]_fsvars


=============================================================================
