------------------------------- MODULE Memory --------------------------------
(***************************************************************************)
(* Memory of the processes of Linux 0.01 (memory.c, with the parts of      *)
(* fork.c, exit.c and exec.c that use it): page tables copied at a fork    *)
(* with the pages shared for reading, pages given on demand, shared pages  *)
(* copied at a write, and mem_map, the number of users of each page.       *)
(*                                                                         *)
(* A process has DIRS directory entries of TABLE pages each.  Frames up to *)
(* LOW are below LOW_MEM: the kernel's, mapped by the first processes and  *)
(* not counted.  The kernel is not preempted, so an operation is one step  *)
(* unless it sleeps; any process may be the one that runs.                 *)
(***************************************************************************)
EXTENDS Integers, FiniteSets, FiniteSetsExt, SequencesExt

CONSTANTS
  TASKS,        \* NR_TASKS (64); process 0 is the idle task
  DIRS,         \* directory entries of a process (16, that is 64 MB)
  TABLE,        \* entries of a page table (1024)
  LOW,          \* frames below LOW_MEM that task 0 maps (160)
  HIGH,         \* the last frame; those above LOW are PAGING_PAGES
  ArgSizes,     \* pages of environment and of arguments a program may be given
  DATA          \* what may be written to a page; 0 is an empty page

ASSUME MemoryAssumption ==
  /\ {TASKS, DIRS, TABLE, LOW, HIGH} \subseteq Nat \ {0}
  /\ LOW <= TABLE /\ LOW < HIGH /\ 0 \in DATA

VARIABLES
  mem_map,      \* users of each paging page
  dir,          \* by process and directory entry: frame of the page table, or 0
  pte,          \* by process and page: [frame, rw], frame 0 when not present
  data,         \* contents of each frame
  limit,        \* by process: directory entries below its segment limit
  taskpage,     \* by process: the frame of its task_struct, or 0
  status,       \* by process: "free", "live", "loading" or "zombie"
  leaked,       \* history: pages nobody will free
  fault         \* "no", or how the kernel came to a stop

mvars == <<mem_map, dir, pte, data, limit, taskpage, status, leaked, fault>>

Procs == 0 .. (TASKS - 1)
Frames == 1 .. HIGH
Paging == (LOW + 1) .. HIGH
Vpages == 0 .. (DIRS * TABLE - 1)
Dirs == 0 .. (DIRS - 1)
DirOf(v) == v \div TABLE

Absent == [frame |-> 0, rw |-> FALSE]

\* The state the operations below work on.
Mem == [map |-> mem_map, dir |-> dir, pte |-> pte, data |-> data, lost |-> leaked,
        fault |-> fault]

\* The contents of a free page are kept as 0: get_free_page will empty it.
Becomes(m) ==
  /\ mem_map' = m.map /\ dir' = m.dir /\ pte' = m.pte
  /\ data' = [f \in Frames |-> IF f \in Paging /\ m.map[f] = 0 THEN 0 ELSE m.data[f]]
  /\ leaked' = m.lost /\ fault' = m.fault

-----------------------------------------------------------------------------
NoFree(m) == \A f \in Paging : m.map[f] # 0

\* get_free_page: the last free page, emptied.
FreePage(m) == Max({f \in Paging : m.map[f] = 0})
TakePage(m, f) == [m EXCEPT !.map[f] = 1, !.data[f] = 0]

\* Entries of the tables in ds of process s that map frame f.
Mapped(m, s, ds, f) ==
  Cardinality({v \in Vpages : DirOf(v) \in ds /\ m.pte[s][v].frame = f})

\* Users that frame f loses with the tables in ds.
Dropped(m, s, ds, f) ==
  Mapped(m, s, ds, f) + Cardinality({d \in ds : m.dir[s][d] = f})

(***************************************************************************)
(* free_page_tables for the first lim entries of s: each page and each     *)
(* table loses a user.  free_page returns at once for a page below LOW_MEM *)
(* and panics for one that has no user.                                    *)
(***************************************************************************)
FreeTables(m, s, lim) ==
  LET gone == {d \in Dirs : d < lim /\ m.dir[s][d] # 0}
      drop == [f \in Paging |-> Dropped(m, s, gone, f)]
  IN  [m EXCEPT !.map = [f \in Paging |-> IF @[f] >= drop[f] THEN @[f] - drop[f] ELSE 0],
                !.dir[s] = [d \in Dirs |-> IF d \in gone THEN 0 ELSE @[d]],
                !.pte[s] = [v \in Vpages |-> IF DirOf(v) \in gone THEN Absent ELSE @[v]],
                !.fault = IF \E f \in Paging : drop[f] > m.map[f]
                          THEN "trying to free free page" ELSE @]

\* For the mutation of Shared: the father goes on writing to the page.
Shared_ByChildOnly(m, s, v) == m.pte[s][v]

\* The entry of the father for a page that is now shared; the low pages of the
\* idle task stay writable.
Shared(m, s, v) ==
  IF m.pte[s][v].frame \in Paging THEN [m.pte[s][v] EXCEPT !.rw = FALSE] ELSE m.pte[s][v]

\* Users that frame f gets when entry d of s is copied.
Added(m, s, d, f) == Mapped(m, s, {d}, f)

(***************************************************************************)
(* copy_page_tables, one directory entry of the father s: a table for the  *)
(* child n, the same pages in both, read-only, with one more user each.    *)
(***************************************************************************)
CopyDir(m, s, n, d) ==
  LET t == FreePage(m)
      mine == {v \in Vpages : DirOf(v) = d}
      took == TakePage(m, t)
  IN  [took EXCEPT
         !.dir[n][d] = t,
         !.map = [f \in Paging |-> @[f] + Added(m, s, d, f)],
         !.pte[n] = [v \in Vpages |-> IF v \in mine THEN [m.pte[s][v] EXCEPT !.rw = FALSE] ELSE @[v]],
         !.pte[s] = [v \in Vpages |-> IF v \in mine THEN Shared(m, s, v) ELSE @[v]]]

\* copy_page_tables: it stops at the first table there is no page for.
CopyTables(m, s, n, lim) ==
  LET next(c, d) ==
        IF c.stop \/ c.m.dir[s][d] = 0 THEN c
        ELSE IF c.m.dir[n][d] # 0
             THEN [m |-> [c.m EXCEPT !.fault = "already exist"], stop |-> TRUE]
        ELSE IF NoFree(c.m) THEN [c EXCEPT !.stop = TRUE]
        ELSE [c EXCEPT !.m = CopyDir(c.m, s, n, d)]
  IN  FoldLeft(next, [m |-> m, stop |-> FALSE], [i \in 1 .. lim |-> i - 1])

\* put_page fails when the page needs a table and there is no page for one.
PutFails(m, s, v) == m.dir[s][DirOf(v)] = 0 /\ NoFree(m)

PutPage(m, s, v, f) ==
  LET d == DirOf(v)
      t == FreePage(m)
      m1 == IF m.dir[s][d] # 0 THEN m ELSE [TakePage(m, t) EXCEPT !.dir[s][d] = t]
  IN  [m1 EXCEPT !.pte[s][v] = [frame |-> f, rw |-> TRUE]]

Lose(m, f) == [m EXCEPT !.lost = @ \cup {f}]

-----------------------------------------------------------------------------
\* do_exit: everything below the segment limit is given back; the page of the
\* task_struct stays until the father waits.
Dies(m, s) ==
  /\ Becomes(FreeTables(m, s, limit[s]))
  /\ status' = [status EXCEPT ![s] = "zombie"]
  /\ UNCHANGED <<limit, taskpage>>

Stays == UNCHANGED <<limit, taskpage, status>>

Runs(s) == fault = "no" /\ status[s] \in {"live", "loading"}

(***************************************************************************)
(* do_no_page.  When there is a page but no table for it, the task dies    *)
(* and the page stays taken.                                               *)
(***************************************************************************)
NoPage(s, v) ==
  /\ Runs(s) /\ DirOf(v) < limit[s] /\ pte[s][v].frame = 0
  /\ \/ NoFree(Mem) /\ Dies(Mem, s)
     \/ /\ ~NoFree(Mem)
        /\ LET f == FreePage(Mem)
               m == TakePage(Mem, f)
           IN  \/ PutFails(m, s, v) /\ Dies(Lose(m, f), s)
               \/ ~PutFails(m, s, v) /\ Becomes(PutPage(m, s, v, f)) /\ Stays

LastUser(m, f) == f \in Paging /\ m.map[f] = 1

LeaveOld(m, f) == IF f \in Paging THEN [m EXCEPT !.map[f] = @ - 1] ELSE m

\* un_wp_page: the entry becomes writable, on a copy if the page has other users.
UnWp(m, s, v) ==
  LET old == m.pte[s][v].frame
      new == FreePage(m)
  IN  IF LastUser(m, old) THEN [m EXCEPT !.pte[s][v].rw = TRUE]
      ELSE [LeaveOld(TakePage(m, new), old) EXCEPT
              !.pte[s][v] = [frame |-> new, rw |-> TRUE], !.data[new] = m.data[old]]

UnWpFails(m, s, v) == ~LastUser(m, m.pte[s][v].frame) /\ NoFree(m)

ReadOnly(s, v) == pte[s][v].frame # 0 /\ ~pte[s][v].rw

\* do_wp_page, at a write to a page that is present and read-only.
WpPage(s, v) ==
  /\ Runs(s) /\ ReadOnly(s, v)
  /\ \/ UnWpFails(Mem, s, v) /\ Dies(Mem, s)
     \/ ~UnWpFails(Mem, s, v) /\ Becomes(UnWp(Mem, s, v)) /\ Stays

\* A write of the process to a page it may write.  The idle task writes nothing
\* once it has forked, see the comment on fork() in main.c.
Write(s, v, x) ==
  /\ Runs(s) /\ status[s] = "live" /\ pte[s][v].rw
  /\ s = 0 => \A n \in Procs \ {0} : status[n] = "free"
  /\ Becomes([Mem EXCEPT !.data[pte[s][v].frame] = x])
  /\ Stays


\* write_verify, for a page that is present.
Verified(m, s, v) == IF ReadOnly(s, v) THEN UnWp(m, s, v) ELSE m

\* The kernel writes to a buffer of the process: the processor ignores that the
\* page is read-only, so verify_area has to look.
KernelWrite(s, v, x) ==
  /\ Runs(s) /\ s # 0 /\ status[s] = "live" /\ pte[s][v].frame # 0
  /\ \/ ReadOnly(s, v) /\ UnWpFails(Mem, s, v) /\ Dies(Mem, s)
     \/ /\ ~(ReadOnly(s, v) /\ UnWpFails(Mem, s, v))
        /\ LET m == Verified(Mem, s, v)
           IN  Becomes([m EXCEPT !.data[m.pte[s][v].frame] = x])
        /\ Stays

-----------------------------------------------------------------------------
(***************************************************************************)
(* copy_process and copy_mem: a page for the task_struct, then the tables; *)
(* when they cannot be copied, what was copied is freed.                   *)
(***************************************************************************)
ForkProc(s, n) ==
  /\ Runs(s) /\ status[s] = "live" /\ status[n] = "free"
  /\ \/ /\ NoFree(Mem)
        /\ UNCHANGED mvars
     \/ /\ ~NoFree(Mem)
        /\ LET p == FreePage(Mem)
               c == CopyTables(TakePage(Mem, p), s, n, limit[s])
           IN  \/ /\ c.stop
                  /\ Becomes([FreeTables(c.m, n, limit[s]) EXCEPT !.map[p] = @ - 1])
                  /\ Stays
               \/ /\ ~c.stop
                  /\ Becomes(c.m)
                  /\ status' = [status EXCEPT ![n] = "live"]
                  /\ limit' = [limit EXCEPT ![n] = limit[s]]
                  /\ taskpage' = [taskpage EXCEPT ![n] = p]

ExitProc(s) == Runs(s) /\ s # 0 /\ Dies(Mem, s)

\* release(), when the father has waited.
Reap(s) ==
  /\ fault = "no" /\ status[s] = "zombie"
  /\ Becomes([Mem EXCEPT !.map[taskpage[s]] = @ - 1])
  /\ taskpage' = [taskpage EXCEPT ![s] = 0]
  /\ status' = [status EXCEPT ![s] = "free"]
  /\ UNCHANGED limit

\* n pages for the strings of exec, as copy_strings takes them.
ArgPages(m, n) ==
  FoldLeft(LAMBDA c, i : IF NoFree(c.m) THEN c
                         ELSE [m |-> TakePage(c.m, FreePage(c.m)), got |-> Append(c.got, FreePage(c.m))],
           [m |-> m, got |-> <<>>], [i \in 1 .. n |-> i])

\* change_ldt: the pages go to the top of the new space; put_page may fail,
\* which nobody notices.
PutArgs(m, s, got) ==
  FoldLeft(LAMBDA c, i : LET v == DIRS * TABLE - i
                         IN  IF PutFails(c, s, v) THEN Lose(c, got[i]) ELSE PutPage(c, s, v, got[i]),
           m, [i \in 1 .. Len(got) |-> i])

(***************************************************************************)
(* do_execve with nenv pages of environment and narg of arguments.  When   *)
(* memory runs out in the environment, copy_strings is still called for    *)
(* the arguments, with p = 0, and reads page[] far out of its bounds.      *)
(***************************************************************************)
Exec(s, nenv, narg) ==
  /\ Runs(s) /\ s # 0 /\ status[s] = "live"
  /\ LET env == ArgPages(Mem, nenv)
         all == ArgPages(Mem, nenv + narg)
         freed == [all.m EXCEPT !.map = [f \in Paging |-> IF f \in ToSet(all.got) THEN 0 ELSE @[f]]]
     IN  \/ /\ Len(env.got) < nenv /\ narg > 0
            /\ fault' = "page[] out of bounds"
            /\ UNCHANGED <<mem_map, dir, pte, data, limit, taskpage, status, leaked>>
         \/ /\ Len(all.got) < nenv + narg /\ ~(Len(env.got) < nenv /\ narg > 0)
            /\ Becomes(freed) /\ Stays
         \/ /\ Len(all.got) = nenv + narg
            /\ Becomes(PutArgs(FreeTables(all.m, s, limit[s]), s, all.got))
            /\ limit' = [limit EXCEPT ![s] = DIRS]
            /\ status' = [status EXCEPT ![s] = "loading"]
            /\ UNCHANGED taskpage

\* read_area: the text is read into the first page, which faults in first; a
\* read error ends the process.
Load(s, x) ==
  /\ Runs(s) /\ status[s] = "loading"
  /\ \/ /\ pte[s][0].frame # 0
        /\ Becomes([Mem EXCEPT !.data[pte[s][0].frame] = x])
        /\ status' = [status EXCEPT ![s] = "live"]
        /\ UNCHANGED <<limit, taskpage>>
     \/ Dies(Mem, s)

-----------------------------------------------------------------------------
\* After boot: the idle task maps the kernel's pages, one table of its own.
MInit ==
  /\ mem_map = [f \in Paging |-> 0]
  /\ dir = [s \in Procs |-> [d \in Dirs |-> IF s = 0 /\ d = 0 THEN LOW ELSE 0]]
  /\ pte = [s \in Procs |-> [v \in Vpages |->
              IF s = 0 /\ v < LOW THEN [frame |-> v + 1, rw |-> TRUE] ELSE Absent]]
  /\ data = [f \in Frames |-> 0]
  /\ limit = [s \in Procs |-> 1]
  /\ taskpage = [s \in Procs |-> 0]
  /\ status = [s \in Procs |-> IF s = 0 THEN "live" ELSE "free"]
  /\ leaked = {} /\ fault = "no"

\* The idle task forks once.
Forker(s) == s = 0 => \A n \in Procs \ {0} : status[n] = "free"

MNext ==
  \E s \in Procs :
    \/ \E v \in Vpages : (s # 0 /\ NoPage(s, v)) \/ WpPage(s, v)
    \/ \E v \in Vpages, x \in DATA \ {0} : Write(s, v, x) \/ KernelWrite(s, v, x)
    \/ \E n \in Procs : Forker(s) /\ n = Min({p \in Procs : status[p] = "free"} \cup {TASKS}) /\ ForkProc(s, n)
    \/ ExitProc(s) \/ Reap(s)
    \/ \E a \in ArgSizes : Exec(s, a[1], a[2])
    \/ \E x \in DATA \ {0} : Load(s, x)

MSpec == MInit /\ [][MNext]_mvars

-----------------------------------------------------------------------------
\* Entries point to frames there are, and no page has a negative count of users.
MTypeOK ==
  /\ mem_map \in [Paging -> 0 .. (TASKS * (DIRS + 1) * TABLE)]
  /\ dir \in [Procs -> [Dirs -> 0 .. HIGH]]
  /\ pte \in [Procs -> [Vpages -> [frame : 0 .. HIGH, rw : BOOLEAN]]]
  /\ data \in [Frames -> DATA] /\ limit \in [Procs -> 1 .. DIRS]
  /\ taskpage \in [Procs -> {0} \cup Paging]
  /\ status \in [Procs -> {"free", "live", "loading", "zombie"}]
  /\ leaked \subseteq Paging
  /\ fault \in {"no", "trying to free free page", "already exist", "page[] out of bounds"}

\* How many table entries, tables and task_structs use a page.
PageUsers(f) ==
  Cardinality({x \in Procs \X Vpages : pte[x[1]][x[2]].frame = f})
  + Cardinality({x \in Procs \X Dirs : dir[x[1]][x[2]] = f})
  + Cardinality({s \in Procs : taskpage[s] = f})

\* get_free_page, free_page, copy_page_tables, un_wp_page: mem_map counts the
\* users of every page, but for pages lost when memory ran out, which have one
\* user too many and no other.
CountsUsers ==
  \A f \in Paging : mem_map[f] = PageUsers(f) + (IF f \in leaked THEN 1 ELSE 0)

\* un_wp_page and copy_page_tables: a page somebody may write has no other user.
WritableIsPrivate ==
  \A s \in Procs, v \in Vpages :
    pte[s][v].rw /\ pte[s][v].frame \in Paging => PageUsers(pte[s][v].frame) = 1

\* free_page and copy_page_tables: the two panics about counts never happen.
NoMemoryPanic == fault \notin {"trying to free free page", "already exist"}

\* What a process reads: a page that is not present will be empty.
Reads(s, v) == IF pte[s][v].frame = 0 THEN 0 ELSE data[pte[s][v].frame]

Private == INSTANCE AddressSpaces WITH
  Tasks <- Procs, Pages <- Vpages, Values <- DATA,
  alive <- {s \in Procs : status[s] \in {"live", "loading"}},
  space <- [s \in Procs |-> [v \in Vpages |-> Reads(s, v)]]


\* memory.c under fork, fault, exec and exit: pages are counted once for each use, a
\* page that may be written has one, and no count is taken below zero.
PagesCounted == MTypeOK /\ CountsUsers /\ WritableIsPrivate /\ NoMemoryPanic

=============================================================================
