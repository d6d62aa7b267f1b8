-------------------------------- MODULE Pipe ---------------------------------
(***************************************************************************)
(* Pipes of Linux 0.01: pipe.c, get_pipe_inode and the pipe's part of iput *)
(* (inode.c), and how fork, close and exit share its two files.            *)
(*                                                                         *)
(* x.ring is the page, with head and tail; x.count is i_count, 0 when      *)
(* there is no pipe; x.w has the tasks asleep on i_wait.  Between two      *)
(* sleeps a call is one step.  x.file holds the file table: the count and  *)
(* the end ("read", "write", or "other" for a file that is no pipe).       *)
(* x.doing and x.left are the call a task is inside and its bytes left.    *)
(* x.sent and x.taken count the bytes that went in and came out.           *)
(***************************************************************************)
EXTENDS WaitQueues, FiniteSets

CONSTANTS PAGE_SIZE, NR_FILE, NR_OPEN, Pipers, Chunks, MaxSent

ASSUME PipeAssumption ==
  /\ PAGE_SIZE \in Nat \ {0, 1} /\ NR_FILE \in Nat \ {0} /\ NR_OPEN \in Nat \ {0}
  /\ Pipers \subseteq Nat \ {0} /\ MaxSent \in Nat /\ Chunks \subseteq 1 .. PAGE_SIZE

VARIABLE x

Files == 1 .. NR_FILE
Fds == 1 .. NR_OPEN
NoEnd == [count |-> 0, end |-> "other"]
Lowest(S) == CHOOSE a \in S : \A b \in S : a <= b

PIPE_SIZE(y) == (y.head - y.tail) % PAGE_SIZE
PIPE_EMPTY(y) == y.head = y.tail
PIPE_FULL(y) == PIPE_SIZE(y) = PAGE_SIZE - 1

INC_PIPE(i) == (i + 1) % PAGE_SIZE

Wake(y) == [y EXCEPT !.w = WakeUp(@, "i_wait")]
Nap(y, t) == [y EXCEPT !.w = SleepOn(@, t, "i_wait")]
Done(y, t) == [y EXCEPT !.doing[t] = "none", !.left[t] = 0]

-----------------------------------------------------------------------------
\* read_pipe's second loop, the bytes being numbered in the order they were sent.
Take(y, n) ==
  LET m == IF n < PIPE_SIZE(y) THEN n ELSE PIPE_SIZE(y)
      bytes == [k \in 1 .. m |-> y.ring[(y.tail + k - 1) % PAGE_SIZE]]
      gone == {(y.tail + k - 1) % PAGE_SIZE : k \in 1 .. m}
  IN  [y EXCEPT !.tail = (@ + m) % PAGE_SIZE, !.taken = @ + m,
                !.ring = [i \in DOMAIN @ |-> IF i \in gone THEN 0 ELSE @[i]],
                !.inorder = @ /\ \A k \in 1 .. m : bytes[k] = y.taken + k]

ReadLoop(y, t) ==
  IF ~PIPE_EMPTY(y) THEN Done(Wake(Take(y, y.left[t])), t)
  ELSE IF y.count # 2 THEN Done(Wake(y), t)
  ELSE Nap(Wake(y), t)

\* One byte of write_pipe, and as many as find room.
PutByte(y, t) ==
  Wake([y EXCEPT !.ring[y.head] = y.sent + 1, !.head = INC_PIPE(@), !.sent = @ + 1, !.left[t] = @ - 1])

Fill(y, t) ==
  LET more[k \in 0 .. PAGE_SIZE] ==
        IF k = 0 THEN y
        ELSE IF more[k - 1].left[t] = 0 \/ PIPE_FULL(more[k - 1]) THEN more[k - 1]
        ELSE PutByte(more[k - 1], t)
  IN  more[PAGE_SIZE]

WriteLoop(y, t) ==
  LET z == Fill(y, t)
  IN  IF z.left[t] = 0 \/ z.count # 2 THEN Done(Wake(z), t) ELSE Nap(Wake(z), t)

Starts(y, t, what, n) == [y EXCEPT !.doing[t] = what, !.left[t] = n]

\* sys_read and sys_write on a pipe; f_mode says which end the file is.
ReadPipe(t, fd, n) ==
  /\ x.filp[t][fd] # 0 /\ x.file[x.filp[t][fd]].end = "read"
  /\ x' = ReadLoop(Starts(x, t, "read", n), t)

WritePipe(t, fd, n) ==
  /\ x.filp[t][fd] # 0 /\ x.file[x.filp[t][fd]].end = "write"
  /\ x' = IF x.count # 2 THEN Wake(x) ELSE WriteLoop(Starts(Wake(x), t, "write", n), t)

\* The task runs again, behind sleep_on.
Resume(t) ==
  /\ t \in x.w.inside \ x.w.asleep
  /\ LET y == [x EXCEPT !.w = SleptOn(@, t)]
     IN  x' = IF x.doing[t] = "read" THEN ReadLoop(y, t) ELSE WriteLoop(y, t)

-----------------------------------------------------------------------------
\* For the mutation of IputPipe: the other end is not told.
IputPipe_Silent(y) == [y EXCEPT !.count = @ - 1]

IputPipe(y) == [Wake(y) EXCEPT !.count = @ - 1]

\* sys_close.
CloseOne(y, t, fd) ==
  LET n == y.filp[t][fd]
      z == [y EXCEPT !.filp[t][fd] = 0, !.file[n].count = @ - 1]
  IN  IF n = 0 THEN y
      ELSE IF z.file[n].count > 0 THEN z
      ELSE IF y.file[n].end = "other" THEN z
      ELSE [IputPipe(z) EXCEPT !.file[n] = NoEnd]

ClosePipe(t, fd) == x.filp[t][fd] # 0 /\ x' = CloseOne(x, t, fd)

\* do_exit closes the descriptors in turn.
ExitPipe(t) ==
  LET closed[d \in 0 .. NR_OPEN] == IF d = 0 THEN x ELSE CloseOne(closed[d - 1], t, d)
  IN  x' = [closed[NR_OPEN] EXCEPT !.alive = @ \ {t}]

\* copy_process: the child has the parent's files.
ForkPipe(t, child) ==
  /\ child \notin x.alive
  /\ x' = [x EXCEPT !.alive = @ \cup {child}, !.filp[child] = x.filp[t],
                    !.file = [n \in Files |-> [@[n] EXCEPT
                       !.count = @ + Cardinality({d \in Fds : x.filp[t][d] = n})]]]

\* sys_pipe gives back the files it took.
Undone(y, a, b) == [y EXCEPT !.file[a].count = 0, !.file[b].count = 0]

\* sys_pipe; memory says whether get_pipe_inode gets a page.
SysPipe(t, memory) ==
  LET free == {n \in Files : x.file[n].count = 0}
      fds == {d \in Fds : x.filp[t][d] = 0}
      a == Lowest(free)
      b == Lowest(free \ {a})
      c == Lowest(fds)
      d == Lowest(fds \ {c})
      y == [x EXCEPT !.file[a].count = 1, !.file[b].count = 1]
  IN  /\ x.count = 0
      /\ x' = IF Cardinality(free) < 2 THEN x
              ELSE IF Cardinality(fds) < 2 \/ ~memory THEN Undone(y, a, b)
              ELSE [y EXCEPT !.filp[t][c] = a, !.filp[t][d] = b, !.count = 2,
                             !.file[a].end = "read", !.file[b].end = "write",
                             !.head = 0, !.tail = 0, !.taken = x.sent,
                             !.ring = [i \in DOMAIN @ |-> 0]]

-----------------------------------------------------------------------------
\* others: files, and descriptors of each task, that are not of the pipe.
XInit(others) ==
  x = [ring |-> [i \in 0 .. PAGE_SIZE - 1 |-> 0], head |-> 0, tail |-> 0, count |-> 0,
       w |-> NoSleepers({"i_wait"}, Pipers), alive |-> {1},
       file |-> [n \in Files |-> IF n <= others THEN [count |-> 1, end |-> "other"] ELSE NoEnd],
       filp |-> [t \in Pipers |-> [d \in Fds |-> IF t = 1 /\ d <= others THEN d ELSE 0]],
       doing |-> [t \in Pipers |-> "none"], left |-> [t \in Pipers |-> 0],
       sent |-> 0, taken |-> 0, inorder |-> TRUE]

PipeRunning(t) == t \in x.alive /\ t \notin x.w.inside

PipeCall(t) ==
  /\ PipeRunning(t)
  /\ \/ \E memory \in BOOLEAN : SysPipe(t, memory)
     \/ \E fd \in Fds, n \in Chunks :
          ReadPipe(t, fd, n) \/ (x.sent + n <= MaxSent /\ WritePipe(t, fd, n))
     \/ \E fd \in Fds : ClosePipe(t, fd)
     \/ \E child \in Pipers : ForkPipe(t, child)
     \/ t # 1 /\ ExitPipe(t)

XNext == \E t \in Pipers : PipeCall(t) \/ Resume(t)

-----------------------------------------------------------------------------
\* Head and tail stay in the page of the pipe, and counts within their tables.
XTypeOK ==
  /\ x.head \in 0 .. PAGE_SIZE - 1 /\ x.tail \in 0 .. PAGE_SIZE - 1 /\ x.count \in 0 .. 2
  /\ x.left \in [Pipers -> 0 .. PAGE_SIZE] /\ x.w.inside \subseteq x.alive

\* sys_pipe, fork, close, exit and iput: a file's count is the number of its
\* descriptors, and the pipe's the number of its ends in use, also when sys_pipe
\* fails half way.
EndsCounted ==
  /\ \A n \in Files : x.file[n].count = Cardinality({<<t, d>> \in x.alive \X Fds : x.filp[t][d] = n})
  /\ x.count = Cardinality({n \in Files : x.file[n].count > 0 /\ x.file[n].end # "other"})

\* read_pipe and write_pipe: the bytes come out in the order they were sent, none
\* is lost or overwritten, and what is in the page is what was not taken yet.
PipeInOrder ==
  /\ x.inorder
  /\ x.count > 0 => PIPE_SIZE(x) = x.sent - x.taken

\* The tasks that a task which is running behind sleep_on will wake, and they the others.
Coming ==
  LET next(S) == S \cup {x.w.tmp[t] : t \in S \ {NoTask}}
      reach[k \in 0 .. Cardinality(Pipers)] == IF k = 0 THEN x.w.inside \ x.w.asleep ELSE next(reach[k - 1])
  IN  reach[Cardinality(Pipers)]

\* sleep_on and wake_up in pipe.c, one queue for readers and writers: a task that
\* stays asleep is a reader of an empty pipe or a writer to a full one, and the
\* other end is still open.
PipeSleepersHaveReason ==
  \A t \in x.w.asleep \ Coming :
    /\ x.count = 2
    /\ IF x.doing[t] = "read" THEN PIPE_EMPTY(x) ELSE PIPE_FULL(x)

\* iput wakes whoever sleeps on the pipe: a call that waits for the other end returns
\* once that end is closed.
PipeReturns == \A t \in Pipers : (x.doing[t] # "none" /\ x.count # 2) ~> (x.doing[t] = "none")

\* pipe.c among tasks that come and go: ends are counted, bytes come out in order,
\* and who sleeps waits for an end that is open.
PipeSound == XTypeOK /\ EndsCounted /\ PipeInOrder /\ PipeSleepersHaveReason

=============================================================================
