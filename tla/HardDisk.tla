------------------------------ MODULE HardDisk -------------------------------
(***************************************************************************)
(* The hard disk driver of Linux 0.01 (hd.c): processes queue requests     *)
(* while the interrupt handler serves and frees them.  Process b transfers *)
(* its own buffer b, whose block lies at position b of the disk; a block   *)
(* is two sectors.  The driver's data is one record h, so that what the    *)
(* handlers do in sequence is written as functions of h:                   *)
(*   lock, uptodate, half   the buffers: b_lock, b_uptodate and, for each  *)
(*                          half, the sector its bytes come from           *)
(*   used, cmd, bh, nsector, errors, next     the request slots            *)
(*   this, sorting, do_hd   this_request, sorting, do_hd                   *)
(*   ctl, media             the controller: its command; for each sector   *)
(*                          of a block, the half that was written to it    *)
(*   torn                   history: buffers whose request was repeated    *)
(*                          after its first sector                         *)
(***************************************************************************)
EXTENDS WaitQueues, FiniteSets, SequencesExt

CONSTANTS
  NR_REQUEST,   \* request slots
  Disks,        \* the buffers, each with the process that transfers it
  MAX_ERRORS,   \* errors a request survives
  NoPointer

ASSUME DiskAssumption ==
  /\ NR_REQUEST \in Nat \ {0} /\ Disks \subseteq Nat \ {0} /\ MAX_ERRORS \in Nat

VARIABLES
  h,            \* the driver's record
  hpc,          \* where each process is in rw_abs_hd
  slot, seen,   \* its request, and the this_request add_request saw
  hq,           \* sleepers on the buffers, and on wait_for_request
  hcpu,
  faults        \* errors the drive may still make

hvars == <<h, hpc, slot, seen, hq, hcpu, faults>>

Requests == 1 .. NR_REQUEST
wait_for_request == 0
Transfer == {"read", "write"}

-----------------------------------------------------------------------------

\* hd_out: the controller gets a command, and its interrupt a handler.
HdOut(d, command, handler) == [d EXCEPT !.ctl = command, !.do_hd = handler]

\* reset_hd and reset_controller.
ResetHd(d) == HdOut(d, "specify", "do_request")

\* port_write to, and port_read from, the sector the controller has reached: it
\* starts at the block's first sector with every command.
Half(n) == 1 + (n % 2)
PortWrite(d, b, n) == [d EXCEPT !.media[b][d.sector] = Half(n)]
PortRead(d, b, n) == [d EXCEPT !.half[b][Half(n)] = d.sector]

(***************************************************************************)
(* do_request: the outcomes.  A drive that does not ask for the data of a  *)
(* write is reset.                                                         *)
(***************************************************************************)
DoRequest(d) ==
  LET r == d.this
      start == [HdOut(d, d.cmd[r], d.cmd[r]) EXCEPT !.sector = 1]
  IN  IF d.sorting THEN {[d EXCEPT !.ctl = "idle"]}
      ELSE IF r = NoPointer THEN {[d EXCEPT !.ctl = "idle", !.do_hd = "NULL"]}
      ELSE IF d.cmd[r] = "read" THEN {start}
      ELSE {PortWrite(start, d.bh[r], d.nsector[r]), ResetHd(start)}

\* The end of this_request, without the wake-ups.
Freed(d) == [d EXCEPT !.used[d.this] = FALSE, !.this = d.next[d.this]]

Unlocked(d, ok) ==
  LET b == d.bh[d.this]
  IN  Freed([d EXCEPT !.lock[b] = FALSE, !.uptodate[b] = ok])

GivesUp(d) == d.errors[d.this] >= MAX_ERRORS

\* bad_rw_intr.
BadRwIntr(d) ==
  LET r == d.this
      e == [d EXCEPT !.errors[r] = @ + 1]
  IN  ResetHd(IF GivesUp(d) THEN Unlocked(e, FALSE)
              ELSE IF d.nsector[r] = 1 THEN [e EXCEPT !.torn = @ \cup {d.bh[r]}] ELSE e)

\* read_intr and write_intr after a good sector, one more to come.
NextSector(d) ==
  LET r == d.this
      n == [d EXCEPT !.nsector[r] = @ - 1, !.sector = @ + 1]
  IN  IF d.cmd[r] = "read" THEN [PortRead(d, d.bh[r], d.nsector[r]) EXCEPT
                                   !.nsector[r] = @ - 1, !.sector = @ + 1, !.errors[r] = 0]
      ELSE PortWrite(n, d.bh[r], 1)

\* ... and after the last.
LastSector(d) ==
  LET r == d.this
  IN  Unlocked(IF d.cmd[r] = "read" THEN PortRead(d, d.bh[r], d.nsector[r]) ELSE d, TRUE)

\* The handlers wake the buffer's sleepers and those waiting for a slot.
Finished(r) == WakeUp(WakeUp(hq, wait_for_request), h.bh[r])

(***************************************************************************)
(* hd_interrupt: the controller is done with a sector, or with SPECIFY.    *)
(***************************************************************************)
HdInterrupt ==
  LET r == h.this
      done == h.do_hd \in Transfer /\ h.nsector[r] = 1
  IN  /\ h.ctl # "idle"
      /\ \/ /\ h.do_hd = "do_request"
            /\ h' \in DoRequest(h) /\ UNCHANGED <<hq, faults>>
         \/ /\ h.do_hd \in Transfer /\ faults > 0
            /\ faults' = faults - 1
            /\ h' = BadRwIntr(h)
            /\ hq' = IF GivesUp(h) THEN Finished(r) ELSE hq
         \/ /\ h.do_hd \in Transfer /\ ~done
            /\ h' = NextSector(h) /\ UNCHANGED <<hq, faults>>
         \/ /\ done
            /\ h' \in DoRequest(LastSector(h))
            /\ hq' = Finished(r) /\ UNCHANGED faults
      /\ UNCHANGED <<hpc, slot, seen, hcpu>>

-----------------------------------------------------------------------------
Runs(b, l) == hpc[b] = l /\ hcpu \in {b, NoTask} /\ b \notin hq.inside
Step(b, l) == hpc' = [hpc EXCEPT ![b] = l] /\ hcpu' = b
Sleep(b, q, l) == hq' = SleepOn(hq, b, q) /\ hpc' = [hpc EXCEPT ![b] = l] /\ hcpu' = NoTask

Woken(b) ==
  /\ hcpu = NoTask /\ b \in hq.inside /\ b \notin hq.asleep
  /\ hq' = SleptOn(hq, b) /\ hcpu' = b
  /\ UNCHANGED <<h, hpc, slot, seen, faults>>

\* rw_abs_hd locks the buffer, then looks for a slot.
RwAbsHd(b, cmd) ==
  /\ Runs(b, "user")
  /\ h' = [h EXCEPT !.lock[b] = TRUE, !.uptodate[b] = cmd = "write", !.wants[b] = cmd]
  /\ Step(b, "slot")
  /\ UNCHANGED <<slot, seen, hq, faults>>

\* The first free slot is filled; the buffer is up to add_request from here on.
FillSlot(b) ==
  LET free == {r \in Requests : ~h.used[r]}
      r == CHOOSE r \in free : \A s \in free : r <= s
  IN  /\ Runs(b, "slot")
      /\ \/ /\ free = {} /\ Sleep(b, wait_for_request, "slot")
            /\ UNCHANGED <<h, slot, seen, faults>>
         \/ /\ free # {}
            /\ h' = [h EXCEPT !.used[r] = TRUE, !.cmd[r] = h.wants[b], !.bh[r] = b, !.nsector[r] = 2,
                              !.errors[r] = 0, !.next[r] = NoPointer, !.sorting = TRUE]
            /\ slot' = [slot EXCEPT ![b] = r]
            /\ Step(b, "sort") /\ UNCHANGED <<seen, hq, faults>>

\* add_request: this_request is read once; an empty queue gets its first entry.
ReadHead(b) ==
  /\ Runs(b, "sort")
  /\ h' = IF h.this = NoPointer THEN [h EXCEPT !.this = slot[b]] ELSE h
  /\ seen' = [seen EXCEPT ![b] = h.this]
  /\ Step(b, IF h.this = NoPointer THEN "sorted" ELSE "link")
  /\ UNCHANGED <<slot, hq, faults>>

InOrder(r, s) == h.bh[r] < h.bh[s]

\* r may go between t and the request behind t.
Fits(t, r) == (InOrder(t, r) \/ ~InOrder(t, h.next[t])) /\ InOrder(r, h.next[t])

\* The entries of the queue from r on; interrupts do not change next.
Behind(r) ==
  LET queue[n \in 0 .. NR_REQUEST] ==
        IF n = 0 THEN <<r>>
        ELSE LET q == queue[n - 1]
             IN  IF h.next[Last(q)] = NoPointer THEN q ELSE Append(q, h.next[Last(q)])
  IN  IF r = NoPointer THEN <<>> ELSE queue[NR_REQUEST]

\* The entry r goes behind: never before the second entry.
Place(first, r) ==
  IF h.next[first] = NoPointer THEN first
  ELSE LET q == Behind(h.next[first])
           fit == {i \in 1 .. Len(q) - 1 : Fits(q[i], r)}
       IN  q[IF fit = {} THEN Len(q) ELSE CHOOSE i \in fit : \A j \in fit : i <= j]

LinkIn(b) ==
  LET r == slot[b]
      t == Place(seen[b], r)
  IN  /\ Runs(b, "link")
      /\ h' = [h EXCEPT !.next = [@ EXCEPT ![r] = h.next[t], ![t] = r]]
      /\ Step(b, "sorted")
      /\ UNCHANGED <<slot, seen, hq, faults>>

\* The end of add_request: the controller is started if no handler is set.
Restart(b) ==
  LET d == [h EXCEPT !.sorting = FALSE]
  IN  /\ Runs(b, "sorted")
      /\ h' \in IF h.do_hd = "NULL" THEN DoRequest(d) ELSE {d}
      /\ Step(b, "wait")
      /\ UNCHANGED <<slot, seen, hq, faults>>

WaitOnTransfer(b) ==
  /\ Runs(b, "wait")
  /\ \/ h.lock[b] /\ Sleep(b, b, "wait")
     \/ ~h.lock[b] /\ hpc' = [hpc EXCEPT ![b] = "user"] /\ hcpu' = NoTask /\ UNCHANGED hq
  /\ UNCHANGED <<h, slot, seen, faults>>

-----------------------------------------------------------------------------
\* hd_init; half and media start as they are after a good read of every block.
HInit(n) ==
  /\ h = [lock |-> [b \in Disks |-> FALSE], uptodate |-> [b \in Disks |-> FALSE],
          wants |-> [b \in Disks |-> "none"],
          half |-> [b \in Disks |-> <<0, 0>>], media |-> [b \in Disks |-> <<1, 2>>],
          used |-> [r \in Requests |-> FALSE], cmd |-> [r \in Requests |-> "read"],
          bh |-> [r \in Requests |-> 0], nsector |-> [r \in Requests |-> 0],
          errors |-> [r \in Requests |-> 0], next |-> [r \in Requests |-> NoPointer],
          this |-> NoPointer, sorting |-> FALSE, do_hd |-> "NULL",
          ctl |-> "idle", sector |-> 1, torn |-> {}]
  /\ hpc = [b \in Disks |-> "user"] /\ slot = [b \in Disks |-> 0]
  /\ seen = [b \in Disks |-> NoPointer]
  /\ hq = NoSleepers(Disks \cup {wait_for_request}, Disks) /\ hcpu = NoTask /\ faults = n

DiskProcess(b) ==
  Woken(b) \/ FillSlot(b) \/ ReadHead(b) \/ LinkIn(b) \/ Restart(b) \/ WaitOnTransfer(b)

HNext ==
  \/ HdInterrupt
  \/ \E b \in Disks : DiskProcess(b) \/ \E cmd \in Transfer : RwAbsHd(b, cmd)

HSpec == (\E n \in Nat : HInit(n)) /\ [][HNext]_hvars

-----------------------------------------------------------------------------
\* The requests, the controller and the handler have values of their types.
HTypeOK ==
  /\ h.this \in Requests \cup {NoPointer} /\ h.next \in [Requests -> Requests \cup {NoPointer}]
  /\ h.nsector \in [Requests -> 0 .. 2] /\ h.errors \in [Requests -> 0 .. MAX_ERRORS + 1]
  /\ h.ctl \in {"idle", "specify"} \cup Transfer
  /\ h.do_hd \in {"NULL", "do_request"} \cup Transfer

Queue == ToSet(Behind(h.this))

\* add_request against the interrupt: what this_request leads to are requests in
\* use, for different buffers, every one of them locked.
QueueIsWaitedFor ==
  /\ \A r \in Queue : h.used[r] /\ h.lock[h.bh[r]]
  /\ \A r, s \in Queue : h.bh[r] = h.bh[s] => r = s

\* hd_out and the handlers: while the controller has a command a handler is set,
\* so that no process starts it a second time, and the handler of a transfer has
\* the request the transfer is for.
HandlerFits ==
  /\ h.ctl # "idle" => h.do_hd # "NULL"
  /\ h.ctl \in Transfer => h.do_hd = h.ctl /\ h.this # NoPointer /\ h.cmd[h.this] = h.ctl

\* add_request's elevator: from the second entry on, the queue goes over the disk
\* once and then once more from the start, whatever order the requests come in.
OneSweep ==
  LET q == Behind(h.this)
  IN  Cardinality({i \in 2 .. Len(q) - 1 : ~InOrder(q[i], q[i + 1])}) <= 1

\* read_intr: a buffer that became up to date by a read has both its sectors, in
\* order, unless the read was repeated between the two.
ReadBringsBlock ==
  \A b \in Disks : h.uptodate[b] /\ h.wants[b] = "read" /\ b \notin h.torn => h.half[b] = <<1, 2>>

\* add_request's comment on interrupts that "may have died down": when nobody is
\* sorting, a queue that is not empty has the controller at work.
DiskNotStalled == ~h.sorting /\ h.this # NoPointer => h.ctl # "idle"

\* sleep_on and wake_up: processes waiting for a slot wait because there is none.
SlotSleepersHaveReason ==
  hq.head[wait_for_request] # NoTask => \A r \in Requests : h.used[r]


=============================================================================
