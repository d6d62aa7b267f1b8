--------------------------------- MODULE Tty ---------------------------------
(***************************************************************************)
(* A serial terminal of Linux 0.01 (tty_io.c, tty.h, serial.c, rs_io.s):   *)
(* processes read and write it while interrupts bring characters in and    *)
(* take characters out.                                                    *)
(*                                                                         *)
(* The tty_struct is the record y: the queues read_q, secondary and        *)
(* write_q are rings with a head and a tail, as in tty.h; data counts the  *)
(* lines in secondary; stopped; tx is the transmitter's interrupt enable;  *)
(* sig are the signals of the processes, which all belong to the tty's     *)
(* group.  line and sent are history: what secondary should hold, and what *)
(* write_q should if nothing has been echoed.                              *)
(***************************************************************************)
EXTENDS WaitQueues, Sequences, FiniteSets

CONSTANTS
  TTY_BUF_SIZE,
  Slack,        \* 20: the room in secondary a reader waits for a line with
  Room,         \* 128: the room in write_q a blocked writer waits for
  WAKEUP_CHARS, \* the number of characters left at which it is woken
  Readers, Writers,
  Keys,         \* characters that can be received
  CANON, ECHO, VMIN, VTIME   \* the modes, as sets of the values they may have

ASSUME TtyAssumption ==
  /\ TTY_BUF_SIZE \in Nat \ {0, 1} /\ Room < TTY_BUF_SIZE /\ Slack < TTY_BUF_SIZE
  /\ Readers \cap Writers = {} /\ Readers \cup Writers \subseteq Nat \ {0}

VARIABLES
  y,            \* the tty
  ypc, nr, got, \* where a process is, what it still wants, what it has
  yq, ycpu

yvars == <<y, ypc, nr, got, yq, ycpu>>

Users == Readers \cup Writers

-----------------------------------------------------------------------------
\* The macros of tty.h; UNPUT is DEC of a queue's head, Flushed is flush().  What is
\* left in a cell behind the tail is not kept.
Unused == "-"
LEFT(q) == (q.tail - q.head - 1) % TTY_BUF_SIZE
CHARS(q) == (q.head - q.tail) % TTY_BUF_SIZE
EMPTY(q) == q.head = q.tail

FULL(q) == LEFT(q) = 0
LAST(q) == q.buf[(q.head - 1) % TTY_BUF_SIZE]
GETCH(q) == [q EXCEPT !.tail = (@ + 1) % TTY_BUF_SIZE, !.buf[q.tail] = Unused]

PUTCH(c, q) == [q EXCEPT !.buf[q.head] = c, !.head = (@ + 1) % TTY_BUF_SIZE]

UNPUT(q) == [q EXCEPT !.head = (@ - 1) % TTY_BUF_SIZE, !.buf[(q.head - 1) % TTY_BUF_SIZE] = Unused]
Flushed(q) == [q EXCEPT !.head = q.tail, !.buf = [i \in DOMAIN @ |-> Unused]]

NewQueue == [head |-> 0, tail |-> 0, buf |-> [i \in 0 .. TTY_BUF_SIZE - 1 |-> Unused]]
Content(q) == [i \in 1 .. CHARS(q) |-> q.buf[(q.tail + i - 1) % TTY_BUF_SIZE]]


\* rs_write: the transmitter has something to do.
RsWrite(t) == [t EXCEPT !.tx = @ \/ ~EMPTY(t.write_q)]

\* Echoed characters go to write_q without a look at its room.
Echo(t, cs) ==
  LET q == t.write_q
  IN  IF ~t.echo THEN t
      ELSE RsWrite([t EXCEPT !.echoed = TRUE,
                             !.write_q = IF Len(cs) = 1 THEN PUTCH(cs[1], q) ELSE PUTCH(cs[2], PUTCH(cs[1], q))])

\* tty_intr: every process of the group gets the signal.
TtyIntr(t) == [t EXCEPT !.sig = [p \in Users |-> @[p] \cup {"INT"}]]

EndsLine(c) == c \in {"NL", "EOF"}

Erases(q) == ~EMPTY(q) /\ ~EndsLine(LAST(q))

Counted(c) == IF EndsLine(c) THEN 1 ELSE 0

(***************************************************************************)
(* The body of copy_to_cooked for one character.  CR is what I_CRNL makes  *)
(* NL of.                                                                  *)
(***************************************************************************)
Cook(t0) ==
  LET c == LET r == t0.read_q.buf[t0.read_q.tail] IN IF r = "CR" THEN "NL" ELSE r
      t == [t0 EXCEPT !.read_q = GETCH(@)]
  IN  IF t.canon /\ c = "ERASE" THEN
        IF ~Erases(t.secondary) THEN t
        ELSE [Echo(t, <<"DEL">>) EXCEPT !.secondary = UNPUT(@), !.line = SubSeq(@, 1, Len(@) - 1)]
      ELSE IF t.canon /\ c \in {"STOP", "START"} THEN [t EXCEPT !.stopped = c = "STOP"]
      ELSE IF c = "INTR" THEN TtyIntr(t)
      ELSE LET e == CASE c = "NL" -> Echo(t, <<"NL", "CR">>)
                      [] c = "EOF" -> Echo(t, <<"^", "D">>)
                      [] OTHER -> Echo(t, <<c>>)
           IN  [e EXCEPT !.data = @ + Counted(c), !.secondary = PUTCH(c, @), !.line = Append(@, c)]

\* copy_to_cooked, without its wake_up.
CopyToCooked(t0) ==
  LET cooked[n \in 0 .. TTY_BUF_SIZE] ==
        IF n = 0 THEN t0
        ELSE LET t == cooked[n - 1]
             IN  IF EMPTY(t.read_q) \/ FULL(t.secondary) THEN t ELSE Cook(t)
  IN  cooked[TTY_BUF_SIZE]

\* read_char: a character for which there is no room is dropped.
Receive(c) ==
  /\ ~FULL(y.read_q)
  /\ y' = CopyToCooked([y EXCEPT !.read_q = PUTCH(c, @)])
  /\ yq' = WakeUp(yq, "secondary")
  /\ UNCHANGED <<ypc, nr, got, ycpu>>

\* write_char wakes the process that waits for room: early, and when all is sent.
Tells(n) == n <= WAKEUP_CHARS \/ n = 1

\* write_char: one character leaves; wakes without taking the process off the queue.
Transmit ==
  LET n == CHARS(y.write_q)
      e == n <= 1
  IN  /\ y.tx
      /\ y' = IF n = 0 THEN [y EXCEPT !.tx = FALSE]
              ELSE [y EXCEPT !.write_q = GETCH(@), !.tx = ~e,
                             !.sent = IF @ = <<>> THEN @ ELSE Tail(@)]
      /\ yq' = IF Tells(n) \/ n = 0 THEN Interrupted(yq, yq.head["write_q"]) ELSE yq
      /\ UNCHANGED <<ypc, nr, got, ycpu>>

-----------------------------------------------------------------------------
At(p, l) == ypc[p] = l /\ ycpu \in {p, NoTask} /\ p \notin yq.inside
Goes(p, l) == ypc' = [ypc EXCEPT ![p] = l] /\ ycpu' = IF l = "user" THEN NoTask ELSE p
Naps(p, q) == yq' = SleepOn(yq, p, q) /\ ycpu' = NoTask /\ UNCHANGED <<y, ypc, nr, got>>

\* interruptible_sleep_on behind schedule().
WakesUp(p) ==
  LET q == IF p \in Readers THEN "secondary" ELSE "write_q"
  IN  /\ ycpu = NoTask /\ p \in yq.inside /\ p \notin yq.asleep
      /\ yq' = InterruptiblySlept(yq, p, q)
      /\ ycpu' = IF p \in yq'.inside THEN NoTask ELSE p
      /\ UNCHANGED <<y, ypc, nr, got>>

\* schedule() lets a process with a signal run.
Signal(p) ==
  /\ p \in yq.asleep /\ y.sig[p] # {}
  /\ yq' = Interrupted(yq, p)
  /\ UNCHANGED <<y, ypc, nr, got, ycpu>>

\* tty_read: with a time and no minimum, one character or the alarm ends it.
TtyRead(p, n) ==
  /\ p \in Readers /\ At(p, "user")
  /\ nr' = [nr EXCEPT ![p] = n] /\ got' = [got EXCEPT ![p] = 0]
  /\ Goes(p, "loop") /\ UNCHANGED <<y, yq>>

Timed == y.vtime /\ y.vmin = 0
Minimum(n) == LET m == IF Timed THEN 1 ELSE y.vmin IN IF m > n THEN n ELSE m

\* The alarm that tty_read has set, while the process sleeps.
AlarmRings(p) ==
  /\ p \in Readers /\ ypc[p] = "loop" /\ Timed /\ p \in yq.asleep /\ y.sig[p] = {}
  /\ y' = [y EXCEPT !.sig[p] = {"ALRM"}]
  /\ UNCHANGED <<ypc, nr, got, yq, ycpu>>

\* A signal ends the read; the alarm of tty_read itself is taken back.
ReadEnds(p) ==
  /\ p \in Readers /\ At(p, "loop")
  /\ nr[p] = 0 \/ y.sig[p] # {}
  /\ y' = [y EXCEPT !.sig[p] = {}]
  /\ Goes(p, "user") /\ UNCHANGED <<nr, got, yq>>

\* A reader of lines waits for a line, unless secondary is nearly full.
NoLine == y.canon /\ y.data = 0 /\ LEFT(y.secondary) > Slack

ReadSleeps(p) ==
  /\ p \in Readers /\ At(p, "loop") /\ nr[p] > 0 /\ y.sig[p] = {}
  /\ EMPTY(y.secondary) /\ Naps(p, "secondary")

\* Not empty, but no line: sleep_if_empty returns at once, and the loop goes round
\* without giving the processor away.
ReadSpins(p) ==
  /\ p \in Readers /\ At(p, "loop") /\ nr[p] > 0 /\ y.sig[p] = {}
  /\ ~EMPTY(y.secondary) /\ NoLine
  /\ ycpu' = p /\ UNCHANGED <<y, ypc, nr, got, yq>>

\* One round of the inner loop: from the outer one, or from a round before.
ReadTakes(p) ==
  LET c == y.secondary.buf[y.secondary.tail]
      q == GETCH(y.secondary)
      eof == c = "EOF" /\ y.canon
      have == got[p] + 1
      end == eof \/ ((EMPTY(q) \/ nr[p] = 1) /\ (y.canon \/ have >= Minimum(nr[p] + got[p])))
  IN  /\ p \in Readers /\ ~EMPTY(y.secondary)
      /\ At(p, "take") \/ (At(p, "loop") /\ nr[p] > 0 /\ y.sig[p] = {} /\ ~NoLine)
      /\ y' = [y EXCEPT !.secondary = q, !.data = @ - Counted(c), !.line = Tail(@)]
      /\ nr' = [nr EXCEPT ![p] = IF eof THEN @ ELSE @ - 1]
      /\ got' = [got EXCEPT ![p] = IF eof THEN @ ELSE have]
      /\ Goes(p, IF end THEN "user" ELSE IF EMPTY(q) \/ nr[p] = 1 THEN "loop" ELSE "take")
      /\ UNCHANGED yq

\* tty_write of n characters.
TtyWrite(p, n) ==
  /\ p \in Writers /\ At(p, "user")
  /\ nr' = [nr EXCEPT ![p] = n] /\ Goes(p, "check")
  /\ UNCHANGED <<y, got, yq>>

\* sleep_if_full: a full queue is waited for until there is some room.
WriteChecks(p) ==
  /\ p \in Writers /\ (At(p, "check") \/ At(p, "blocked"))
  /\ \/ /\ y.sig[p] = {} /\ LEFT(y.write_q) < Room /\ (ypc[p] = "blocked" \/ FULL(y.write_q))
        /\ yq' = SleepOn(yq, p, "write_q") /\ ypc' = [ypc EXCEPT ![p] = "blocked"] /\ ycpu' = NoTask
        /\ UNCHANGED <<y, nr>>
     \/ /\ y.sig[p] # {}
        /\ y' = [y EXCEPT !.sig[p] = {}] /\ Goes(p, "user") /\ UNCHANGED <<nr, yq>>
     \/ /\ y.sig[p] = {} /\ ~(LEFT(y.write_q) < Room /\ (ypc[p] = "blocked" \/ FULL(y.write_q)))
        /\ Goes(p, "fill") /\ UNCHANGED <<y, nr, yq>>
  /\ UNCHANGED got

\* A character is put; with post-processing an NL gets its CR in a round of its own.
WritePuts(p) ==
  /\ p \in Writers /\ At(p, "fill") /\ nr[p] > 0 /\ ~FULL(y.write_q)
  /\ \E cr \in {TRUE, FALSE} :
       /\ cr => ~y.cr_flag
       /\ y' = [y EXCEPT !.write_q = PUTCH(IF cr THEN "CR" ELSE "a", @), !.cr_flag = cr,
                         !.sent = Append(@, IF cr THEN "CR" ELSE "a")]
       /\ nr' = [nr EXCEPT ![p] = IF cr THEN @ ELSE @ - 1]
  /\ Goes(p, "fill") /\ UNCHANGED <<got, yq>>

\* tty->write, then schedule() if there is more to write.
WriteStarts(p) ==
  /\ p \in Writers /\ At(p, "fill") /\ (nr[p] = 0 \/ FULL(y.write_q))
  /\ y' = RsWrite(y)
  /\ ypc' = [ypc EXCEPT ![p] = IF nr[p] > 0 THEN "check" ELSE "user"] /\ ycpu' = NoTask
  /\ UNCHANGED <<nr, got, yq>>

\* tty_ioctl: TCFLSH, and TCSETSF with other modes.
Flush(p, which) ==
  /\ At(p, "user") /\ which \subseteq {"read", "write"} /\ which # {}
  /\ y' = [y EXCEPT !.read_q = IF "read" \in which THEN Flushed(@) ELSE @,
                    !.write_q = IF "write" \in which THEN Flushed(@) ELSE @,
                    !.sent = IF "write" \in which THEN <<>> ELSE @]
  /\ UNCHANGED <<ypc, nr, got, yq, ycpu>>

SetTermios(p, canon, echo, flush) ==
  /\ At(p, "user")
  /\ y' = [y EXCEPT !.canon = canon, !.echo = echo,
                    !.read_q = IF flush THEN Flushed(@) ELSE @]
  /\ UNCHANGED <<ypc, nr, got, yq, ycpu>>

-----------------------------------------------------------------------------
YInit ==
  /\ \E canon \in CANON, echo \in ECHO, vmin \in VMIN, vtime \in VTIME :
       y = [read_q |-> NewQueue, write_q |-> NewQueue, secondary |-> NewQueue, data |-> 0,
            stopped |-> FALSE, tx |-> FALSE, cr_flag |-> FALSE, canon |-> canon, echo |-> echo,
            vmin |-> vmin, vtime |-> vtime, sig |-> [p \in Users |-> {}], line |-> <<>>, sent |-> <<>>, echoed |-> FALSE]
  /\ ypc = [p \in Users |-> "user"] /\ nr = [p \in Users |-> 0] /\ got = nr
  /\ yq = NoSleepers({"secondary", "write_q"}, Users) /\ ycpu = NoTask

TtyKernel(p) ==
  \/ WakesUp(p) \/ Signal(p) \/ ReadEnds(p) \/ ReadSleeps(p) \/ ReadSpins(p) \/ ReadTakes(p)
  \/ WriteChecks(p) \/ WritePuts(p) \/ WriteStarts(p)

TtyCall(p, n) ==
  \/ TtyRead(p, n) \/ TtyWrite(p, n)
  \/ \E which \in SUBSET {"read", "write"} : Flush(p, which)
  \/ \E canon \in CANON, echo \in ECHO, flush \in BOOLEAN : SetTermios(p, canon, echo, flush)

-----------------------------------------------------------------------------
\* Heads and tails of the queues stay in their rings, and counts are counts.
YTypeOK ==
  /\ \A q \in {y.read_q, y.write_q, y.secondary} : {q.head, q.tail} \subseteq 0 .. TTY_BUF_SIZE - 1
  /\ y.data \in 0 .. TTY_BUF_SIZE /\ nr \in [Users -> Nat] /\ got \in [Users -> Nat]

\* copy_to_cooked against tty_read: secondary.data is the number of line ends in
\* secondary, erasing included, so that a reader of lines is neither kept from a
\* line nor let through without one.
LinesCounted == y.data = Cardinality({i \in 1 .. CHARS(y.secondary) : EndsLine(Content(y.secondary)[i])})

\* The rings of tty.h: what was typed and edited comes out in order and complete,
\* also when secondary is full and the rest stays in read_q.
InputInOrder == Content(y.secondary) = y.line

\* tty_write against the transmitter: as long as nothing is echoed into the same
\* queue, what was written leaves in order.
OutputInOrder == y.echoed \/ Content(y.write_q) = y.sent

\* sleep_if_empty and sleep_if_full against the interrupts: no reader is asleep
\* while there is input, and no writer while the transmitter is off.
TtySleepersHaveReason ==
  /\ yq.head["secondary"] \in yq.asleep => EMPTY(y.secondary)
  /\ yq.head["write_q"] \in yq.asleep => y.tx


=============================================================================
