----------------------------- MODULE Interrupts ------------------------------
(***************************************************************************)
(* Interrupts of the kernel: the gates and the controllers that init_idt   *)
(* sets up (descriptor_tables.c), the stubs (asm/interrupt.s), dispatch    *)
(* and acknowledgement (isr.c) and the timer (timer.c).                    *)
(*                                                                         *)
(* The processor, the two interrupt controllers and the interval timer are *)
(* external: they are modelled as the code uses them.  Line l of the       *)
(* machine is line l of the master, or line l - PER of the slave, which    *)
(* hangs on line CASCADE of the master.                                    *)
(***************************************************************************)
EXTENDS Integers, Sequences, FiniteSets

CONSTANTS
  PER,          \* lines of a controller (8)
  CASCADE,      \* the line of the master with the slave (2)
  EXCEPTIONS,   \* vectors of the processor's own (32)
  CLOCK,        \* input frequency of the timer (1193180)
  BYTE,         \* numbers of a byte (256)
  Frequencies,  \* arguments of init_timer
  MaxDepth,     \* frames on the stack
  MaxTicks      \* bound on the tick counter

ASSUME InterruptsAssumption ==
  {PER, EXCEPTIONS, CLOCK, BYTE} \subseteq Nat \ {0} /\ CASCADE \in 0 .. (PER - 1)

VARIABLE irq

Lines == (0 .. (2 * PER - 1)) \ {CASCADE}
Faults == 0 .. (EXCEPTIONS - 1)
IRQ0 == EXCEPTIONS
Vector(l) == EXCEPTIONS + l
IsIrq(v) == v >= EXCEPTIONS

-----------------------------------------------------------------------------
\* A controller takes its vector offset and its cascade from the second and third
\* words behind the command that starts its initialisation (external).
PicWrite(pic, w) ==
  CASE w.port = "command" -> [pic EXCEPT !.step = 1]
    [] w.port = "data" /\ pic.step = 1 -> [pic EXCEPT !.step = 2, !.offset = w.value]
    [] w.port = "data" /\ pic.step \in {2, 3} -> [pic EXCEPT !.step = @ + 1]
    [] w.port = "data" /\ pic.step = 4 -> [pic EXCEPT !.mask = w.value]

Programmed(ws) ==
  LET pic[i \in 0 .. Len(ws)] ==
        IF i = 0 THEN [step |-> 0, offset |-> -1, mask |-> -1] ELSE PicWrite(pic[i - 1], ws[i])
  IN  pic[Len(ws)]

\* What init_idt writes to one controller, in this order.
IcwWords(offset, cascade) ==
  << [port |-> "command", value |-> 17], [port |-> "data", value |-> offset],
     [port |-> "data", value |-> cascade], [port |-> "data", value |-> 1],
     [port |-> "data", value |-> 0] >>

\* init_idt: gate n leads to the stub that pushes n, for exceptions and lines; the
\* others are zero.
InitIdt ==
  /\ irq.phase = "boot"
  /\ irq' = [irq EXCEPT !.phase = "run",
       !.master = Programmed(IcwWords(EXCEPTIONS, 4)),
       !.slave = Programmed(IcwWords(EXCEPTIONS + PER, 2)),
       !.gates = 0 .. (EXCEPTIONS + 2 * PER - 1)]

\* Code of the kernel that is interrupted sets the flag (external: nothing in
\* src/ does at present, kern_main runs with interrupts off).
Sti ==
  /\ irq.phase = "run" /\ irq.stack = <<>>
  /\ irq' = [irq EXCEPT !.enabled = TRUE]

-----------------------------------------------------------------------------
Raise(l) == irq' = [irq EXCEPT !.requested = @ \cup {l}]

\* In service on a controller, by line of the machine; a line of the slave is in
\* service on the master as CASCADE.
OnMaster(l) == IF l < PER THEN l ELSE CASCADE

\* The controllers let a line through when nothing of its priority or of a higher
\* one is in service (external).
Presented(l) ==
  /\ l \in irq.requested
  /\ \A m \in irq.inMaster : OnMaster(l) < m
  /\ l >= PER => \A m \in irq.inSlave : l < m
  /\ \A k \in irq.requested : k # l => OnMaster(l) < OnMaster(k) \/ (OnMaster(l) = OnMaster(k) /\ l < k)

VectorOf(l) == IF l < PER THEN irq.master.offset + l ELSE irq.slave.offset + l - PER

\* An interrupt gate (0x8E): the flag is saved and cleared, the stub pushes the
\* number of the vector.
Push(r, v) == [r EXCEPT !.stack = Append(@, [int_no |-> v, enabled |-> r.enabled, at |-> "entry"]),
                        !.enabled = FALSE]

Deliver(l) ==
  /\ irq.phase = "run" /\ irq.enabled /\ Presented(l) /\ Len(irq.stack) < MaxDepth
  /\ irq' = Push([irq EXCEPT !.requested = @ \ {l}, !.inMaster = @ \cup {OnMaster(l)},
                             !.inSlave = IF l < PER THEN @ ELSE @ \cup {l}], VectorOf(l))

\* An exception comes whatever the flag says.
Fault(v) ==
  /\ irq.phase = "run" /\ Len(irq.stack) < MaxDepth
  /\ irq.stack # <<>> => irq.stack[Len(irq.stack)].at = "handler"
  /\ irq' = Push(irq, v)

Top == irq.stack[Len(irq.stack)]
Goes(r, l) == [r EXCEPT !.stack[Len(r.stack)].at = l]

\* An end of interrupt takes the line of highest priority out of service.
Eoi(lines) == {l \in lines : \E m \in lines : m < l}

\* For the mutation of FromSlave: the first line of the slave is left out.
FromSlave_Late(int_no) == int_no > EXCEPTIONS + PER

FromSlave(int_no) == int_no >= EXCEPTIONS + PER

\* irq_handler, first half: end of interrupt for the slave and for the master.
Acknowledge ==
  /\ irq.stack # <<>> /\ Top.at = "entry" /\ IsIrq(Top.int_no)
  /\ irq' = Goes([irq EXCEPT !.inMaster = Eoi(@),
                             !.inSlave = IF FromSlave(Top.int_no) THEN Eoi(@) ELSE @], "handler")

\* isr_handler calls the handler of the vector or prints that there is none.
Dispatch ==
  /\ irq.stack # <<>> /\ Top.at = "entry" /\ ~IsIrq(Top.int_no)
  /\ irq' = Goes(irq, "handler")

\* irq_handler, second half: the registered handler; timer_callback counts.
Handle ==
  /\ irq.stack # <<>> /\ Top.at = "handler"
  /\ irq' = Goes([irq EXCEPT !.tick = IF Top.int_no = IRQ0 /\ irq.timer > 0 THEN @ + 1 ELSE @], "return")

\* For the mutation of Restored: sti outlives iret.
Restored_On(frame) == TRUE

\* The end of a stub: sti takes effect behind iret, which restores the flag.
Restored(frame) == frame.enabled

Iret ==
  /\ irq.stack # <<>> /\ Top.at = "return"
  /\ irq' = [irq EXCEPT !.enabled = Restored(Top), !.stack = SubSeq(@, 1, Len(@) - 1)]

-----------------------------------------------------------------------------
HighByte(div) == (div \div BYTE) % BYTE

\* init_timer: the divisor goes to the timer byte by byte; there 0 stands for the
\* largest divisor.
InitTimer(freq) ==
  /\ irq.phase = "run" /\ irq.stack = <<>> /\ irq.timer = 0
  /\ LET div == CLOCK \div freq
         sent == (div % BYTE) + BYTE * HighByte(div)
     IN  irq' = [irq EXCEPT !.timer = freq, !.reload = IF sent = 0 THEN BYTE * BYTE ELSE sent]

IInit ==
  irq = [phase |-> "boot", enabled |-> FALSE, stack |-> <<>>, gates |-> {},
         requested |-> {}, inMaster |-> {}, inSlave |-> {},
         master |-> Programmed(<<>>), slave |-> Programmed(<<>>),
         timer |-> 0, reload |-> 0, tick |-> 0]

INext ==
  \/ InitIdt \/ Sti \/ Acknowledge \/ Dispatch \/ Iret
  \/ irq.tick < MaxTicks /\ Handle
  \/ \E l \in Lines : Raise(l) \/ Deliver(l)
  \/ \E v \in Faults : Fault(v)
  \/ \E f \in Frequencies : InitTimer(f)

ISpec == IInit /\ [][INext]_irq

-----------------------------------------------------------------------------
\* irq_handler tells the controllers that the interrupt is over before it calls
\* the handler: only the flag keeps a second line out, also behind an exception
\* raised in the handler.
IrqsNotNested ==
  \A i, j \in DOMAIN irq.stack :
    IsIrq(irq.stack[i].int_no) /\ IsIrq(irq.stack[j].int_no) => i = j

\* irq_handler acknowledges what was delivered, on the controller it came from: a
\* line left in service would shut out those below it for ever.
ServiceEnds ==
  LET awaited == {irq.stack[i].int_no : i \in {j \in DOMAIN irq.stack : irq.stack[j].at = "entry"}}
  IN  /\ irq.inMaster = {OnMaster(v - EXCEPTIONS) : v \in {w \in awaited : IsIrq(w)}}
      /\ irq.inSlave = {v - EXCEPTIONS : v \in {w \in awaited : w >= EXCEPTIONS + PER}}

\* init_idt: every line has a vector of its own, with a gate, and none of an
\* exception; the number the stub pushes is the one of isr.h.
VectorsApart ==
  irq.phase = "run" =>
    \A l \in Lines : VectorOf(l) = Vector(l) /\ VectorOf(l) \in irq.gates \ Faults

\* init_timer: where the divisor fits in two bytes (timer.c:29) the timer runs at
\* the frequency asked for, or the next one above it that a divisor yields.
TimerRate ==
  irq.timer > 0 /\ CLOCK \div irq.timer \in 1 .. (BYTE * BYTE - 1) =>
    irq.timer * irq.reload <= CLOCK /\ CLOCK < irq.timer * (irq.reload + 1)

=============================================================================
