---------------------------- MODULE Descriptors ------------------------------
(***************************************************************************)
(* Segment and gate descriptors (descriptor_tables.c): the fields of a     *)
(* base, a limit and flags are scattered over an entry by shifts and       *)
(* masks; the processor gathers them again (external).  A byte has BYTE8   *)
(* values, half a byte HALF8, and a number of 32 bits BYTE8^4.             *)
(***************************************************************************)
EXTENDS Integers

CONSTANTS
  BYTE8, HALF8,
  GDT_ENTRIES,  \* entries of a table (NELEM)
  Limits        \* limits that segments are given

ASSUME DescriptorsAssumption ==
  HALF8 \in Nat \ {0} /\ BYTE8 = HALF8 * HALF8 /\ Limits \subseteq Nat

VARIABLE gdt    \* the entries and, beside each, what it was set from

Word == BYTE8 * BYTE8
Longs == 0 .. (Word * Word - 1)
Bytes == 0 .. (BYTE8 - 1)

MiddleOf(base) == (base \div Word) % BYTE8

\* gdt_set_gate: limit bits 16 to 19 share a byte with the upper half of gran.
GdtEntry(base, limit, access, gran) ==
  [base_lo |-> base % Word, base_mi |-> MiddleOf(base), base_hi |-> (base \div (Word * BYTE8)) % BYTE8,
   limit_lo |-> limit % Word,
   granularity |-> ((limit \div Word) % HALF8) + (gran - (gran % HALF8)),
   access |-> access]

\* idt_set_gate, for the address of a stub.
IdtEntry(base, sel, flags) ==
  [base_lo |-> base % Word, base_hi |-> (base \div Word) % Word,
   sel |-> sel, always0 |-> 0, flags |-> flags]

\* What the processor takes from an entry (external).
SegmentBase(e) == e.base_lo + Word * (e.base_mi + BYTE8 * e.base_hi)
SegmentLimit(e) == e.limit_lo + Word * (e.granularity % HALF8)
GateAddress(e) == e.base_lo + Word * e.base_hi

\* Both kinds of entry are set from the same numbers; an index out of range
\* panics and sets nothing.
SetGate(n, base, limit, flags) ==
  gdt' = IF n >= GDT_ENTRIES THEN [gdt EXCEPT !.panic = TRUE]
         ELSE [gdt EXCEPT !.n = n, !.base = base, !.limit = limit, !.flags = flags,
                          !.segment = GdtEntry(base, limit, flags, flags),
                          !.gate = IdtEntry(base, 8, flags)]

DInit == gdt = [n |-> -1, base |-> 0, limit |-> 0, flags |-> 0, panic |-> FALSE,
                segment |-> GdtEntry(0, 0, 0, 0), gate |-> IdtEntry(0, 8, 0)]

\* init_gdt and init_idt with any arguments: one entry says as much as many.
DNext ==
  /\ gdt.n = -1 /\ ~gdt.panic
  /\ \E n \in 0 .. GDT_ENTRIES, base \in Longs, limit \in Limits, flags \in Bytes : SetGate(n, base, limit, flags)

DSpec == DInit /\ [][DNext]_gdt

\* gdt_set_gate, idt_set_gate: the processor sees the base, the limit up to its 20
\* bits, the flags and the address that were given, none spilling into another.
ProcessorAgrees ==
  /\ SegmentBase(gdt.segment) = gdt.base /\ GateAddress(gdt.gate) = gdt.base
  /\ SegmentLimit(gdt.segment) = gdt.limit % (Word * HALF8)
  /\ gdt.segment.granularity \div HALF8 = gdt.flags \div HALF8
  /\ gdt.segment.access = gdt.flags /\ gdt.gate.flags = gdt.flags

=============================================================================
