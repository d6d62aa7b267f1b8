------------------------------ MODULE MCKernel -------------------------------
(***************************************************************************)
(* The parts of the kernel that do not meet, each on its own: a behaviour  *)
(* is one of the unit it chose at the start, the others stay as they       *)
(* began.                                                                  *)
(***************************************************************************)
EXTENDS MCPaging, MCMonitor, MCSortedArray, Boot, Queues, Ramdisk,
        Interrupts, Descriptors, Strings

VARIABLE unit

\* Kernel images that end anywhere in the first pages.
ShortImages == 32 .. 128

ThreeBytes == {0, 1, -1}

Units == {"paging", "monitor", "array", "queues", "boot", "ramdisk", "interrupts",
          "descriptors", "strings"}

\* A unit that is not the chosen one starts in one state only.
KernelInit ==
  /\ unit \in Units
  /\ PInit /\ Init /\ IInit /\ DInit
  /\ SInit /\ (unit # "array" => sa_array[MaxSize] = 0)
  /\ QInit /\ (unit # "queues" => u.kind = "SLIST")
  /\ BootInit /\ (unit # "boot" => boot.image = PAGE /\ bits = {})
  /\ RInit /\ (unit # "ramdisk" => rd.archive = <<>>)
  /\ GInit /\ (unit # "strings" => \A a \in Addresses : sm.m[a] = 0)

Chosen(name) == unit = name /\ UNCHANGED unit

KernelNext ==
  \/ Chosen("paging") /\ PNext /\ UNCHANGED <<vars, svars, u, bootvars, rd, irq, gdt, sm>>
  \/ Chosen("monitor") /\ MCNext /\ UNCHANGED <<pvars, svars, u, bootvars, rd, irq, gdt, sm>>
  \/ Chosen("array") /\ SNext /\ UNCHANGED <<pvars, vars, u, bootvars, rd, irq, gdt, sm>>
  \/ Chosen("queues") /\ QNext /\ UNCHANGED <<pvars, vars, svars, bootvars, rd, irq, gdt, sm>>
  \/ Chosen("boot") /\ BootNext /\ UNCHANGED <<pvars, vars, svars, u, rd, irq, gdt, sm>>
  \/ Chosen("ramdisk") /\ RNext /\ UNCHANGED <<pvars, vars, svars, u, bootvars, irq, gdt, sm>>
  \/ Chosen("interrupts") /\ INext /\ UNCHANGED <<pvars, vars, svars, u, bootvars, rd, gdt, sm>>
  \/ Chosen("descriptors") /\ DNext /\ UNCHANGED <<pvars, vars, svars, u, bootvars, rd, irq, sm>>
  \/ Chosen("strings") /\ GNext /\ UNCHANGED <<pvars, vars, svars, u, bootvars, rd, irq, gdt>>

kernelvars == <<unit, pvars, vars, svars, u, bootvars, rd, irq, gdt, sm>>

KernelSpec == KernelInit /\ [][KernelNext]_kernelvars

\* isr.c, timer.c and descriptor_tables.c against the hardware: lines in service are
\* those not yet acknowledged, vectors are apart, the timer has its rate and the
\* processor sees the descriptors that were meant.
HardwareAgrees == ServiceEnds /\ VectorsApart /\ TimerRate /\ ProcessorAgrees

=============================================================================
