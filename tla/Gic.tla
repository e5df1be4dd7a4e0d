-------------------------------- MODULE Gic ---------------------------------
(***************************************************************************)
(* The settings of interrupts in the registers of the GIC's distributor,   *)
(* as src/dev/gicv2.c reads and writes them, and irq_devices.              *)
(*                                                                         *)
(* A register is the set of its bits that are one.  A register file packs  *)
(* fields of one width, several to a register; the driver reads the        *)
(* register, clears the field, puts the new value in and writes it back.   *)
(* The registers keep what is written, apart from the set-enable ones,     *)
(* where a zero that is written changes nothing.  Which fields the         *)
(* hardware fixes (the targets of private interrupts) is left out.         *)
(***************************************************************************)
EXTENDS Integers

CONSTANTS
  WORD_BITS,    \* 32
  BYTE_BITS,    \* 8: width of a priority and of a target
  TRIGGER_BITS, \* 2
  IRQS,         \* 0 .. 1023 in the kernel
  DEVICES,      \* identifiers of devices
  PARAMS,       \* settings a client asks for: [priority, cpu, trigger]
  GROUPS,       \* {{}, {0}}: not called with another value
  RESET         \* what the registers may hold before the first call

Bits(width) == 0 .. (width - 1)
Word == SUBSET Bits(WORD_BITS)

\* A whole number of fields of this width makes a register.
FillsWord(width) ==
  width \in 1 .. WORD_BITS /\ \E n \in 1 .. WORD_BITS : WORD_BITS = n * width

ASSUME GicAssumption ==
  /\ WORD_BITS \in Nat \ {0}
  /\ FillsWord(BYTE_BITS) /\ FillsWord(TRIGGER_BITS)
  /\ IRQS \subseteq Nat
  /\ PARAMS \subseteq [priority : SUBSET Bits(BYTE_BITS), cpu : SUBSET Bits(BYTE_BITS),
                       trigger : SUBSET Bits(TRIGGER_BITS)]
  /\ GROUPS \subseteq SUBSET Bits(1)
  /\ RESET \subseteq Word

VARIABLES IPRIORITYR, ITARGETSR, ICFGR, IGROUPR, ISENABLER, irq_devices

vars == <<IPRIORITYR, ITARGETSR, ICFGR, IGROUPR, ISENABLER, irq_devices>>

PerWord(width) == WORD_BITS \div width

\* Where the field of an interrupt is.
Reg(width, id) == id \div PerWord(width)

\* The shift of a field without the remainder: it runs out of the register.
UnreducedShift(width, id) == id * width

Shift(width, id) == (id % PerWord(width)) * width

RegisterFile(width) == [{Reg(width, id) : id \in IRQS} -> Word]

TypeOK ==
  /\ IPRIORITYR \in RegisterFile(BYTE_BITS)
  /\ ITARGETSR \in RegisterFile(BYTE_BITS)
  /\ ICFGR \in RegisterFile(TRIGGER_BITS)
  /\ IGROUPR \in RegisterFile(1)
  /\ ISENABLER \in RegisterFile(1)
  /\ irq_devices \in [IRQS -> DEVICES \cup {0}]

\* The value of an interrupt's field.
Field(regs, width, id) ==
  {b \in Bits(width) : Shift(width, id) + b \in regs[Reg(width, id)]}

\* An update that forgets to clear the field first.
OrField(regs, width, id, value) ==
  [regs EXCEPT ![Reg(width, id)] = @ \cup {Shift(width, id) + b : b \in value}]

SetField(regs, width, id, value) ==
  [regs EXCEPT ![Reg(width, id)] =
     (@ \ {Shift(width, id) + b : b \in Bits(width)}) \cup {Shift(width, id) + b : b \in value}]

-----------------------------------------------------------------------------
ResetFile(width) == [{Reg(width, id) : id \in IRQS} -> RESET]

Init ==
  /\ IPRIORITYR \in ResetFile(BYTE_BITS)
  /\ ITARGETSR \in ResetFile(BYTE_BITS)
  /\ ICFGR \in ResetFile(TRIGGER_BITS)
  /\ IGROUPR \in ResetFile(1)
  /\ ISENABLER = [r \in {Reg(1, id) : id \in IRQS} |-> {}]
  /\ irq_devices = [id \in IRQS |-> 0]

dev_gicv2_kdev_register_irq(irq_id, irq_dev_id, p) ==
  /\ IPRIORITYR' = SetField(IPRIORITYR, BYTE_BITS, irq_id, p.priority)
  /\ ITARGETSR' = SetField(ITARGETSR, BYTE_BITS, irq_id, p.cpu)
  /\ ICFGR' = SetField(ICFGR, TRIGGER_BITS, irq_id, p.trigger)
  /\ irq_devices' = [irq_devices EXCEPT ![irq_id] = irq_dev_id]
  /\ UNCHANGED <<IGROUPR, ISENABLER>>

\* Written without reading: the hardware adds the bit to those that are set.
dev_gicv2_kdev_enable_irq(irq_id) ==
  /\ ISENABLER' = [ISENABLER EXCEPT ![Reg(1, irq_id)] = @ \cup {Shift(1, irq_id)}]
  /\ UNCHANGED <<IPRIORITYR, ITARGETSR, ICFGR, IGROUPR, irq_devices>>

gicv2_set_int_group(id, value) ==
  /\ IGROUPR' = SetField(IGROUPR, 1, id, value)
  /\ UNCHANGED <<IPRIORITYR, ITARGETSR, ICFGR, ISENABLER, irq_devices>>

Next ==
  \E id \in IRQS :
    \/ \E dev \in DEVICES, p \in PARAMS : dev_gicv2_kdev_register_irq(id, dev, p)
    \/ dev_gicv2_kdev_enable_irq(id)
    \/ \E g \in GROUPS : gicv2_set_int_group(id, g)

Spec == Init /\ [][Next]_vars

-----------------------------------------------------------------------------
\* What the registers say of each interrupt.
Settings(regs, width) == [id \in IRQS |-> Field(regs, width, id)]

Abs == INSTANCE GicAbs WITH
  priority <- Settings(IPRIORITYR, BYTE_BITS),
  target   <- Settings(ITARGETSR, BYTE_BITS),
  trigger  <- Settings(ICFGR, TRIGGER_BITS),
  group    <- Settings(IGROUPR, 1),
  enabled  <- {id \in IRQS : Field(ISENABLER, 1, id) = {0}},
  device   <- irq_devices

\* Setting up one interrupt gives it exactly what was asked for and leaves
\* the settings of all others alone, those in the same register included.
RefinesGicAbs == Abs!Spec
=============================================================================
