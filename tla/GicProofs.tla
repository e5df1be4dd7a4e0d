----------------------------- MODULE GicProofs ------------------------------
(***************************************************************************)
(* The fields of two interrupts never overlap, so that the driver of the   *)
(* interrupt controller keeps the settings of interrupts apart: Gic        *)
(* implements GicAbs, for registers and fields of any width.               *)
(***************************************************************************)
EXTENDS Gic, TLAPS

\* A number is its quotient and its remainder.
LEMMA Division ==
  ASSUME NEW x \in Nat, NEW w \in Nat \ {0}
  PROVE  /\ x \div w \in Nat
         /\ x % w \in 0 .. (w - 1)
         /\ x = (x \div w) * w + (x % w)
  BY SMT

\* ... in one way only.
LEMMA DivisionUnique ==
  ASSUME NEW w \in Nat \ {0}, NEW q \in Nat, NEW r \in 0 .. (w - 1)
  PROVE  /\ (q * w + r) \div w = q
         /\ (q * w + r) % w = r
  BY SMT

\* Multiples grow with their factor.
LEMMA MultipleMonotone ==
  ASSUME NEW w \in Nat, NEW a \in Nat, NEW b \in Nat, a <= b
  PROVE  a * w <= b * w
  BY SMT

\* The registers are packed without a gap.
LEMMA FieldsPerWord ==
  ASSUME NEW w, FillsWord(w)
  PROVE  /\ w \in Nat \ {0}
         /\ PerWord(w) \in Nat \ {0}
         /\ WORD_BITS = PerWord(w) * w
PROOF
  <1>1. PICK n \in 1 .. WORD_BITS : WORD_BITS = n * w
    BY DEF FillsWord
  <1>2. w \in Nat \ {0} /\ n \in Nat \ {0} /\ 0 \in 0 .. (w - 1)
    BY <1>1, GicAssumption DEF FillsWord
  <1>3. (n * w + 0) \div w = n
    BY <1>2, DivisionUnique
  <1>4. n * w + 0 = WORD_BITS
    BY <1>1, <1>2
  <1> QED BY <1>1, <1>2, <1>3, <1>4 DEF PerWord

\* A register of enable bits holds WORD_BITS of them.
LEMMA BitsFillWord ==
  FillsWord(1)
  BY GicAssumption DEF FillsWord

\* A shift is a multiple of the width, and leaves room for the field.
LEMMA ShiftBounds ==
  ASSUME NEW w, FillsWord(w), NEW id \in Nat
  PROVE  /\ Shift(w, id) \in Nat
         /\ Shift(w, id) + w <= WORD_BITS
PROOF
  <1> DEFINE n == PerWord(w)
             r == id % n
  <1>1. w \in Nat \ {0} /\ n \in Nat \ {0} /\ WORD_BITS = n * w
    BY FieldsPerWord
  <1> HIDE DEF n
  <1>2. r \in 0 .. (n - 1)
    BY <1>1, Division
  <1> HIDE DEF r
  <1>3. r * w \in Nat
    BY <1>1, <1>2, SMT
  <1>4. (r + 1) * w <= n * w
    BY <1>1, <1>2, MultipleMonotone
  <1>5. (r + 1) * w = r * w + w
    BY <1>1, <1>2, SMT
  <1>6. Shift(w, id) = r * w
    BY DEF Shift, r, n
  <1> QED BY <1>1, <1>3, <1>4, <1>5, <1>6

\* Fields of two interrupts in the same register have no bit in common.
LEMMA FieldsDisjoint ==
  ASSUME NEW w, FillsWord(w), NEW i \in Nat, NEW j \in Nat, i # j,
         Reg(w, i) = Reg(w, j), NEW b \in Bits(w), NEW c \in Bits(w)
  PROVE  Shift(w, i) + b # Shift(w, j) + c
PROOF
  <1> DEFINE n == PerWord(w)
             q == i \div n
             r == i % n
             s == j % n
  <1>1. w \in Nat \ {0} /\ n \in Nat \ {0}
    BY FieldsPerWord
  <1>2. j \div n = q
    BY DEF Reg
  <1> HIDE DEF n
  <1>3. q \in Nat /\ r \in 0 .. (n - 1) /\ i = q * n + r
    BY <1>1, Division
  <1>4. s \in 0 .. (n - 1) /\ j = q * n + s
    BY <1>1, <1>2, Division
  <1> HIDE DEF q, r, s
  <1>5. r # s
    BY <1>3, <1>4
  <1>6. ASSUME NEW x \in Nat, NEW y \in Nat, x < y,
               NEW d \in Bits(w), NEW e \in Bits(w)
        PROVE  x * w + d # y * w + e
    <2>1. (x + 1) * w <= y * w
      BY <1>1, <1>6, MultipleMonotone
    <2>2. (x + 1) * w = x * w + w
      BY <1>1, <1>6, SMT
    <2>3. x * w \in Nat /\ y * w \in Nat
      BY <1>1, <1>6, SMT
    <2> QED BY <1>1, <1>6, <2>1, <2>2, <2>3 DEF Bits
  <1>7. Shift(w, i) = r * w /\ Shift(w, j) = s * w
    BY DEF Shift, n, r, s
  <1>8. r \in Nat /\ s \in Nat
    BY <1>1, <1>3, <1>4
  <1>9. r * w + b # s * w + c
    BY <1>5, <1>6, <1>8
  <1> QED BY <1>7, <1>9

\* An update of a field leaves registers.
LEMMA SetFieldTyped ==
  ASSUME NEW w, FillsWord(w), NEW id \in IRQS, NEW value \in SUBSET Bits(w),
         NEW regs \in RegisterFile(w)
  PROVE  SetField(regs, w, id, value) \in RegisterFile(w)
PROOF
  <1>1. id \in Nat /\ WORD_BITS \in Nat /\ w \in Nat \ {0}
    BY FieldsPerWord, GicAssumption
  <1>2. Shift(w, id) \in Nat /\ Shift(w, id) + w <= WORD_BITS
    BY <1>1, ShiftBounds
  <1>3. \A b \in Bits(w) : Shift(w, id) + b \in Bits(WORD_BITS)
    BY <1>1, <1>2 DEF Bits
  <1>4. {Shift(w, id) + b : b \in value} \in Word
    BY <1>3 DEF Word
  <1>5. Reg(w, id) \in {Reg(w, i) : i \in IRQS}
    OBVIOUS
  <1>6. regs[Reg(w, id)] \in Word
    BY <1>5 DEF RegisterFile
  <1>7. (regs[Reg(w, id)] \ {Shift(w, id) + b : b \in Bits(w)})
          \cup {Shift(w, id) + b : b \in value} \in Word
    BY <1>4, <1>6 DEF Word
  <1> QED BY <1>7 DEF SetField, RegisterFile

\* The field that is set reads back as the value.
LEMMA SetFieldOwn ==
  ASSUME NEW w, FillsWord(w), NEW id \in IRQS, NEW value \in SUBSET Bits(w),
         NEW regs \in RegisterFile(w)
  PROVE  Field(SetField(regs, w, id, value), w, id) = value
PROOF
  <1> DEFINE sh == Shift(w, id)
             own == {sh + b : b \in Bits(w)}
             new == {sh + b : b \in value}
  <1>1. id \in Nat /\ w \in Nat \ {0}
    BY FieldsPerWord, GicAssumption
  <1>2. sh \in Nat
    BY <1>1, ShiftBounds
  <1>3. Reg(w, id) \in DOMAIN regs
    BY DEF RegisterFile
  <1>4. SetField(regs, w, id, value)[Reg(w, id)] = (regs[Reg(w, id)] \ own) \cup new
    BY <1>3 DEF SetField
  <1>5. ASSUME NEW b \in Bits(w)
        PROVE  sh + b \in (regs[Reg(w, id)] \ own) \cup new <=> b \in value
    <2>1. b \in Int /\ value \subseteq Int
      BY <1>1 DEF Bits
    <2>2. sh + b \in own
      OBVIOUS
    <2> HIDE DEF sh
    <2>3. sh + b \in new <=> b \in value
      BY <1>2, <2>1
    <2> QED BY <2>2, <2>3
  <1> HIDE DEF own, new
  <1> QED BY <1>4, <1>5 DEF Field

\* No other field changes.
LEMMA SetFieldOthers ==
  ASSUME NEW w, FillsWord(w), NEW id \in IRQS, NEW value \in SUBSET Bits(w),
         NEW regs \in RegisterFile(w), NEW other \in IRQS, other # id
  PROVE  Field(SetField(regs, w, id, value), w, other) = Field(regs, w, other)
PROOF
  <1>1. id \in Nat /\ other \in Nat
    BY GicAssumption
  <1>2. Reg(w, id) \in DOMAIN regs /\ Reg(w, other) \in DOMAIN regs
    BY DEF RegisterFile
  <1>3. CASE Reg(w, other) # Reg(w, id)
    BY <1>2, <1>3 DEF SetField, Field
  <1>4. CASE Reg(w, other) = Reg(w, id)
    <2> DEFINE own == {Shift(w, id) + b : b \in Bits(w)}
               new == {Shift(w, id) + b : b \in value}
    <2>1. SetField(regs, w, id, value)[Reg(w, other)] = (regs[Reg(w, other)] \ own) \cup new
      BY <1>2, <1>4 DEF SetField
    <2>2. new \subseteq own
      OBVIOUS
    <2>3. \A c \in Bits(w) : Shift(w, other) + c \notin own
      BY <1>1, <1>4, FieldsDisjoint
    <2> HIDE DEF own, new
    <2> QED BY <2>1, <2>2, <2>3 DEF Field
  <1> QED BY <1>3, <1>4

\* Seen as settings, an update changes one of them.
LEMMA SetFieldSettings ==
  ASSUME NEW w, FillsWord(w), NEW id \in IRQS, NEW value \in SUBSET Bits(w),
         NEW regs \in RegisterFile(w)
  PROVE  Settings(SetField(regs, w, id, value), w) = [Settings(regs, w) EXCEPT ![id] = value]
PROOF
  <1> DEFINE new == SetField(regs, w, id, value)
  <1>1. Field(new, w, id) = value
    BY SetFieldOwn
  <1>2. ASSUME NEW other \in IRQS, other # id
        PROVE  Field(new, w, other) = Field(regs, w, other)
    BY <1>2, SetFieldOthers
  <1> HIDE DEF new
  <1>3. [i \in IRQS |-> Field(new, w, i)]
          = [[i \in IRQS |-> Field(regs, w, i)] EXCEPT ![id] = value]
    BY <1>1, <1>2
  <1> QED BY <1>3 DEF Settings, new

\* A register that was written holds bits of a register: fields and enable
\* bits never run out of it (gicv2.c:21-30, 56-90).
THEOREM TypesHold == Spec => []TypeOK
PROOF
  <1>1. Init => TypeOK
    <2> SUFFICES ASSUME Init PROVE TypeOK
      OBVIOUS
    <2>1. \A w : ResetFile(w) \subseteq RegisterFile(w)
      BY GicAssumption DEF ResetFile, RegisterFile
    <2>2. ISENABLER \in RegisterFile(1)
      BY DEF Init, RegisterFile, Word
    <2>3. irq_devices \in [IRQS -> DEVICES \cup {0}]
      BY DEF Init
    <2> QED BY <2>1, <2>2, <2>3 DEF Init, TypeOK
  <1>2. TypeOK /\ [Next]_vars => TypeOK'
    <2> SUFFICES ASSUME TypeOK, [Next]_vars PROVE TypeOK'
      OBVIOUS
    <2>1. ASSUME NEW id \in IRQS, NEW dev \in DEVICES, NEW p \in PARAMS,
                 dev_gicv2_kdev_register_irq(id, dev, p)
          PROVE  TypeOK'
      <3>1. /\ p.priority \in SUBSET Bits(BYTE_BITS)
            /\ p.cpu \in SUBSET Bits(BYTE_BITS)
            /\ p.trigger \in SUBSET Bits(TRIGGER_BITS)
        BY GicAssumption
      <3>2. /\ IPRIORITYR' \in RegisterFile(BYTE_BITS)
            /\ ITARGETSR' \in RegisterFile(BYTE_BITS)
            /\ ICFGR' \in RegisterFile(TRIGGER_BITS)
        BY <2>1, <3>1, SetFieldTyped, GicAssumption DEF dev_gicv2_kdev_register_irq, TypeOK
      <3>3. irq_devices' \in [IRQS -> DEVICES \cup {0}]
        BY <2>1 DEF dev_gicv2_kdev_register_irq, TypeOK
      <3> QED BY <2>1, <3>2, <3>3 DEF dev_gicv2_kdev_register_irq, TypeOK, RegisterFile
    <2>2. ASSUME NEW id \in IRQS, dev_gicv2_kdev_enable_irq(id)
          PROVE  TypeOK'
      <3>1. Shift(1, id) \in Nat /\ Shift(1, id) + 1 <= WORD_BITS
        BY ShiftBounds, BitsFillWord, GicAssumption
      <3>2. Shift(1, id) \in Bits(WORD_BITS)
        BY <3>1, GicAssumption DEF Bits
      <3>3. ISENABLER[Reg(1, id)] \in Word
        BY DEF TypeOK, RegisterFile
      <3>4. ISENABLER[Reg(1, id)] \cup {Shift(1, id)} \in Word
        BY <3>2, <3>3 DEF Word
      <3>5. ISENABLER' \in RegisterFile(1)
        BY <2>2, <3>4 DEF dev_gicv2_kdev_enable_irq, TypeOK, RegisterFile
      <3> QED BY <2>2, <3>5 DEF dev_gicv2_kdev_enable_irq, TypeOK, RegisterFile
    <2>3. ASSUME NEW id \in IRQS, NEW g \in GROUPS, gicv2_set_int_group(id, g)
          PROVE  TypeOK'
      <3>1. g \in SUBSET Bits(1)
        BY GicAssumption
      <3>2. IGROUPR' \in RegisterFile(1)
        BY <2>3, <3>1, SetFieldTyped, BitsFillWord DEF gicv2_set_int_group, TypeOK
      <3> QED BY <2>3, <3>2 DEF gicv2_set_int_group, TypeOK, RegisterFile
    <2>4. CASE UNCHANGED vars
      BY <2>4 DEF vars, TypeOK, RegisterFile
    <2> QED BY <2>1, <2>2, <2>3, <2>4 DEF Next
  <1> QED BY <1>1, <1>2, PTL DEF Spec

\* The enable bits, seen as a set of interrupts: a write of one bit adds one.
LEMMA EnableAddsOne ==
  ASSUME NEW id \in IRQS, TypeOK, dev_gicv2_kdev_enable_irq(id)
  PROVE  {i \in IRQS : Field(ISENABLER', 1, i) = {0}}
           = {i \in IRQS : Field(ISENABLER, 1, i) = {0}} \cup {id}
PROOF
  <1>1. \A i \in IRQS : Shift(1, i) \in Nat
    BY ShiftBounds, BitsFillWord, GicAssumption
  <1>2. \A b : b \in Bits(1) <=> b = 0
    BY DEF Bits
  <1>3. ASSUME NEW i \in IRQS, NEW regs
        PROVE  Field(regs, 1, i) = {0} <=> Shift(1, i) \in regs[Reg(1, i)]
    <2>1. Shift(1, i) + 0 = Shift(1, i)
      BY <1>1
    <2>2. 0 \in Field(regs, 1, i) <=> Shift(1, i) \in regs[Reg(1, i)]
      BY <1>2, <2>1 DEF Field
    <2>3. Field(regs, 1, i) \subseteq {0}
      BY <1>2 DEF Field
    <2> QED BY <2>2, <2>3
  <1>4. \A i \in IRQS : Reg(1, i) \in DOMAIN ISENABLER
    BY DEF TypeOK, RegisterFile
  <1>5. ISENABLER' = [ISENABLER EXCEPT ![Reg(1, id)] = @ \cup {Shift(1, id)}]
    BY DEF dev_gicv2_kdev_enable_irq
  <1>6. ASSUME NEW i \in IRQS
        PROVE  Shift(1, i) \in ISENABLER'[Reg(1, i)]
                 <=> Shift(1, i) \in ISENABLER[Reg(1, i)] \/ i = id
    <2>1. CASE Reg(1, i) # Reg(1, id)
      BY <1>4, <1>5, <2>1
    <2>2. CASE Reg(1, i) = Reg(1, id)
      <3>1. Shift(1, i) = Shift(1, id) => i = id
        <4> SUFFICES ASSUME i # id PROVE Shift(1, i) # Shift(1, id)
          OBVIOUS
        <4>1. Shift(1, i) + 0 # Shift(1, id) + 0
          BY <1>2, <2>2, FieldsDisjoint, BitsFillWord, GicAssumption
        <4> QED BY <1>1, <4>1
      <3> QED BY <1>4, <1>5, <2>2, <3>1
    <2> QED BY <2>1, <2>2
  <1> QED BY <1>3, <1>6

\* The driver keeps its promise, for registers of any size and fields of any
\* width that fills them.
THEOREM GicImplementsAbs == Spec => RefinesGicAbs
PROOF
  <1>1. TypeOK /\ [Next]_vars => [Abs!Next]_(Abs!avars)
    <2> SUFFICES ASSUME TypeOK, [Next]_vars PROVE [Abs!Next]_(Abs!avars)
      OBVIOUS
    <2>1. ASSUME NEW id \in IRQS, NEW dev \in DEVICES, NEW p \in PARAMS,
                 dev_gicv2_kdev_register_irq(id, dev, p)
          PROVE  Abs!RegisterIrq(id, dev, p)
      <3>1. /\ p.priority \in SUBSET Bits(BYTE_BITS)
            /\ p.cpu \in SUBSET Bits(BYTE_BITS)
            /\ p.trigger \in SUBSET Bits(TRIGGER_BITS)
        BY GicAssumption
      <3>2. Settings(IPRIORITYR', BYTE_BITS)
              = [Settings(IPRIORITYR, BYTE_BITS) EXCEPT ![id] = p.priority]
        <4>1. FillsWord(BYTE_BITS) /\ IPRIORITYR \in RegisterFile(BYTE_BITS)
          BY GicAssumption DEF TypeOK
        <4>2. \A v \in SUBSET Bits(BYTE_BITS) :
                Settings(SetField(IPRIORITYR, BYTE_BITS, id, v), BYTE_BITS)
                  = [Settings(IPRIORITYR, BYTE_BITS) EXCEPT ![id] = v]
          BY <4>1, SetFieldSettings
        <4>3. IPRIORITYR' = SetField(IPRIORITYR, BYTE_BITS, id, p.priority)
          BY <2>1 DEF dev_gicv2_kdev_register_irq
        <4> QED BY <3>1, <4>2, <4>3
      <3>3. Settings(ITARGETSR', BYTE_BITS)
              = [Settings(ITARGETSR, BYTE_BITS) EXCEPT ![id] = p.cpu]
        <4>1. FillsWord(BYTE_BITS) /\ ITARGETSR \in RegisterFile(BYTE_BITS)
          BY GicAssumption DEF TypeOK
        <4>2. \A v \in SUBSET Bits(BYTE_BITS) :
                Settings(SetField(ITARGETSR, BYTE_BITS, id, v), BYTE_BITS)
                  = [Settings(ITARGETSR, BYTE_BITS) EXCEPT ![id] = v]
          BY <4>1, SetFieldSettings
        <4>3. ITARGETSR' = SetField(ITARGETSR, BYTE_BITS, id, p.cpu)
          BY <2>1 DEF dev_gicv2_kdev_register_irq
        <4> QED BY <3>1, <4>2, <4>3
      <3>4. Settings(ICFGR', TRIGGER_BITS)
              = [Settings(ICFGR, TRIGGER_BITS) EXCEPT ![id] = p.trigger]
        <4>1. FillsWord(TRIGGER_BITS) /\ ICFGR \in RegisterFile(TRIGGER_BITS)
          BY GicAssumption DEF TypeOK
        <4>2. \A v \in SUBSET Bits(TRIGGER_BITS) :
                Settings(SetField(ICFGR, TRIGGER_BITS, id, v), TRIGGER_BITS)
                  = [Settings(ICFGR, TRIGGER_BITS) EXCEPT ![id] = v]
          BY <4>1, SetFieldSettings
        <4>3. ICFGR' = SetField(ICFGR, TRIGGER_BITS, id, p.trigger)
          BY <2>1 DEF dev_gicv2_kdev_register_irq
        <4> QED BY <3>1, <4>2, <4>3
      <3> QED BY <2>1, <3>2, <3>3, <3>4 DEF dev_gicv2_kdev_register_irq, Abs!RegisterIrq, Settings, Field
    <2>2. ASSUME NEW id \in IRQS, dev_gicv2_kdev_enable_irq(id)
          PROVE  Abs!EnableIrq(id)
      BY <2>2, EnableAddsOne DEF dev_gicv2_kdev_enable_irq, Abs!EnableIrq, Settings, Field
    <2>3. ASSUME NEW id \in IRQS, NEW g \in GROUPS, gicv2_set_int_group(id, g)
          PROVE  Abs!SetGroup(id, g)
      <3>1. g \in SUBSET Bits(1)
        BY GicAssumption
      <3>2. Settings(IGROUPR', 1) = [Settings(IGROUPR, 1) EXCEPT ![id] = g]
        BY <2>3, <3>1, SetFieldSettings, BitsFillWord DEF gicv2_set_int_group, TypeOK
      <3> QED BY <2>3, <3>2 DEF gicv2_set_int_group, Abs!SetGroup, Settings, Field
    <2>4. CASE UNCHANGED vars
      BY <2>4 DEF vars, Abs!avars, Settings, Field
    <2> QED BY <2>1, <2>2, <2>3, <2>4 DEF Next, Abs!Next
  <1> QED BY <1>1, TypesHold, PTL DEF Spec, RefinesGicAbs, Abs!Spec
=============================================================================
