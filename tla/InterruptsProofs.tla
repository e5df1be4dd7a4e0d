-------------------------- MODULE InterruptsProofs --------------------------
(***************************************************************************)
(* Proofs about module Interrupts, for any tables, calls, faults, numbers  *)
(* of devices and of processes: what an exception interrupts is resumed,   *)
(* nothing nests but a fault of the kernel itself, and no function of a    *)
(* table is called before it is there.                                     *)
(*                                                                         *)
(* None of these is inductive.  What they hang on is that interrupts are   *)
(* masked, or disabled in the GIC, at every step but the last of           *)
(* kernel_main and in every handler; IInv says so step by step.            *)
(***************************************************************************)
EXTENDS Interrupts, SequenceTheorems, TLAPS

\* kernel_main before its lock, under it, and after it.
Unlocked == {"memory_init", "irq_lock"}
Locked   == {"int_init_dispatch_tab", "setup_devices", "setup_syscalls", "set_action", "irq_unlock"}
Late     == {"kproc_exec", "kproc_init", "eret"}

IRQ_TYPES == {"cur_el_spn_irq", "low_el_aarch64_irq"}
DeviceCall == {"kdev", "io_lock", "io", "io_unlock"}
Calling   == {"call"} \cup DeviceCall
Leaving   == {"epilogue", "return"}
Lost      == {"fault", "astray"}

\* Where an exception can come from, and the last one that did.
Origin == [pc : Late \cup Program \cup {"fault"}, el : {"EL0", "EL1"}, masked : BOOLEAN,
           regs : REGS, suspended : Seq(Program)]
Top == interrupted[Len(interrupted)]

\* Who can be interrupted: kernel_main before its lock has nothing enabled.
Masking ==
  /\ pc \in Unlocked => ~masked /\ enabled = {}
  /\ pc \in Locked \cup Handler => masked
  /\ pc \in Handler => el = "EL1"
  /\ pc \in Late \cup Program => ~masked
  /\ irq_key = FALSE
  /\ pc = "io" => io_key \/ Called = "poll_out"
  /\ pc = "io_unlock" => io_key

\* How deep exceptions are, and what each has interrupted: the inner one, if
\* there is one, is a fault of the kernel that no one handles.
Nesting ==
  /\ interrupted \in Seq(Origin)
  /\ pc \notin Handler => Len(interrupted) = 0
  /\ pc \in Handler =>
       /\ Len(interrupted) \in {1, 2}
       /\ interrupted[1].pc \in Late \cup Program /\ interrupted[1].masked = FALSE
       /\ pc \in Lost => Len(interrupted) = 1
       /\ int_type = "low_el_aarch64_sync" =>
            Len(interrupted) = 1 /\ interrupted[1].pc \in Program
  /\ Len(interrupted) = 2 =>
       /\ interrupted[2].pc = "fault" /\ interrupted[2].el = "EL1" /\ interrupted[2].masked
       /\ int_type = "cur_el_spn_sync" /\ pc \in {"vector"} \cup Leaving
  /\ pc \in Calling => int_type = "low_el_aarch64_sync"

\* ELR_EL1, SPSR_EL1 and the last frame are those of the last exception, but
\* for the address that a start or an exit has put there.
Saving ==
  /\ pc \in Handler \ Lost =>
       /\ spsr.el = Top.el /\ spsr.masked = Top.masked
       /\ pc \notin Leaving => suspended = Top.suspended /\ elr = Top.pc
       /\ pc \in Leaving => GoesOn(Top, elr)
       /\ Len(interrupted) = 1 => elr \in Late \cup Program
       /\ Len(interrupted) = 2 => elr = "fault"
       /\ int_type # "low_el_aarch64_sync" =>
            /\ suspended = Top.suspended
            /\ Top.regs = IF pc = "return" THEN regs ELSE frames[Len(frames)]
  /\ pc \in BootSteps => elr \in Late \cup Program /\ spsr.masked = FALSE

\* Without an interrupt in the window everything starts in EL0.
Privilege ==
  ~window =>
    /\ pc \in Program => el = "EL0"
    /\ pc \in BootSteps => elr = "entry" /\ spsr.el = "EL0"
    /\ pc \in Handler => interrupted[1].pc \in Program /\ interrupted[1].el = "EL0"
    /\ pc \in Handler \ Lost /\ Len(interrupted) = 1 => elr \in Program

\* What the tables hold at each step of kernel_main, and ever after.
Tables ==
  /\ pc \notin Unlocked \cup {"int_init_dispatch_tab"} =>
       \A t \in INT_TYPES : int_dispatch_tab[t] # NONE
  /\ pc \notin Unlocked \cup {"int_init_dispatch_tab", "setup_devices"} =>
       \A t \in IRQ_TYPES : int_dispatch_tab[t] = "gicv2_dispatch"
  /\ int_dispatch_tab["cur_el_spn_sync"] \in {NONE, "int_not_implemented_dispatch"}
  /\ int_dispatch_tab["low_el_aarch64_sync"] # "gicv2_dispatch"
  /\ pc \in Unlocked \cup {"int_init_dispatch_tab", "setup_devices"} =>
       /\ kdevs = [d \in 0 .. (KDEV_BUFFER_SIZE - 1) |-> NONE]
       /\ irq_devices = [i \in IRQS |-> 0]
  /\ pc \notin Unlocked \cup {"int_init_dispatch_tab", "setup_devices"} =>
       /\ kdevs[0] = "gic" /\ kdevs[1] = "timer" /\ kdevs[2] = "uart"
       /\ irq_devices[TIMER_IRQ] = 1 /\ irq_devices[UART_IRQ] = 2 /\ irq_devices[SPURIOUS] = 0
  /\ pc \notin Unlocked \cup (Locked \ {"irq_unlock"}) => timer_action = "test_action"
  /\ pc \in {"io_lock", "io"} => KdevEntry = "uart"
  /\ pc \in DeviceCall => Called \in KCALL_IO /\ dev_id \in DEVS
  /\ pc = "astray" => \/ Called \in KCALL_IO /\ dev_id \in DEVS \ {0, 1, 2}
                      \/ esr = KCALL_BUFFER_SIZE

IInv == TypeOK /\ Masking /\ Nesting /\ Saving /\ Privilege /\ Tables
-----------------------------------------------------------------------------
\* What the operations of the stacks of frames and of processes do.
LEMMA Push ==
  ASSUME NEW S, NEW s \in Seq(S), NEW e \in S
  PROVE  /\ Append(s, e) \in Seq(S) /\ Len(Append(s, e)) = Len(s) + 1
         /\ Append(s, e)[Len(s) + 1] = e
         /\ \A i \in 1 .. Len(s) : Append(s, e)[i] = s[i]
  BY AppendProperties

LEMMA Pop ==
  ASSUME NEW S, NEW s \in Seq(S), Len(s) > 0
  PROVE  LET t == SubSeq(s, 1, Len(s) - 1)
         IN  /\ t \in Seq(S) /\ Len(t) = Len(s) - 1
             /\ \A i \in 1 .. Len(t) : t[i] = s[i]
             /\ s[Len(s)] \in S /\ Append(t, s[Len(s)]) = s
PROOF
  <1> DEFINE t == SubSeq(s, 1, Len(s) - 1)
  <1>1. Len(s) \in Nat /\ Len(s) >= 1 /\ s[Len(s)] \in S
    BY ElementOfSeq, LenProperties
  <1>2. t \in Seq(S) /\ Len(t) = Len(s) - 1 /\ \A i \in 1 .. Len(t) : t[i] = s[i]
    <2>1. \A i \in 1 .. (Len(s) - 1) : s[i] \in S
      BY <1>1, ElementOfSeq
    <2> DEFINE n == Len(s) - 1
    <2>2. 1 \in Int /\ n \in Nat /\ \A i \in 1 .. n : s[i] \in S
      BY <1>1, <2>1
    <2> HIDE DEF n
    <2>3. /\ SubSeq(s, 1, n) \in Seq(S)
          /\ Len(SubSeq(s, 1, n)) = IF 1 <= n THEN n - 1 + 1 ELSE 0
          /\ \A i \in 1 .. n - 1 + 1 : SubSeq(s, 1, n)[i] = s[1 + i - 1]
      BY <2>2, SubSeqProperties
    <2>4. /\ SubSeq(s, 1, n) \in Seq(S) /\ Len(SubSeq(s, 1, n)) = n
          /\ \A i \in 1 .. n : SubSeq(s, 1, n)[i] = s[i]
      BY <2>2, <2>3
    <2> QED BY <2>4 DEF n
  <1>3. Append(t, s[Len(s)]) \in Seq(S) /\ Len(Append(t, s[Len(s)])) = Len(s)
    BY <1>1, <1>2, AppendProperties
  <1>4. \A i \in 1 .. Len(s) : Append(t, s[Len(s)])[i] = s[i]
    BY <1>1, <1>2, AppendProperties
  <1>5. Append(t, s[Len(s)]) = s
    BY <1>3, <1>4, SeqEqual
  <1> QED BY <1>1, <1>2, <1>5

LEMMA Replace ==
  ASSUME NEW S, NEW s \in Seq(S), NEW i \in 1 .. Len(s), NEW e \in S
  PROVE  LET t == [s EXCEPT ![i] = e]
         IN  t \in Seq(S) /\ Len(t) = Len(s)
  BY ExceptSeq

LEMMA StepsOfBoot == BootSteps = Unlocked \cup Locked \cup Late
PROOF
  <1>1. DOMAIN Boot = 1 .. 10
    BY DEF Boot
  <1>2. \A i \in 1 .. 10 : i \in {1, 2, 3, 4, 5, 6, 7, 8, 9, 10}
    OBVIOUS
  <1>3. BootSteps = {Boot[1], Boot[2], Boot[3], Boot[4], Boot[5], Boot[6], Boot[7], Boot[8], Boot[9], Boot[10]}
    BY <1>1, <1>2 DEF BootSteps
  <1> QED BY <1>3 DEF Boot, Unlocked, Locked, Late

LEMMA Initial == Init => IInv
PROOF
  <1> SUFFICES ASSUME Init PROVE IInv
    OBVIOUS
  <1> USE DEF Init, Unlocked, Locked, Late, Handler, Calling, DeviceCall, Leaving, Lost, Program
  <1>1. TypeOK
    <2>1. /\ frames \in Seq(REGS) /\ Len(frames) = 0 /\ Len(interrupted) = 0
          /\ suspended \in Seq(Program) /\ Len(suspended) = 0
      BY EmptySeq
    <2>2. /\ irq_devices \in [IRQS -> 0 .. (KDEV_BUFFER_SIZE - 1)]
          /\ dev_id \in DEVS \cup {0} /\ Len(suspended) < KPROC_MAX_COUNT
      BY <2>1, InterruptsAssumption
    <2>3. spsr \in State
      BY DEF State
    <2>4. timer \in [armed : BOOLEAN, expired : BOOLEAN, imask : BOOLEAN]
      OBVIOUS
    <2>5. pc \in Places /\ elr \in Places /\ int_type \in INT_TYPES /\ irq_id \in IRQS
      BY StepsOfBoot DEF Places, INT_TYPES, IRQS
    <2>6. /\ kdevs \in [0 .. (KDEV_BUFFER_SIZE - 1) -> {NONE, "gic", "timer", "uart"}]
          /\ kcalls \in [0 .. (KCALL_BUFFER_SIZE - 1) -> {NONE, "exit", "start", "write", "read", "poll_out"}]
          /\ int_dispatch_tab \in [INT_TYPES -> {NONE, "gicv2_dispatch", "kcall_dispatch",
                                                 "int_not_implemented_dispatch"}]
      OBVIOUS
    <2>7. /\ el \in {"EL0", "EL1"} /\ masked \in BOOLEAN /\ irq_key \in BOOLEAN /\ regs \in REGS
          /\ esr \in CALLS \cup FAULTS \cup {0} /\ io_key \in BOOLEAN
          /\ timer_action \in {NONE, "test_action"} /\ enabled \subseteq IRQS /\ active \subseteq IRQS
          /\ uart_edge \in BOOLEAN /\ window \in BOOLEAN /\ pc # "return"
      OBVIOUS
    <2> HIDE DEF Init
    <2> QED BY <2>1, <2>2, <2>3, <2>4, <2>5, <2>6, <2>7 DEF TypeOK
  <1>2. Masking /\ Nesting /\ Saving /\ Privilege
    BY EmptySeq, StepsOfBoot DEF Masking, Nesting, Saving, Privilege
  <1>3. Tables
    BY DEF Tables, INT_TYPES, NONE
  <1> QED BY <1>1, <1>2, <1>3 DEF IInv

\* kdev_register and kcall_register, when the number is free.
LEMMA RegisterFree ==
  ASSUME NEW S, NEW T, NEW table \in [S -> T], NEW id \in S, table[id] = NONE, NEW entry \in T
  PROVE  /\ Register(table, id, entry) \in [S -> T]
         /\ Register(table, id, entry)[id] = entry
         /\ \A i \in S \ {id} : Register(table, id, entry)[i] = table[i]
  BY DEF Register

LEMMA ResetKeepsType ==
  ASSUME generic_timer_reset
  PROVE  timer' \in [armed : BOOLEAN, expired : BOOLEAN, imask : BOOLEAN]
PROOF
  <1>1. PICK m \in BOOLEAN : timer' = [armed |-> TRUE, expired |-> FALSE, imask |-> m]
    BY DEF generic_timer_reset
  <1> QED BY <1>1

-----------------------------------------------------------------------------
(***************************************************************************)
(* The hardware, and the entry of an exception.                            *)
(***************************************************************************)
LEMMA HardwareStep ==
  ASSUME IInv, Expire \/ UartEdge
  PROVE  IInv'
PROOF
  <1>1. /\ UNCHANGED <<pstate, regs, saved, locals, tables>> /\ UNCHANGED enabled
        /\ UNCHANGED active /\ uart_edge' \in BOOLEAN
        /\ timer' \in [armed : BOOLEAN, expired : BOOLEAN, imask : BOOLEAN]
    BY DEF IInv, TypeOK, Expire, UartEdge, gic
  <1>2. TypeOK'
    BY <1>1 DEF IInv, TypeOK, pstate, saved, locals, tables
  <1>3. Masking' /\ Tables'
    BY <1>1 DEF IInv, Masking, Tables, Called, KdevEntry, pstate, saved, locals, tables
  <1>4. Nesting' /\ Saving' /\ Privilege'
    BY <1>1 DEF IInv, Nesting, Saving, Privilege, GoesOn, Top, Called, pstate, saved, locals, tables
  <1> QED BY <1>2, <1>3, <1>4 DEF IInv

\* What every entry of an exception saves; resume is where it is to go on.
LEMMA EnterSaves ==
  ASSUME IInv, NEW kind \in {"sync", "irq"}, NEW resume \in Late \cup Program \cup {"fault"},
         pc \in Late \cup Program \cup {"fault"}, Enter(kind, resume)
  PROVE  /\ frames' \in Seq(REGS) /\ int_type' \in INT_TYPES /\ spsr' \in State
         /\ interrupted' \in Seq(Origin) /\ Len(interrupted') = Len(interrupted) + 1
         /\ Len(frames') = Len(interrupted')
         /\ interrupted'[Len(interrupted')] = Here(resume)
         /\ \A i \in 1 .. Len(interrupted) : interrupted'[i] = interrupted[i]
         /\ frames'[Len(frames')] = regs
         /\ Here(resume).pc = resume /\ Here(resume).el = el /\ Here(resume).masked = masked
         /\ Here(resume).regs = regs /\ Here(resume).suspended = suspended
PROOF
  <1>1. /\ frames \in Seq(REGS) /\ Len(frames) = Len(interrupted) /\ regs \in REGS
        /\ interrupted \in Seq(Origin) /\ suspended \in Seq(Program)
        /\ masked \in BOOLEAN /\ el \in {"EL0", "EL1"}
    BY DEF IInv, TypeOK, Nesting, Late, Program
  <1>2. Here(resume) \in Origin
    <2> DEFINE m == masked
    <2>1. m \in BOOLEAN
      BY <1>1
    <2> HIDE DEF m
    <2>2. [pc |-> resume, el |-> el, masked |-> m, regs |-> regs, suspended |-> suspended] \in Origin
      BY <1>1, <2>1 DEF Origin
    <2> QED BY <2>2, Zenon DEF Here, m
  <1>3. /\ frames' \in Seq(REGS) /\ Len(frames') = Len(frames) + 1
        /\ frames'[Len(frames')] = regs
    BY <1>1, Push DEF Enter
  <1>4. /\ interrupted' \in Seq(Origin) /\ Len(interrupted') = Len(interrupted) + 1
        /\ interrupted'[Len(interrupted')] = Here(resume)
        /\ \A i \in 1 .. Len(interrupted) : interrupted'[i] = interrupted[i]
    BY <1>1, <1>2, Push DEF Enter
  <1>5. int_type' \in INT_TYPES
    BY <1>1 DEF Enter, Vector, INT_TYPES
  <1>6. spsr' \in State
    <2> DEFINE m == masked
    <2>1. m \in BOOLEAN
      BY <1>1
    <2> HIDE DEF m
    <2>2. [el |-> el, masked |-> m] \in State
      BY <1>1, <2>1 DEF State
    <2> QED BY <2>2, Zenon DEF Enter, m
  <1>7. /\ Here(resume).pc = resume /\ Here(resume).el = el
        /\ Here(resume).regs = regs /\ Here(resume).suspended = suspended
    BY DEF Here
  <1>8. Here(resume).masked = masked
    BY Zenon DEF Here
  <1> QED BY <1>1, <1>3, <1>4, <1>5, <1>6, <1>7, <1>8

\* An exception from outside the handlers is the first, and from a program or
\* from the last steps of kernel_main.
LEMMA FirstException ==
  ASSUME IInv, NEW kind \in {"sync", "irq"}, pc \in Late \cup Program,
         NEW resume \in Late \cup Program, pc \in Program => resume \in Program,
         kind = "sync" => pc \in Program, Enter(kind, resume)
  PROVE  /\ Nesting' /\ Saving' /\ frames' \in Seq(REGS) /\ Len(frames') = 1
         /\ int_type' \in INT_TYPES /\ spsr' \in State /\ Len(interrupted') = 1
         /\ interrupted'[1].pc = resume /\ interrupted'[1].el = el
         /\ masked' /\ el' = "EL1" /\ pc' = "vector" /\ elr' = resume
PROOF
  <1>1. Len(interrupted) = 0 /\ ~masked
    BY DEF IInv, Masking, Nesting, Late, Program, Handler
  <1>2. /\ frames' \in Seq(REGS) /\ int_type' \in INT_TYPES /\ spsr' \in State
        /\ interrupted' \in Seq(Origin) /\ Len(interrupted') = 1 /\ Len(frames') = 1
        /\ interrupted'[1] = Here(resume) /\ frames'[1] = regs
        /\ Here(resume).pc = resume /\ Here(resume).el = el /\ Here(resume).masked = masked
        /\ Here(resume).regs = regs /\ Here(resume).suspended = suspended
    BY <1>1, EnterSaves
  <1>3. /\ pc' = "vector" /\ elr' = resume /\ UNCHANGED suspended /\ masked' /\ el' = "EL1"
        /\ spsr'.el = el
    BY DEF Enter
  <1>4. spsr'.masked = masked
    BY Zenon DEF Enter
  <1>5. masked = FALSE
    BY <1>1, Zenon DEF IInv, TypeOK
  <1>6. int_type' = "low_el_aarch64_sync" => kind = "sync"
    BY DEF Enter, Vector, IInv, TypeOK
  <1>7. Nesting'
    BY <1>1, <1>2, <1>3, <1>5, <1>6 DEF Nesting, Handler, Lost, Leaving, Calling, DeviceCall
  <1>8. Saving'
    BY <1>2, <1>3, <1>4, <1>5, StepsOfBoot
       DEF Saving, Top, Handler, Lost, Leaving, Unlocked, Locked, Late
  <1> QED BY <1>2, <1>3, <1>7, <1>8

\* Before the lock nothing is enabled, under it and in a handler I is set.
LEMMA TakeInterruptStep ==
  ASSUME IInv, TakeInterrupt
  PROVE  IInv'
PROOF
  <1>1. pc \in Late \cup Program
    BY StepsOfBoot DEF IInv, TypeOK, Masking, TakeInterrupt, Signalled, Pending, Places,
                       Unlocked, Locked, Late
  <1>2. /\ Nesting' /\ Saving' /\ frames' \in Seq(REGS) /\ Len(frames') = 1
        /\ int_type' \in INT_TYPES /\ spsr' \in State /\ Len(interrupted') = 1
        /\ interrupted'[1].pc = pc /\ interrupted'[1].el = el
        /\ masked' /\ el' = "EL1" /\ pc' = "vector" /\ elr' = pc
    BY <1>1, FirstException DEF TakeInterrupt
  <1>3. TypeOK'
    <2>1. masked' \in BOOLEAN /\ window' \in BOOLEAN /\ regs' \in REGS /\ UNCHANGED suspended
      BY DEF IInv, TypeOK, TakeInterrupt, Enter
    <2>2. elr' \in Places /\ pc' \in Places
      BY <1>1, <1>2, StepsOfBoot DEF Places, Handler
    <2> QED BY <1>2, <2>1, <2>2 DEF IInv, TypeOK, TakeInterrupt, locals, tables, gic
  <1>4. Masking' /\ Tables'
    BY <1>1, <1>2 DEF IInv, Masking, Tables, Called, KdevEntry, TakeInterrupt, Unlocked, Locked,
                      Late, Program, Handler, DeviceCall, locals, tables, gic
  <1>5. Privilege'
    <2>1. ~window' => ~window /\ pc \in Program
      BY <1>1 DEF TakeInterrupt, Late
    <2>2. pc' \notin Program /\ pc' \notin BootSteps
      BY <1>2, StepsOfBoot DEF Program, Unlocked, Locked, Late
    <2> QED BY <1>2, <2>1, <2>2 DEF IInv, Privilege
  <1> QED BY <1>2, <1>3, <1>4, <1>5 DEF IInv

LEMMA SyncExceptionStep ==
  ASSUME IInv, NEW number \in CALLS \cup FAULTS, NEW resume \in Program,
         SyncException(number, resume)
  PROVE  IInv'
PROOF
  <1>1. pc \in Program /\ Enter("sync", resume)
    BY DEF SyncException
  <1>2. /\ Nesting' /\ Saving' /\ frames' \in Seq(REGS) /\ Len(frames') = 1
        /\ int_type' \in INT_TYPES /\ spsr' \in State /\ Len(interrupted') = 1
        /\ interrupted'[1].pc = resume /\ interrupted'[1].el = el
        /\ masked' /\ el' = "EL1" /\ pc' = "vector" /\ elr' = resume
    BY <1>1, FirstException
  <1>3. TypeOK'
    <2>1. masked' \in BOOLEAN /\ regs' \in REGS /\ UNCHANGED <<suspended, window>>
      BY DEF IInv, TypeOK, SyncException, Enter
    <2>2. elr' \in Places /\ pc' \in Places /\ esr' \in CALLS \cup FAULTS \cup {0}
      BY <1>2 DEF Places, Handler, SyncException
    <2> QED BY <1>2, <2>1, <2>2 DEF IInv, TypeOK, SyncException, tables, gic
  <1>4. Masking' /\ Tables'
    BY <1>1, <1>2 DEF IInv, Masking, Tables, Called, KdevEntry, SyncException, Unlocked, Locked,
                      Late, Program, Handler, DeviceCall, tables, gic
  <1>5. Privilege'
    <2>1. pc' \notin Program /\ pc' \notin BootSteps /\ UNCHANGED window
      BY <1>2, StepsOfBoot DEF Program, Unlocked, Locked, Late, SyncException
    <2> QED BY <1>1, <1>2, <2>1 DEF IInv, Privilege
  <1> QED BY <1>2, <1>3, <1>4, <1>5 DEF IInv

-----------------------------------------------------------------------------
(***************************************************************************)
(* kernel_main.                                                            *)
(***************************************************************************)
LEMMA SetupDevicesTables ==
  ASSUME IInv, setup_devices
  PROVE  TypeOK' /\ Tables'
PROOF
  <1>0. /\ pc = "setup_devices" /\ pc' = "setup_syscalls"
        /\ kdevs = [d \in 0 .. (KDEV_BUFFER_SIZE - 1) |-> NONE]
        /\ irq_devices = [i \in IRQS |-> 0]
        /\ \A t \in INT_TYPES : int_dispatch_tab[t] # NONE
        /\ int_dispatch_tab \in [INT_TYPES -> {NONE, "gicv2_dispatch", "kcall_dispatch", "int_not_implemented_dispatch"}]
    BY DEF IInv, TypeOK, Tables, Unlocked, setup_devices, BootTo
  <1>1. /\ kdevs' \in [0 .. (KDEV_BUFFER_SIZE - 1) -> {NONE, "gic", "timer", "uart"}]
        /\ kdevs'[0] = "gic" /\ kdevs'[1] = "timer" /\ kdevs'[2] = "uart"
    <2> DEFINE Ids == 0 .. (KDEV_BUFFER_SIZE - 1)
               Kinds == {NONE, "gic", "timer", "uart"}
               k1 == Register(kdevs, 0, "gic")
               k2 == Register(k1, 1, "timer")
               k3 == Register(k2, 2, "uart")
    <2>1. 0 \in Ids /\ 1 \in Ids /\ 2 \in Ids
      BY InterruptsAssumption
    <2>2. kdevs \in [Ids -> Kinds] /\ \A d \in Ids : kdevs[d] = NONE
      BY <1>0
    <2> HIDE DEF Ids, Kinds
    <2>3. "gic" \in Kinds /\ "timer" \in Kinds /\ "uart" \in Kinds
      BY DEF Kinds
    <2>4. k1 \in [Ids -> Kinds] /\ k1[0] = "gic" /\ k1[1] = NONE /\ k1[2] = NONE
      BY <2>1, <2>2, <2>3, RegisterFree
    <2> HIDE DEF k1
    <2>5. k2 \in [Ids -> Kinds] /\ k2[0] = "gic" /\ k2[1] = "timer" /\ k2[2] = NONE
      BY <2>1, <2>3, <2>4, RegisterFree
    <2> HIDE DEF k2
    <2>6. k3 \in [Ids -> Kinds] /\ k3[0] = "gic" /\ k3[1] = "timer" /\ k3[2] = "uart"
      BY <2>1, <2>3, <2>5, RegisterFree
    <2>7. kdevs' = k3
      BY DEF setup_devices, kdev_register, k1, k2
    <2> QED BY <2>6, <2>7 DEF Ids, Kinds
  <1>2. /\ irq_devices' \in [IRQS -> 0 .. (KDEV_BUFFER_SIZE - 1)]
        /\ irq_devices'[TIMER_IRQ] = 1 /\ irq_devices'[UART_IRQ] = 2 /\ irq_devices'[SPURIOUS] = 0
    BY <1>0, InterruptsAssumption DEF setup_devices, IRQS, TIMER_IRQ, UART_IRQ, SPURIOUS
  <1>3. /\ int_dispatch_tab' \in [INT_TYPES -> {NONE, "gicv2_dispatch", "kcall_dispatch", "int_not_implemented_dispatch"}]
        /\ \A t \in INT_TYPES : int_dispatch_tab'[t] # NONE
        /\ \A t \in IRQ_TYPES : int_dispatch_tab'[t] = "gicv2_dispatch"
    BY <1>0 DEF setup_devices, INT_TYPES, IRQ_TYPES, NONE
  <1>4. timer' \in [armed : BOOLEAN, expired : BOOLEAN, imask : BOOLEAN]
    BY ResetKeepsType DEF setup_devices
  <1>5. pc' \in Places /\ Len(interrupted) = 0
    BY <1>0, StepsOfBoot DEF Locked, Places, IInv, Nesting, Handler
  <1>6. enabled' \subseteq IRQS
    BY DEF IInv, TypeOK, setup_devices, IRQS
  <1>7. TypeOK'
    BY <1>1, <1>2, <1>3, <1>4, <1>5, <1>6 DEF IInv, TypeOK, setup_devices, BootTo, saved
  <1>8. Tables'
    BY <1>0, <1>1, <1>2, <1>3 DEF IInv, Tables, Unlocked, Locked, DeviceCall, setup_devices, INT_TYPES
  <1> QED BY <1>7, <1>8

LEMMA SetupSyscallsTypes ==
  ASSUME IInv, setup_syscalls
  PROVE  TypeOK'
PROOF
  <1>1. pc' \in Places /\ Len(interrupted) = 0 /\ pc = "setup_syscalls" /\ pc' # "return"
    BY StepsOfBoot DEF setup_syscalls, BootTo, Locked, Places, IInv, Nesting, Handler
  <1>2. kcalls' \in [0 .. (KCALL_BUFFER_SIZE - 1) -> {NONE, "exit", "start", "write", "read", "poll_out"}]
    BY DEF IInv, TypeOK, setup_syscalls, kcall_register, Register
  <1>3. int_dispatch_tab' \in [INT_TYPES -> {NONE, "gicv2_dispatch", "kcall_dispatch", "int_not_implemented_dispatch"}]
    BY DEF IInv, TypeOK, setup_syscalls
  <1> QED BY <1>1, <1>2, <1>3 DEF IInv, TypeOK, setup_syscalls, BootTo, saved, gic

LEMMA KernelMainStep ==
  ASSUME IInv, kernel_main
  PROVE  IInv'
PROOF
  <1> USE StepsOfBoot DEF Unlocked, Locked, Late, Program, Handler, Calling, DeviceCall, Leaving, Lost
  <1>1. CASE memory_init
    <2>0. Len(interrupted) = 0
      BY <1>1 DEF IInv, Nesting, memory_init, BootTo
    <2>1. TypeOK'
      BY <1>1, <2>0 DEF IInv, TypeOK, Masking, Places, memory_init, BootTo, saved, tables, gic
    <2>2. Masking' /\ Nesting' /\ Saving' /\ Privilege'
      BY <1>1, <2>0 DEF IInv, TypeOK, Masking, Nesting, Saving, Privilege, Called, memory_init, BootTo, saved, tables, gic
    <2>3. Tables'
      BY <1>1 DEF IInv, Tables, Called, KdevEntry, memory_init, BootTo, saved, tables, gic
    <2> QED BY <2>1, <2>2, <2>3 DEF IInv
  <1>2. CASE irq_lock
    <2>0. Len(interrupted) = 0
      BY <1>2 DEF IInv, Nesting, irq_lock, BootTo
    <2>1. TypeOK'
      BY <1>2, <2>0 DEF IInv, TypeOK, Masking, Places, irq_lock, BootTo, saved, tables, gic
    <2>2. Masking' /\ Nesting' /\ Saving' /\ Privilege'
      BY <1>2, <2>0 DEF IInv, TypeOK, Masking, Nesting, Saving, Privilege, Called, irq_lock, BootTo, saved, tables, gic
    <2>3. Tables'
      BY <1>2 DEF IInv, Tables, Called, KdevEntry, irq_lock, BootTo, saved, tables, gic
    <2> QED BY <2>1, <2>2, <2>3 DEF IInv
  <1>3. CASE int_init_dispatch_tab
    <2>0. Len(interrupted) = 0
      BY <1>3 DEF IInv, Nesting, int_init_dispatch_tab, BootTo
    <2>1. TypeOK'
      BY <1>3, <2>0 DEF IInv, TypeOK, Masking, Places, int_init_dispatch_tab, BootTo, saved, gic
    <2>2. Masking' /\ Nesting' /\ Saving' /\ Privilege'
      BY <1>3, <2>0 DEF IInv, TypeOK, Masking, Nesting, Saving, Privilege, Called, int_init_dispatch_tab, BootTo, saved, gic
    <2>3. Tables'
      BY <1>3 DEF IInv, Tables, Called, KdevEntry, int_init_dispatch_tab, BootTo, saved, gic, IRQ_TYPES, INT_TYPES, NONE
    <2> QED BY <2>1, <2>2, <2>3 DEF IInv
  <1>4. CASE kdev_timer_set_action
    <2>0. Len(interrupted) = 0
      BY <1>4 DEF IInv, Nesting, kdev_timer_set_action, BootTo
    <2>1. TypeOK'
      BY <1>4, <2>0 DEF IInv, TypeOK, Masking, Places, kdev_timer_set_action, BootTo, saved, gic
    <2>2. Masking' /\ Nesting' /\ Saving' /\ Privilege'
      BY <1>4, <2>0 DEF IInv, TypeOK, Masking, Nesting, Saving, Privilege, Called, kdev_timer_set_action, BootTo, saved, gic
    <2>3. Tables'
      BY <1>4 DEF IInv, Tables, Called, KdevEntry, kdev_timer_set_action, BootTo, saved, gic
    <2> QED BY <2>1, <2>2, <2>3 DEF IInv
  <1>5. CASE irq_unlock
    <2>0. Len(interrupted) = 0
      BY <1>5 DEF IInv, Nesting, irq_unlock, BootTo
    <2>1. TypeOK'
      BY <1>5, <2>0 DEF IInv, TypeOK, Masking, Places, irq_unlock, BootTo, saved, tables, gic
    <2>2. Masking' /\ Nesting' /\ Saving' /\ Privilege'
      BY <1>5, <2>0 DEF IInv, TypeOK, Masking, Nesting, Saving, Privilege, Called, irq_unlock, BootTo, saved, tables, gic
    <2>3. Tables'
      BY <1>5 DEF IInv, Tables, Called, KdevEntry, irq_unlock, BootTo, saved, tables, gic
    <2> QED BY <2>1, <2>2, <2>3 DEF IInv
  <1>6. CASE kproc_exec
    <2>0. Len(interrupted) = 0
      BY <1>6 DEF IInv, Nesting, kproc_exec, BootTo
    <2>1. TypeOK'
      BY <1>6, <2>0 DEF IInv, TypeOK, Masking, Places, kproc_exec, BootTo, saved, tables, gic
    <2>2. Masking' /\ Nesting' /\ Saving' /\ Privilege'
      BY <1>6, <2>0 DEF IInv, TypeOK, Masking, Nesting, Saving, Privilege, Called, kproc_exec, BootTo, saved, tables, gic
    <2>3. Tables'
      BY <1>6 DEF IInv, Tables, Called, KdevEntry, kproc_exec, BootTo, saved, tables, gic
    <2> QED BY <2>1, <2>2, <2>3 DEF IInv
  <1>7. CASE setup_devices
    <2>1. TypeOK' /\ Tables'
      BY <1>7, SetupDevicesTables
    <2>2. Masking' /\ Nesting' /\ Saving' /\ Privilege'
      BY <1>7 DEF IInv, TypeOK, Masking, Nesting, Saving, Privilege, Called,
                  setup_devices, BootTo, saved
    <2> QED BY <2>1, <2>2 DEF IInv
  <1>8. CASE setup_syscalls
    <2>1. TypeOK'
      BY <1>8, SetupSyscallsTypes
    <2>2. Masking' /\ Nesting' /\ Saving' /\ Privilege'
      BY <1>8 DEF IInv, TypeOK, Masking, Nesting, Saving, Privilege, Called,
                  setup_syscalls, BootTo, saved, gic
    <2>3. Tables'
      BY <1>8 DEF IInv, TypeOK, Tables, setup_syscalls, BootTo, saved, gic, IRQ_TYPES, INT_TYPES, NONE
    <2> QED BY <2>1, <2>2, <2>3 DEF IInv
  <1>9. CASE kproc_init
    <2>0. Len(interrupted) = 0
      BY <1>9 DEF IInv, Nesting, kproc_init
    <2>1. TypeOK'
      BY <1>9, <2>0 DEF IInv, TypeOK, Masking, Places, kproc_init, locals, tables, gic
    <2>2. Masking' /\ Nesting' /\ Saving' /\ Privilege'
      BY <1>9, <2>0 DEF IInv, TypeOK, Masking, Nesting, Saving, Privilege, Called, kproc_init, locals, tables, gic
    <2>3. Tables'
      BY <1>9 DEF IInv, Tables, Called, KdevEntry, kproc_init, locals, tables, gic
    <2> QED BY <2>1, <2>2, <2>3 DEF IInv
  <1>10. CASE eret
    <2>0. /\ Len(interrupted) = 0 /\ pc' = elr /\ elr \in Late \cup Program
          /\ spsr.masked = FALSE /\ spsr \in State
      BY <1>10 DEF IInv, TypeOK, Nesting, Saving, eret
    <2>1. masked' = FALSE
      BY <1>10, <2>0, Zenon DEF eret
    <2>2. el' \in {"EL0", "EL1"} /\ pc' \in Places /\ pc' # "return" /\ masked' \in BOOLEAN
      BY <1>10, <2>0, <2>1 DEF eret, State, Places
    <2>3. TypeOK'
      BY <1>10, <2>0, <2>2 DEF IInv, TypeOK, eret, saved, locals, tables, gic
    <2>4. Masking' /\ Nesting' /\ Saving' /\ Privilege'
      BY <1>10, <2>0, <2>1 DEF IInv, TypeOK, Masking, Nesting, Saving, Privilege, Called, eret, saved, locals, tables, gic
    <2>5. Tables'
      BY <1>10, <2>0 DEF IInv, Tables, Called, KdevEntry, eret, saved, locals, tables, gic
    <2> QED BY <2>3, <2>4, <2>5 DEF IInv
  <1> QED BY <1>1, <1>2, <1>3, <1>4, <1>5, <1>6, <1>7, <1>8, <1>9, <1>10 DEF kernel_main

-----------------------------------------------------------------------------
(***************************************************************************)
(* The handlers, their return, and the program.                            *)
(***************************************************************************)
\* The answer of a call goes to the last frame.
LEMMA AnswerReplaces ==
  ASSUME IInv, pc \in Calling, NEW answers \in SUBSET REGS, Answered(answers)
  PROVE  frames' \in Seq(REGS) /\ Len(frames') = Len(frames)
PROOF
  <1>1. frames \in Seq(REGS) /\ Len(frames) = 1
    BY DEF IInv, TypeOK, Nesting, Calling, DeviceCall, Handler, Lost
  <1>2. PICK answer \in answers : frames' = [frames EXCEPT ![Len(frames)] = answer]
    BY DEF Answered
  <1>3. Len(frames) \in 1 .. Len(frames) /\ answer \in REGS
    BY <1>1
  <1> QED BY <1>1, <1>2, <1>3, Replace

LEMMA EpiloguePops ==
  ASSUME IInv, ISR_EPILOGUE
  PROVE  /\ frames' \in Seq(REGS) /\ Len(frames') = Len(interrupted) - 1
         /\ regs' = frames[Len(frames)] /\ regs' \in REGS
PROOF
  <1>1. frames \in Seq(REGS) /\ Len(frames) = Len(interrupted) /\ Len(frames) > 0
    BY DEF IInv, TypeOK, Nesting, ISR_EPILOGUE, Handler, Lost
  <1>2. frames' \in Seq(REGS) /\ Len(frames') = Len(frames) - 1 /\ frames[Len(frames)] \in REGS
    BY <1>1, Pop DEF ISR_EPILOGUE
  <1> QED BY <1>1, <1>2 DEF ISR_EPILOGUE

LEMMA ReturnPops ==
  ASSUME IInv, ReturnFromException
  PROVE  /\ interrupted' \in Seq(Origin) /\ Len(interrupted') = Len(interrupted) - 1
         /\ \A i \in 1 .. Len(interrupted') : interrupted'[i] = interrupted[i]
         /\ Top \in Origin /\ Len(interrupted) \in {1, 2}
PROOF
  <1>1. interrupted \in Seq(Origin) /\ Len(interrupted) \in {1, 2}
    BY DEF IInv, Nesting, ReturnFromException, Handler
  <1> QED BY <1>1, Pop DEF ReturnFromException, Top

\* A step of a handler that leaves the saved context alone.
LEMMA PlainStep ==
  ASSUME IInv, pc \in Handler \ (Leaving \cup Lost), pc' \in Handler \ {"return"},
         pc' \in Calling => int_type = "low_el_aarch64_sync",
         Len(interrupted) = 2 => pc' = "epilogue",
         frames' \in Seq(REGS), Len(frames') = Len(frames),
         int_type # "low_el_aarch64_sync" => UNCHANGED frames,
         UNCHANGED <<el, elr, spsr, int_type, suspended, interrupted, window>>
  PROVE  Nesting' /\ Saving' /\ Privilege' /\ Len(frames') = Len(interrupted)
PROOF
  <1> USE DEF Handler, Leaving, Lost
  <1>1. pc' \notin BootSteps /\ pc' \notin Program
    BY StepsOfBoot DEF Unlocked, Locked, Late, Program
  <1>2. Nesting'
    BY DEF IInv, Nesting, Calling, DeviceCall
  <1>3. Saving'
    BY <1>1 DEF IInv, Saving, Top, GoesOn
  <1>4. Privilege'
    BY <1>1 DEF IInv, Privilege
  <1>5. Len(frames') = Len(interrupted)
    BY DEF IInv, TypeOK
  <1> QED BY <1>2, <1>3, <1>4, <1>5

\* A call that ends in a fault or astray.
LEMMA LostStep ==
  ASSUME IInv, pc \in Calling, pc' \in Lost,
         UNCHANGED <<el, spsr, int_type, interrupted, window>>
  PROVE  Nesting' /\ Saving' /\ Privilege'
PROOF
  <1> USE DEF Handler, Leaving, Lost, Calling, DeviceCall
  <1>1. pc' \notin BootSteps /\ pc' \notin Program
    BY StepsOfBoot DEF Unlocked, Locked, Late, Program
  <1>2. Nesting'
    BY DEF IInv, Nesting
  <1>3. Saving'
    BY <1>1 DEF Saving
  <1>4. Privilege'
    BY <1>1 DEF IInv, Privilege
  <1> QED BY <1>2, <1>3, <1>4

\* A call that switches processes: what is interrupted stays, but the return
\* is to another place.
LEMMA SwitchStep ==
  ASSUME IInv, pc = "call", pc' = "epilogue", elr' \in Program, GoesOn(Top, elr)',
         UNCHANGED <<el, spsr, int_type, interrupted, window>>
  PROVE  Nesting' /\ Saving' /\ Privilege'
PROOF
  <1> USE DEF Handler, Leaving, Lost, Calling, DeviceCall
  <1>1. pc' \notin BootSteps /\ pc' \notin Program
    BY StepsOfBoot DEF Unlocked, Locked, Late, Program
  <1>2. Len(interrupted) = 1 /\ int_type = "low_el_aarch64_sync"
    BY DEF IInv, Nesting
  <1>3. Nesting'
    BY DEF IInv, Nesting
  <1>4. Saving'
    BY <1>1, <1>2 DEF IInv, Saving, Top
  <1>5. Privilege'
    BY <1>1 DEF IInv, Privilege
  <1> QED BY <1>3, <1>4, <1>5

\* A call comes from a program, and no other process has run since.
LEMMA CallComesFrom ==
  ASSUME IInv, pc = "call"
  PROVE  /\ Len(interrupted) = 1 /\ Top.pc \in Program /\ elr = Top.pc
         /\ suspended = Top.suspended /\ suspended \in Seq(Program)
  BY DEF IInv, TypeOK, Nesting, Saving, Top, Handler, Calling, Leaving, Lost

LEMMA StartStep ==
  ASSUME IInv, kcall_proc_start
  PROVE  IInv'
PROOF
  <1> USE StepsOfBoot DEF Unlocked, Locked, Late, Program, Handler, Calling, DeviceCall, Leaving, Lost, IRQ_TYPES
  <1>1. /\ pc = "call" /\ pc' \in {"epilogue", "fault"} /\ regs' \in REGS
        /\ Called = "start" /\ UNCHANGED <<esr, kcalls>>
        /\ UNCHANGED <<el, spsr, int_type, interrupted, window, irq_key>>
        /\ UNCHANGED <<masked, dev_id, io_key, irq_id, tables, gic, timer>>
    BY DEF kcall_proc_start, KernelStep, tables
  <1>2. /\ Len(interrupted) = 1 /\ Top.pc \in Program /\ elr = Top.pc
        /\ suspended = Top.suspended /\ suspended \in Seq(Program)
    BY <1>1, CallComesFrom
  <1>3. frames' \in Seq(REGS) /\ Len(frames') = Len(frames)
    BY <1>1, AnswerReplaces DEF kcall_proc_start, IInv, TypeOK
  <1>4. Append(suspended, elr) \in Seq(Program) /\ Len(Append(suspended, elr)) = Len(suspended) + 1
    BY <1>2, Push
  <1>5. Len(suspended) \in Nat /\ KPROC_MAX_COUNT \in Nat /\ Len(suspended) < KPROC_MAX_COUNT
    BY <1>2, LenProperties, InterruptsAssumption DEF IInv, TypeOK
  <1>6. /\ suspended' \in Seq(Program) /\ Len(suspended') < KPROC_MAX_COUNT
        /\ elr' \in Program
    BY <1>2, <1>4, <1>5 DEF kcall_proc_start
  <1>7. Nesting' /\ Saving' /\ Privilege'
    <2>1. CASE pc' = "fault"
      BY <1>1, <2>1, LostStep
    <2>2. CASE pc' = "epilogue"
      <3>1. Called' = "start" /\ Top' = Top
        BY <1>1 DEF Called, Top
      <3>2. \/ suspended' = suspended /\ elr' = elr
            \/ suspended' = Append(suspended, elr) /\ elr' = "entry"
        BY <2>2 DEF kcall_proc_start, KernelStep
      <3>3. GoesOn(Top, elr)'
        BY <1>2, <3>1, <3>2 DEF GoesOn
      <3> QED BY <1>1, <1>6, <2>2, <3>3, SwitchStep
    <2> QED BY <1>1, <2>1, <2>2
  <1>8. TypeOK'
    BY <1>1, <1>2, <1>3, <1>6 DEF IInv, TypeOK, Places, tables, gic
  <1>9. Masking' /\ Tables'
    BY <1>1 DEF IInv, TypeOK, Masking, Tables, Called, KdevEntry, tables, gic
  <1> QED BY <1>7, <1>8, <1>9 DEF IInv

LEMMA ExitStep ==
  ASSUME IInv, kcall_proc_exit
  PROVE  IInv'
PROOF
  <1> USE StepsOfBoot DEF Unlocked, Locked, Late, Program, Handler, Calling, DeviceCall, Leaving, Lost, IRQ_TYPES
  <1>1. /\ pc = "call" /\ pc' = "epilogue" /\ regs' \in REGS
        /\ Called = "exit" /\ UNCHANGED <<esr, kcalls>>
        /\ UNCHANGED <<el, spsr, int_type, interrupted, window, irq_key>>
        /\ UNCHANGED <<masked, dev_id, io_key, irq_id, tables, gic, timer>>
    BY DEF kcall_proc_exit, KernelStep, tables
  <1>2. /\ Len(interrupted) = 1 /\ Top.pc \in Program /\ elr = Top.pc
        /\ suspended = Top.suspended /\ suspended \in Seq(Program)
    BY <1>1, CallComesFrom
  <1>3. frames' \in Seq(REGS) /\ Len(frames') = Len(frames)
    BY <1>1, AnswerReplaces DEF kcall_proc_exit
  <1>4. Called' = "exit" /\ Top' = Top
    BY <1>1 DEF Called, Top
  <1>5. /\ suspended' \in Seq(Program) /\ Len(suspended') < KPROC_MAX_COUNT
        /\ elr' \in Program /\ GoesOn(Top, elr)'
    <2>1. CASE suspended = <<>>
      BY <1>2, <1>4, <2>1 DEF kcall_proc_exit, GoesOn, IInv, TypeOK
    <2>2. CASE suspended # <<>>
      <3>1. Len(suspended) \in Nat /\ Len(suspended) > 0
        BY <1>2, <2>2, EmptySeq, LenProperties
      <3>2. elr' = suspended[Len(suspended)] /\ suspended' = SubSeq(suspended, 1, Len(suspended) - 1)
        BY <2>2 DEF kcall_proc_exit
      <3>3. /\ suspended' \in Seq(Program) /\ Len(suspended') = Len(suspended) - 1
            /\ elr' \in Program /\ Append(suspended', elr') = suspended
        BY <1>2, <3>1, <3>2, Pop
      <3> QED BY <1>2, <1>4, <3>1, <3>3, InterruptsAssumption DEF GoesOn, IInv, TypeOK
    <2> QED BY <2>1, <2>2
  <1>6. Nesting' /\ Saving' /\ Privilege'
    BY <1>1, <1>5, SwitchStep
  <1>7. TypeOK'
    BY <1>1, <1>2, <1>3, <1>5 DEF IInv, TypeOK, Places, tables, gic
  <1>8. Masking' /\ Tables'
    BY <1>1 DEF IInv, TypeOK, Masking, Tables, Called, KdevEntry, tables, gic
  <1> QED BY <1>6, <1>7, <1>8 DEF IInv

LEMMA KernelFaultsStep ==
  ASSUME IInv, KernelFaults
  PROVE  IInv'
PROOF
  <1>1. pc = "fault" /\ Enter("sync", "fault") /\ masked /\ el = "EL1" /\ Len(interrupted) = 1
    BY DEF KernelFaults, IInv, Masking, Nesting, Handler, Lost
  <1>2. /\ frames' \in Seq(REGS) /\ int_type' \in INT_TYPES /\ spsr' \in State
        /\ interrupted' \in Seq(Origin) /\ Len(interrupted') = 2 /\ Len(frames') = 2
        /\ interrupted'[2] = Here("fault") /\ interrupted'[1] = interrupted[1]
        /\ frames'[2] = regs
        /\ Here("fault").pc = "fault" /\ Here("fault").el = el /\ Here("fault").masked = masked
        /\ Here("fault").regs = regs /\ Here("fault").suspended = suspended
    <2>1. 1 \in 1 .. Len(interrupted) /\ Len(interrupted) + 1 = 2
      BY <1>1
    <2>2. "fault" \in Late \cup Program \cup {"fault"} /\ "sync" \in {"sync", "irq"}
      OBVIOUS
    <2>3. /\ frames' \in Seq(REGS) /\ int_type' \in INT_TYPES /\ spsr' \in State
          /\ interrupted' \in Seq(Origin) /\ Len(interrupted') = Len(interrupted) + 1
          /\ Len(frames') = Len(interrupted')
          /\ interrupted'[Len(interrupted')] = Here("fault")
          /\ \A i \in 1 .. Len(interrupted) : interrupted'[i] = interrupted[i]
          /\ frames'[Len(frames')] = regs
          /\ Here("fault").pc = "fault" /\ Here("fault").el = el /\ Here("fault").masked = masked
          /\ Here("fault").regs = regs /\ Here("fault").suspended = suspended
      BY <1>1, <2>2, EnterSaves
    <2> QED BY <2>1, <2>3
  <1>3. /\ pc' = "vector" /\ elr' = "fault" /\ UNCHANGED <<suspended, window>> /\ masked' = TRUE
        /\ el' = "EL1" /\ spsr'.el = el /\ int_type' = "cur_el_spn_sync" /\ regs' \in REGS
    BY <1>1 DEF Enter, Vector, KernelFaults
  <1>4. spsr'.masked = masked
    BY <1>1, Zenon DEF Enter
  <1>5. TypeOK'
    <2>1. elr' \in Places /\ pc' \in Places /\ esr' \in CALLS \cup FAULTS \cup {0}
      BY <1>3 DEF Places, Handler, KernelFaults
    <2> QED BY <1>2, <1>3, <2>1 DEF IInv, TypeOK, KernelFaults, tables, gic
  <1>6. Nesting'
    BY <1>1, <1>2, <1>3 DEF IInv, Nesting, Handler, Lost, Leaving, Calling, DeviceCall
  <1>7. Saving'
    BY <1>2, <1>3, <1>4, StepsOfBoot
       DEF Saving, Top, Handler, Lost, Leaving, Unlocked, Locked, Late
  <1>8. Masking' /\ Tables'
    BY <1>1, <1>3 DEF IInv, Masking, Tables, Called, KdevEntry, KernelFaults, Unlocked, Locked,
                      Late, Program, Handler, DeviceCall, tables, gic
  <1>9. Privilege'
    BY <1>1, <1>2, <1>3, StepsOfBoot
       DEF IInv, Privilege, Handler, Lost, Program, Unlocked, Locked, Late
  <1> QED BY <1>5, <1>6, <1>7, <1>8, <1>9 DEF IInv

\* Where a return goes and in which state.
LEMMA ReturnGoes ==
  ASSUME IInv, ReturnFromException
  PROVE  /\ el' = Top.el /\ masked' = Top.masked /\ GoesOn(Top, pc')
         /\ int_type # "low_el_aarch64_sync" => regs' = Top.regs /\ suspended = Top.suspended
         /\ Len(interrupted) = 1 => /\ pc' \in Late \cup Program /\ Top = interrupted[1]
                                    /\ Top.masked = FALSE
         /\ Len(interrupted) = 2 => pc' = "fault" /\ masked' /\ el' = "EL1"
PROOF
  <1>1. /\ pc = "return" /\ pc' = elr /\ el' = spsr.el /\ UNCHANGED <<regs, suspended>>
        /\ Len(interrupted) \in {1, 2}
    BY ReturnPops DEF ReturnFromException
  <1>2. masked' = spsr.masked /\ spsr.masked = Top.masked
    BY <1>1, Zenon DEF ReturnFromException, IInv, Saving, Handler, Lost
  <1>3. masked' = Top.masked
    BY <1>2, Zenon
  <1> QED BY <1>1, <1>3 DEF IInv, Nesting, Saving, Top, Handler, Lost, Leaving

LEMMA ReturnStep ==
  ASSUME IInv, ReturnFromException
  PROVE  IInv'
PROOF
  <1>1. /\ interrupted' \in Seq(Origin) /\ Len(interrupted') = Len(interrupted) - 1
        /\ \A i \in 1 .. Len(interrupted') : interrupted'[i] = interrupted[i]
        /\ Top \in Origin /\ Len(interrupted) \in {1, 2}
    BY ReturnPops
  <1>2. /\ el' = Top.el /\ masked' = Top.masked
        /\ Len(interrupted) = 1 => /\ pc' \in Late \cup Program /\ Top = interrupted[1]
                                   /\ Top.masked = FALSE
        /\ Len(interrupted) = 2 => pc' = "fault" /\ masked' /\ el' = "EL1"
    BY ReturnGoes
  <1>3. /\ pc = "return" /\ pc' = elr
        /\ UNCHANGED <<regs, elr, spsr, frames, int_type, suspended, window, locals, tables, gic, timer>>
    BY DEF ReturnFromException
  <1>4. pc' \in Places /\ pc' \notin Unlocked \cup Locked \cup (Handler \ {"fault"})
    BY <1>1, <1>2, StepsOfBoot DEF Places, Late, Program, Handler, Unlocked, Locked
  <1>5. TypeOK'
    <2>1. masked' \in BOOLEAN
      BY <1>1, <1>2
    <2>2. el' \in {"EL0", "EL1"}
      BY <1>1, <1>2 DEF Origin
    <2>3. Len(frames') = Len(interrupted') /\ pc' # "return"
      BY <1>1, <1>2, <1>3 DEF IInv, TypeOK, Late, Program
    <2>4. \/ Len(interrupted') <= 1
          \/ Len(interrupted') = 2 /\ interrupted'[2].pc = "fault"
      BY <1>1
    <2> QED BY <1>3, <1>4, <2>1, <2>2, <2>3, <2>4 DEF IInv, TypeOK, locals, tables, gic
  <1>6. Nesting'
    BY <1>1, <1>2, <1>3, <1>4 DEF IInv, Nesting, Handler, Lost, Late, Program, Calling, DeviceCall
  <1>7. Masking' /\ Tables'
    BY <1>1, <1>2, <1>3, <1>4 DEF IInv, Masking, Tables, Called, KdevEntry, locals, tables, gic,
          Unlocked, Locked, Late, Program, Handler, DeviceCall
  <1>8. Saving'
    <2>1. pc' \in BootSteps => elr \in Late \cup Program /\ spsr.masked = FALSE
      BY <1>1, <1>2, <1>3, StepsOfBoot DEF IInv, Saving, Handler, Lost, Unlocked, Locked, Late, Program
    <2> QED BY <1>3, <1>4, <2>1 DEF Saving, Lost
  <1>9. Privilege'
    <2>1. CASE Len(interrupted) = 1
      <3>1. ~window => pc' \in Program /\ el' = "EL0"
        BY <1>2, <1>3, <2>1 DEF IInv, Privilege, Handler, Lost
      <3>2. pc' \in Program => pc' \notin BootSteps \cup Handler
        BY StepsOfBoot DEF Program, Handler, Unlocked, Locked, Late
      <3> QED BY <1>3, <3>1, <3>2 DEF Privilege
    <2>2. CASE Len(interrupted) = 2
      <3>1. pc' = "fault" /\ interrupted'[1] = interrupted[1]
        BY <1>1, <1>2, <2>2
      <3> QED BY <1>3, <3>1, StepsOfBoot
              DEF IInv, Privilege, Handler, Lost, Program, Unlocked, Locked, Late
    <2> QED BY <1>1, <2>1, <2>2
  <1> QED BY <1>5, <1>6, <1>7, <1>8, <1>9 DEF IInv

LEMMA UnchangedStep == IInv /\ UNCHANGED vars => IInv'
PROOF
  <1> SUFFICES ASSUME IInv, UNCHANGED vars PROVE IInv'
    OBVIOUS
  <1>1. TypeOK'
    BY DEF IInv, TypeOK, vars, pstate, saved, locals, tables, gic
  <1>2. Masking' /\ Tables'
    BY DEF IInv, Masking, Tables, Called, KdevEntry, vars, pstate, saved, locals, tables, gic
  <1>3. Nesting' /\ Saving' /\ Privilege'
    BY DEF IInv, Nesting, Saving, Privilege, GoesOn, Top, Called, vars, pstate, saved, locals, tables
  <1> QED BY <1>1, <1>2, <1>3 DEF IInv

LEMMA ExceptionStep ==
  ASSUME IInv, Exception
  PROVE  IInv'
PROOF
  <1> USE StepsOfBoot DEF Unlocked, Locked, Late, Program, Handler, Calling, DeviceCall, Leaving, Lost, IRQ_TYPES
  <1>1. CASE int_dispatch
    <2>0. frames' \in Seq(REGS) /\ Len(frames') = Len(frames) /\ UNCHANGED frames
      BY <1>1 DEF IInv, TypeOK, int_dispatch, Step, KernelStep, tables, gic
    <2>1. Nesting' /\ Saving' /\ Privilege' /\ Len(frames') = Len(interrupted)
      BY <1>1, <2>0, PlainStep DEF IInv, TypeOK, Nesting, Tables, int_dispatch, Step, KernelStep, tables, gic, INT_TYPES, NONE
    <2>3. TypeOK'
      BY <1>1, <2>0, <2>1, InterruptsAssumption DEF IInv, TypeOK, Masking, Places, int_dispatch, Step, KernelStep, tables, gic, INT_TYPES, NONE
    <2>4. Masking' /\ Tables'
      BY <1>1 DEF IInv, TypeOK, Masking, Tables, Called, KdevEntry, int_dispatch, Step, KernelStep, tables, gic, INT_TYPES, NONE
    <2> QED BY <2>1, <2>3, <2>4 DEF IInv
  <1>2. CASE gicv2_get_irq_id
    <2>0. frames' \in Seq(REGS) /\ Len(frames') = Len(frames) /\ UNCHANGED frames
      BY <1>2 DEF IInv, TypeOK, gicv2_get_irq_id, Step, KernelStep, tables, gic
    <2>1. Nesting' /\ Saving' /\ Privilege' /\ Len(frames') = Len(interrupted)
      BY <1>2, <2>0, PlainStep DEF IInv, TypeOK, Nesting, Tables, gicv2_get_irq_id, Step, KernelStep, tables, gic
    <2>3. TypeOK'
      BY <1>2, <2>0, <2>1, InterruptsAssumption DEF IInv, TypeOK, Masking, Places, gicv2_get_irq_id, Step, KernelStep, tables, gic, IRQS
    <2>4. Masking' /\ Tables'
      BY <1>2 DEF IInv, TypeOK, Masking, Tables, Called, KdevEntry, gicv2_get_irq_id, Step, KernelStep, tables, gic, IRQS
    <2> QED BY <2>1, <2>3, <2>4 DEF IInv
  <1>3. CASE kdev_generic_isr
    <2>0. frames' \in Seq(REGS) /\ Len(frames') = Len(frames) /\ UNCHANGED frames
      BY <1>3 DEF IInv, TypeOK, kdev_generic_isr, Step, KernelStep, tables, gic
    <2>1. Nesting' /\ Saving' /\ Privilege' /\ Len(frames') = Len(interrupted)
      BY <1>3, <2>0, PlainStep DEF IInv, TypeOK, Nesting, Tables, kdev_generic_isr, Step, KernelStep, tables, gic
    <2>3. TypeOK'
      BY <1>3, <2>0, <2>1, InterruptsAssumption DEF IInv, TypeOK, Masking, Places, kdev_generic_isr, Step, KernelStep, tables, gic
    <2>4. Masking' /\ Tables'
      BY <1>3 DEF IInv, TypeOK, Masking, Tables, Called, KdevEntry, kdev_generic_isr, Step, KernelStep, tables, gic
    <2> QED BY <2>1, <2>3, <2>4 DEF IInv
  <1>4. CASE timer_isr_action
    <2>0. frames' \in Seq(REGS) /\ Len(frames') = Len(frames) /\ UNCHANGED frames
      BY <1>4 DEF IInv, TypeOK, timer_isr_action, Step, KernelStep, tables, gic
    <2>1. Nesting' /\ Saving' /\ Privilege' /\ Len(frames') = Len(interrupted)
      BY <1>4, <2>0, PlainStep DEF IInv, TypeOK, Nesting, Tables, timer_isr_action, Step, KernelStep, tables, gic
    <2>3. TypeOK'
      BY <1>4, <2>0, <2>1, InterruptsAssumption DEF IInv, TypeOK, Masking, Places, timer_isr_action, Step, KernelStep, tables, gic
    <2>4. Masking' /\ Tables'
      BY <1>4 DEF IInv, TypeOK, Masking, Tables, Called, KdevEntry, timer_isr_action, Step, KernelStep, tables, gic
    <2> QED BY <2>1, <2>3, <2>4 DEF IInv
  <1>6. CASE uart_isr
    <2>0. frames' \in Seq(REGS) /\ Len(frames') = Len(frames) /\ UNCHANGED frames
      BY <1>6 DEF IInv, TypeOK, uart_isr, Step, KernelStep, tables, gic
    <2>1. Nesting' /\ Saving' /\ Privilege' /\ Len(frames') = Len(interrupted)
      BY <1>6, <2>0, PlainStep DEF IInv, TypeOK, Nesting, Tables, uart_isr, Step, KernelStep, tables, gic
    <2>3. TypeOK'
      BY <1>6, <2>0, <2>1, InterruptsAssumption DEF IInv, TypeOK, Masking, Places, uart_isr, Step, KernelStep, tables, gic
    <2>4. Masking' /\ Tables'
      BY <1>6 DEF IInv, TypeOK, Masking, Tables, Called, KdevEntry, uart_isr, Step, KernelStep, tables, gic
    <2> QED BY <2>1, <2>3, <2>4 DEF IInv
  <1>7. CASE gicv2_end_isr
    <2>0. frames' \in Seq(REGS) /\ Len(frames') = Len(frames) /\ UNCHANGED frames
      BY <1>7 DEF IInv, TypeOK, gicv2_end_isr, Step, KernelStep, tables, gic
    <2>1. Nesting' /\ Saving' /\ Privilege' /\ Len(frames') = Len(interrupted)
      BY <1>7, <2>0, PlainStep DEF IInv, TypeOK, Nesting, Tables, gicv2_end_isr, Step, KernelStep, tables, gic
    <2>3. TypeOK'
      BY <1>7, <2>0, <2>1, InterruptsAssumption DEF IInv, TypeOK, Masking, Places, gicv2_end_isr, Step, KernelStep, tables, gic
    <2>4. Masking' /\ Tables'
      BY <1>7 DEF IInv, TypeOK, Masking, Tables, Called, KdevEntry, gicv2_end_isr, Step, KernelStep, tables, gic
    <2> QED BY <2>1, <2>3, <2>4 DEF IInv
  <1>5. CASE timer_isr_reset
    <2>0. frames' \in Seq(REGS) /\ Len(frames') = Len(frames) /\ UNCHANGED frames
      BY <1>5 DEF IInv, TypeOK, timer_isr_reset, Step, KernelStep, tables, gic
    <2>1. Nesting' /\ Saving' /\ Privilege' /\ Len(frames') = Len(interrupted)
      BY <1>5, <2>0, PlainStep DEF IInv, TypeOK, Nesting, Tables, timer_isr_reset, Step, KernelStep, tables, gic
    <2>2. timer' \in [armed : BOOLEAN, expired : BOOLEAN, imask : BOOLEAN]
      BY <1>5, ResetKeepsType DEF timer_isr_reset
    <2>3. TypeOK'
      BY <1>5, <2>0, <2>1, <2>2 DEF IInv, TypeOK, Places, timer_isr_reset, Step, KernelStep, tables, gic
    <2>4. Masking' /\ Tables'
      BY <1>5 DEF IInv, TypeOK, Masking, Tables, Called, KdevEntry, timer_isr_reset, Step, KernelStep, tables, gic
    <2> QED BY <2>1, <2>3, <2>4 DEF IInv
  <1>8. CASE kcall_unsupported
    <2>0. frames' \in Seq(REGS) /\ Len(frames') = Len(frames)
      BY <1>8, AnswerReplaces, InterruptsAssumption DEF kcall_unsupported, Step, KernelStep
    <2>1. Nesting' /\ Saving' /\ Privilege' /\ Len(frames') = Len(interrupted)
      BY <1>8, <2>0, PlainStep DEF IInv, TypeOK, Nesting, Tables, kcall_unsupported, Step, KernelStep, tables, gic
    <2>3. TypeOK'
      BY <1>8, <2>0, <2>1, InterruptsAssumption DEF IInv, TypeOK, Masking, Places, kcall_unsupported, Step, KernelStep, tables, gic
    <2>4. Masking' /\ Tables'
      BY <1>8 DEF IInv, TypeOK, Masking, Tables, Called, KdevEntry, kcall_unsupported, Step, KernelStep, tables, gic
    <2> QED BY <2>1, <2>3, <2>4 DEF IInv
  <1>10. CASE kcall_io
    <2>0. frames' \in Seq(REGS) /\ Len(frames') = Len(frames) /\ UNCHANGED frames
      BY <1>10 DEF IInv, TypeOK, kcall_io, KernelStep, tables, gic
    <2>1. Nesting' /\ Saving' /\ Privilege' /\ Len(frames') = Len(interrupted)
      BY <1>10, <2>0, PlainStep DEF IInv, TypeOK, Nesting, Tables, kcall_io, KernelStep, tables, gic
    <2>3. TypeOK'
      BY <1>10, <2>0, <2>1, InterruptsAssumption DEF IInv, TypeOK, Masking, Places, kcall_io, KernelStep, tables, gic, KCALL_IO
    <2>4. Masking' /\ Tables'
      BY <1>10 DEF IInv, TypeOK, Masking, Tables, Called, KdevEntry, kcall_io, KernelStep, tables, gic, KCALL_IO
    <2> QED BY <2>1, <2>3, <2>4 DEF IInv
  <1>11. CASE KdevRefuses
    <2>0. frames' \in Seq(REGS) /\ Len(frames') = Len(frames)
      BY <1>11, AnswerReplaces, InterruptsAssumption DEF KdevRefuses, Step, KernelStep
    <2>1. Nesting' /\ Saving' /\ Privilege' /\ Len(frames') = Len(interrupted)
      BY <1>11, <2>0, PlainStep DEF IInv, TypeOK, Nesting, Tables, KdevRefuses, Step, KernelStep, tables, gic
    <2>3. TypeOK'
      BY <1>11, <2>0, <2>1, InterruptsAssumption DEF IInv, TypeOK, Masking, Places, KdevRefuses, Step, KernelStep, tables, gic
    <2>4. Masking' /\ Tables'
      BY <1>11 DEF IInv, TypeOK, Masking, Tables, Called, KdevEntry, KdevRefuses, Step, KernelStep, tables, gic
    <2> QED BY <2>1, <2>3, <2>4 DEF IInv
  <1>13. CASE KdevForwards
    <2>0. frames' \in Seq(REGS) /\ Len(frames') = Len(frames) /\ UNCHANGED frames
      BY <1>13 DEF IInv, TypeOK, KdevForwards, Step, KernelStep, tables, gic
    <2>1. Nesting' /\ Saving' /\ Privilege' /\ Len(frames') = Len(interrupted)
      BY <1>13, <2>0, PlainStep DEF IInv, TypeOK, Nesting, Tables, KdevForwards, Step, KernelStep, tables, gic
    <2>3. TypeOK'
      BY <1>13, <2>0, <2>1, InterruptsAssumption DEF IInv, TypeOK, Masking, Places, KdevForwards, Step, KernelStep, tables, gic, KCALL_IO, NONE
    <2>4. Masking' /\ Tables'
      BY <1>13 DEF IInv, TypeOK, Masking, Tables, Called, KdevEntry, KdevForwards, Step, KernelStep, tables, gic, KCALL_IO, NONE
    <2> QED BY <2>1, <2>3, <2>4 DEF IInv
  <1>14. CASE LockIo
    <2>0. frames' \in Seq(REGS) /\ Len(frames') = Len(frames) /\ UNCHANGED frames
      BY <1>14 DEF IInv, TypeOK, LockIo, KernelStep, tables, gic
    <2>1. Nesting' /\ Saving' /\ Privilege' /\ Len(frames') = Len(interrupted)
      BY <1>14, <2>0, PlainStep DEF IInv, TypeOK, Nesting, Tables, LockIo, KernelStep, tables, gic
    <2>3. TypeOK'
      BY <1>14, <2>0, <2>1, InterruptsAssumption DEF IInv, TypeOK, Masking, Places, LockIo, KernelStep, tables, gic
    <2>4. Masking' /\ Tables'
      BY <1>14 DEF IInv, TypeOK, Masking, Tables, Called, KdevEntry, LockIo, KernelStep, tables, gic
    <2> QED BY <2>1, <2>3, <2>4 DEF IInv
  <1>15. CASE DeviceWorks
    <2>0. frames' \in Seq(REGS) /\ Len(frames') = Len(frames)
      BY <1>15, AnswerReplaces, InterruptsAssumption DEF DeviceWorks, Step, KernelStep
    <2>1. Nesting' /\ Saving' /\ Privilege' /\ Len(frames') = Len(interrupted)
      BY <1>15, <2>0, PlainStep DEF IInv, TypeOK, Nesting, Tables, DeviceWorks, Step, KernelStep, tables, gic
    <2>3. TypeOK'
      BY <1>15, <2>0, <2>1, InterruptsAssumption DEF IInv, TypeOK, Masking, Places, DeviceWorks, Step, KernelStep, tables, gic
    <2>4. Masking' /\ Tables'
      BY <1>15 DEF IInv, TypeOK, Masking, Tables, Called, KdevEntry, DeviceWorks, Step, KernelStep, tables, gic
    <2> QED BY <2>1, <2>3, <2>4 DEF IInv
  <1>17. CASE UnlockIo
    <2>0. frames' \in Seq(REGS) /\ Len(frames') = Len(frames) /\ UNCHANGED frames
      BY <1>17 DEF IInv, TypeOK, UnlockIo, KernelStep, tables, gic
    <2>1. Nesting' /\ Saving' /\ Privilege' /\ Len(frames') = Len(interrupted)
      BY <1>17, <2>0, PlainStep DEF IInv, TypeOK, Nesting, Tables, UnlockIo, KernelStep, tables, gic
    <2>3. TypeOK'
      BY <1>17, <2>0, <2>1, InterruptsAssumption DEF IInv, TypeOK, Masking, Places, UnlockIo, KernelStep, tables, gic
    <2>4. Masking' /\ Tables'
      BY <1>17 DEF IInv, TypeOK, Masking, Tables, Called, KdevEntry, UnlockIo, KernelStep, tables, gic
    <2> QED BY <2>1, <2>3, <2>4 DEF IInv
  <1>9. CASE kcall_beyond
    <2>1. Nesting' /\ Saving' /\ Privilege'
      BY <1>9, LostStep DEF kcall_beyond, Step, KernelStep
    <2>2. TypeOK'
      BY <1>9 DEF IInv, TypeOK, Places, kcall_beyond, Step, KernelStep, tables, gic
    <2>3. Masking' /\ Tables'
      BY <1>9, InterruptsAssumption DEF IInv, TypeOK, Masking, Tables, Called, KdevEntry, kcall_beyond, Step, KernelStep, tables, gic
    <2> QED BY <2>1, <2>2, <2>3 DEF IInv
  <1>12. CASE KdevMissing
    <2>1. Nesting' /\ Saving' /\ Privilege'
      BY <1>12, LostStep DEF KdevMissing, Step, KernelStep
    <2>2. TypeOK'
      BY <1>12 DEF IInv, TypeOK, Places, KdevMissing, Step, KernelStep, tables, gic
    <2>3. Masking' /\ Tables'
      BY <1>12, InterruptsAssumption DEF IInv, TypeOK, Masking, Tables, Called, KdevEntry, KdevMissing, Step, KernelStep, tables, gic, NONE
    <2> QED BY <2>1, <2>2, <2>3 DEF IInv
  <1>16. CASE DeviceFails
    <2>1. Nesting' /\ Saving' /\ Privilege'
      BY <1>16, LostStep DEF DeviceFails, Step, KernelStep
    <2>2. TypeOK'
      BY <1>16 DEF IInv, TypeOK, Places, DeviceFails, Step, KernelStep, tables, gic
    <2>3. Masking' /\ Tables'
      BY <1>16, InterruptsAssumption DEF IInv, TypeOK, Masking, Tables, Called, KdevEntry, DeviceFails, Step, KernelStep, tables, gic
    <2> QED BY <2>1, <2>2, <2>3 DEF IInv
  <1>18. CASE ISR_EPILOGUE
    <2>1. /\ frames' \in Seq(REGS) /\ Len(frames') = Len(interrupted) - 1
          /\ regs' = frames[Len(frames)] /\ regs' \in REGS
      BY <1>18, EpiloguePops
    <2>2. TypeOK'
      BY <1>18, <2>1 DEF IInv, TypeOK, Places, ISR_EPILOGUE, locals, tables, gic
    <2>3. Nesting' /\ Privilege'
      BY <1>18 DEF IInv, Nesting, Privilege, ISR_EPILOGUE
    <2>4. Saving'
      BY <1>18, <2>1 DEF IInv, Saving, Top, GoesOn, Called, ISR_EPILOGUE, locals, tables
    <2>5. Masking' /\ Tables'
      BY <1>18 DEF IInv, Masking, Tables, Called, KdevEntry, ISR_EPILOGUE, locals, tables, gic
    <2> QED BY <2>2, <2>3, <2>4, <2>5 DEF IInv
  <1>19. CASE Astray
    BY <1>19, UnchangedStep DEF Astray
  <1> QED BY <1>1, <1>2, <1>3, <1>4, <1>5, <1>6, <1>7, <1>8, <1>9, <1>10, <1>11, <1>12, <1>13, <1>14, <1>15,
             <1>16, <1>17, <1>18, <1>19, StartStep, ExitStep, KernelFaultsStep, ReturnStep
          DEF Exception, kcall_dispatch

LEMMA UserComputesStep ==
  ASSUME IInv, UserComputes
  PROVE  IInv'
PROOF
  <1>1. /\ pc \in Program /\ pc' \in Program /\ Len(interrupted) = 0
        /\ pc \notin BootSteps \cup Handler /\ pc' \notin BootSteps \cup Handler
    BY StepsOfBoot DEF IInv, Nesting, UserComputes, Program, Handler, Unlocked, Locked, Late
  <1>2. TypeOK'
    BY <1>1 DEF IInv, TypeOK, Places, Handler, UserComputes, saved, locals, tables, gic
  <1>3. Masking' /\ Tables'
    BY <1>1, StepsOfBoot DEF IInv, Masking, Tables, Called, KdevEntry, UserComputes, saved, locals, tables, gic,
                Unlocked, Locked, Late, Program, Handler, DeviceCall
  <1>4. Nesting' /\ Saving' /\ Privilege'
    BY <1>1 DEF IInv, Nesting, Saving, Privilege, UserComputes, saved, Handler, Calling, DeviceCall
  <1> QED BY <1>2, <1>3, <1>4 DEF IInv

LEMMA InvariantStep == IInv /\ [Next]_vars => IInv'
PROOF
  <1> SUFFICES ASSUME IInv, [Next]_vars PROVE IInv'
    OBVIOUS
  <1>1. ASSUME NEW call_id \in CALLS, svc(call_id) PROVE IInv'
    BY <1>1, SyncExceptionStep DEF svc, Program
  <1>2. ASSUME NEW syndrome \in FAULTS, Faults(syndrome) PROVE IInv'
    BY <1>2, SyncExceptionStep DEF Faults, SyncException
  <1> QED BY <1>1, <1>2, UnchangedStep, HardwareStep, TakeInterruptStep, KernelMainStep, ExceptionStep,
             UserComputesStep DEF Next

-----------------------------------------------------------------------------
(***************************************************************************)
(* The theorems.                                                           *)
(***************************************************************************)
LEMMA InvariantHolds == Spec => []IInv
  BY Initial, InvariantStep, PTL DEF Spec

\* All variables keep their types; above all, no exception is taken in a
\* handler but a fault of the kernel itself, and of those one at a time.
THEOREM TypesHold == Spec => []TypeOK
PROOF
  <1>1. IInv => TypeOK
    BY DEF IInv
  <1> QED BY <1>1, InvariantHolds, PTL

\* kernel_main has filled each table before the first exception or call
\* that uses it, whenever interrupts come and whatever number of a device or
\* a call a program asks for; but for numbers without a device and the call
\* number behind the table the kernel never leaves its code.
THEOREM NoNullCallHolds == Spec => []NoNullCall
PROOF
  <1>1. IInv => NoNullCall
    <2> SUFFICES ASSUME IInv PROVE NoNullCall
      OBVIOUS
    <2> USE StepsOfBoot DEF Unlocked, Locked, Late
    <2>1. pc = "vector" => int_dispatch_tab[int_type] # NONE
      BY DEF IInv, TypeOK, Tables
    <2>2. pc = "isr" => Device # NONE
      BY DEF IInv, TypeOK, Tables, Device, IRQS, NONE
    <2>3. pc = "action" => timer_action # NONE
      BY DEF IInv, Tables, NONE
    <2> QED BY <2>1, <2>2, <2>3 DEF NoNullCall, IInv, Tables
  <1> QED BY <1>1, InvariantHolds, PTL

\* Unless an interrupt came in the window of kproc_exec, programs run in EL0
\* with interrupts unmasked.
THEOREM UserIsUnprivilegedHolds == Spec => []UserIsUnprivileged
PROOF
  <1>1. IInv => UserIsUnprivileged
    BY DEF IInv, Masking, Privilege, UserIsUnprivileged
  <1> QED BY <1>1, InvariantHolds, PTL

\* Every exception returns to where it came from, a start to the program that
\* it has started, an exit to the program below; and an exception that is not
\* a call leaves the registers as they were.
THEOREM TransparencyHolds == Spec => ExceptionIsTransparent
PROOF
  <1> DEFINE Transparent ==
               LET before == interrupted[Len(interrupted)]
               IN  /\ GoesOn(before, pc') /\ el' = before.el /\ masked' = before.masked
                   /\ int_type # "low_el_aarch64_sync" =>
                        regs' = before.regs /\ suspended = before.suspended
  <1>1. IInv /\ ReturnFromException => Transparent
    BY ReturnGoes, Zenon DEF Top
  <1>2. IInv /\ [Next]_vars => [ReturnFromException => Transparent]_vars
    BY <1>1
  <1> QED BY <1>2, InvariantHolds, PTL DEF Spec, ExceptionIsTransparent
=============================================================================
