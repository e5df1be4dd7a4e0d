----------------------------- MODULE Interrupts -----------------------------
(***************************************************************************)
(* From kernel_main (pivos/src/main.c) to programs and interrupts: the     *)
(* vector table (src/int/int_table.S, src/int.c), irq_lock and irq_unlock  *)
(* (include/kernel/int.h), the GIC's dispatch (src/dev/gicv2.c), the       *)
(* device table (src/dev.c), the timer (src/dev/generic_timer.c) and the   *)
(* dispatch of system calls (src/call.c, src/call/dev.c).                  *)
(*                                                                         *)
(* The kernel checks neither the number of a device nor the pointer of a   *)
(* read or a write.  An access of its own that fails is an exception       *)
(* inside the call, which no one handles: it returns to the instruction    *)
(* that failed, for ever.  A number without a device makes it call through *)
(* memory that holds no device: it may find itself "astray".               *)
(*                                                                         *)
(* An exception may be taken between any two steps at which PSTATE.I is    *)
(* clear, in the kernel too.  ELR_EL1 and SPSR_EL1 exist once; only x0 to  *)
(* x30 go to the frame.  Interrupt 30 is the timer's, level-sensitive as   *)
(* the private interrupts of a core are; 153 is the UART's, whose edges    *)
(* and handler are module Uart's subject and come at any moment here.      *)
(***************************************************************************)
EXTENDS Integers, Sequences

CONSTANTS
  REGS,              \* values of the registers x0 .. x30
  UNSUPPORTED,       \* those with -1 in x0, the answer of kcall_unsupported
  CALLS,             \* call numbers a program uses
  FAULTS,            \* low halves of ESR_EL1 after a fault of a program
  DEVS,              \* numbers of devices a program names: any int32_t
  KPROC_MAX_COUNT,   \* processes at a time
  KDEV_BUFFER_SIZE,  \* 1024
  KCALL_BUFFER_SIZE  \* 1024

ASSUME InterruptsAssumption ==
  /\ UNSUPPORTED \in REGS
  /\ KDEV_BUFFER_SIZE \in Nat /\ KDEV_BUFFER_SIZE > 2
  /\ KCALL_BUFFER_SIZE \in Nat /\ KCALL_BUFFER_SIZE > 4
  /\ CALLS \subseteq Nat /\ FAULTS \subseteq Nat
  /\ DEVS \subseteq Int
  /\ KPROC_MAX_COUNT \in Nat \ {0}

\* Numbers of interrupts, and what the tables hold.
TIMER_IRQ == 30
UART_IRQ == 153
SPURIOUS == 1023
IRQS == {TIMER_IRQ, UART_IRQ, SPURIOUS}
NONE == "none"

INT_TYPES == {"cur_el_spn_sync", "cur_el_spn_irq", "low_el_aarch64_sync", "low_el_aarch64_irq"}

VARIABLES
  pc,         \* the step of kernel_main, of a handler or of a program
  el, masked, \* PSTATE: exception level and I
  regs,       \* x0 .. x30
  elr, spsr,  \* ELR_EL1 and SPSR_EL1
  frames,     \* frames of registers on the kernel's stack
  esr,        \* ESR_EL1: the number of the last call, or of a fault
  int_type,   \* the vector the exception went through
  irq_id,     \* local of gicv2_dispatch
  suspended,  \* suspend.elr of the processes below the running one
  irq_key,    \* local of kernel_main
  dev_id,     \* argument of the last call of a device
  io_key,     \* irq_key of dev_uart_kdev_write and dev_uart_kdev_read
  int_dispatch_tab, irq_devices, kdevs, kcalls, timer_action,
  enabled,    \* interrupts enabled in the GIC
  uart_edge,  \* interrupt 153 is pending
  active,     \* interrupts acknowledged and not ended
  timer,      \* the timer: armed, expired and masked
  interrupted,\* per frame: the context it interrupted (history)
  window      \* an interrupt came between irq_unlock and eret (history)

pstate == <<pc, el, masked>>
saved  == <<elr, spsr, frames, int_type, suspended, interrupted, window>>
locals == <<esr, irq_id, irq_key, dev_id, io_key>>
tables == <<int_dispatch_tab, irq_devices, kdevs, kcalls, timer_action>>
gic    == <<enabled, uart_edge, active>>
vars   == <<pstate, regs, saved, locals, tables, gic, timer>>

Boot == <<"memory_init", "irq_lock", "int_init_dispatch_tab", "setup_devices",
          "setup_syscalls", "set_action", "irq_unlock", "kproc_exec", "kproc_init", "eret">>
BootSteps == {Boot[i] : i \in DOMAIN Boot}
Handler == {"vector", "iar", "isr", "action", "reset", "uart_isr", "eoi",
            "call", "kdev", "io_lock", "io", "io_unlock", "epilogue", "return",
            "fault",   \* an instruction that fails whenever it is executed
            "astray"}  \* no code of the kernel

\* The first instruction of a program, and any other.
Program == {"entry", "user"}
Places == BootSteps \cup Program \cup Handler

State == [el : {"EL0", "EL1"}, masked : BOOLEAN]

TypeOK ==
  /\ pc \in Places
  /\ el \in {"EL0", "EL1"} /\ masked \in BOOLEAN /\ irq_key \in BOOLEAN
  /\ regs \in REGS
  /\ elr \in Places /\ spsr \in State
  /\ suspended \in Seq(Program) /\ Len(suspended) < KPROC_MAX_COUNT
  /\ frames \in Seq(REGS)
  /\ Len(frames) = IF pc = "return" THEN Len(interrupted) - 1 ELSE Len(interrupted)
  /\ \/ Len(interrupted) <= 1  \* nothing nests but a fault of the kernel itself
     \/ Len(interrupted) = 2 /\ interrupted[2].pc = "fault"
  /\ esr \in CALLS \cup FAULTS \cup {0}
  /\ dev_id \in DEVS \cup {0} /\ io_key \in BOOLEAN
  /\ int_type \in INT_TYPES
  /\ irq_id \in IRQS
  /\ int_dispatch_tab \in [INT_TYPES -> {NONE, "gicv2_dispatch", "kcall_dispatch",
                                         "int_not_implemented_dispatch"}]
  /\ irq_devices \in [IRQS -> 0 .. (KDEV_BUFFER_SIZE - 1)]
  /\ kdevs \in [0 .. (KDEV_BUFFER_SIZE - 1) -> {NONE, "gic", "timer", "uart"}]
  /\ kcalls \in [0 .. (KCALL_BUFFER_SIZE - 1) -> {NONE, "exit", "start", "write", "read", "poll_out"}]
  /\ timer_action \in {NONE, "test_action"}
  /\ enabled \subseteq IRQS /\ active \subseteq IRQS
  /\ uart_edge \in BOOLEAN /\ window \in BOOLEAN
  /\ timer \in [armed : BOOLEAN, expired : BOOLEAN, imask : BOOLEAN]

(***************************************************************************)
(* boot.S enters EL1 with interrupts unmasked (the I bit of SPSR_EL2 is    *)
(* cleared); the GIC has none enabled.  SPSR_EL1 is not written before the *)
(* eret of kproc_exec: it holds 0, EL0 unmasked, after a reset.            *)
(***************************************************************************)
Init ==
  /\ pc = "memory_init" /\ el = "EL1" /\ masked = FALSE
  /\ regs \in REGS
  /\ elr = "entry" /\ spsr = [el |-> "EL0", masked |-> FALSE]
  /\ frames = <<>> /\ suspended = <<>> /\ interrupted = <<>> /\ window = FALSE
  /\ esr = 0 /\ int_type = "cur_el_spn_sync" /\ irq_id = SPURIOUS /\ irq_key = FALSE
  /\ dev_id = 0 /\ io_key = FALSE
  /\ int_dispatch_tab = [t \in INT_TYPES |-> NONE]
  /\ irq_devices = [i \in IRQS |-> 0]
  /\ kdevs = [d \in 0 .. (KDEV_BUFFER_SIZE - 1) |-> NONE]
  /\ kcalls = [c \in 0 .. (KCALL_BUFFER_SIZE - 1) |-> NONE]
  /\ timer_action = NONE
  /\ enabled = {} /\ active = {} /\ uart_edge = FALSE
  /\ timer = [armed |-> FALSE, expired |-> FALSE, imask |-> FALSE]

-----------------------------------------------------------------------------
(***************************************************************************)
(* The hardware.                                                           *)
(***************************************************************************)
Expire ==
  /\ timer.armed /\ ~timer.expired
  /\ timer' = [timer EXCEPT !.expired = TRUE]
  /\ UNCHANGED <<pstate, regs, saved, locals, tables, gic>>

UartEdge ==
  /\ ~uart_edge
  /\ uart_edge' = TRUE
  /\ UNCHANGED <<pstate, regs, saved, locals, tables, enabled, active, timer>>

\* Both have priority 0: none preempts the other before its end.
Pending ==
  {i \in enabled : \/ i = TIMER_IRQ /\ timer.expired /\ ~timer.imask
                   \/ i = UART_IRQ /\ uart_edge}

Signalled == Pending # {} /\ active = {}

\* What an exception interrupts: it is to go on at this place.
Here(resume) ==
  [pc |-> resume, el |-> el, masked |-> masked, regs |-> regs, suspended |-> suspended]

\* The vectors used: sync and irq, of the current level and the one below.
Vector(kind) ==
  CASE kind = "sync" /\ el = "EL0" -> "low_el_aarch64_sync"
    [] kind = "sync" /\ el = "EL1" -> "cur_el_spn_sync"
    [] kind = "irq"  /\ el = "EL0" -> "low_el_aarch64_irq"
    [] kind = "irq"  /\ el = "EL1" -> "cur_el_spn_irq"

\* Entry of an exception, with the prologue that stores the frame.
Enter(kind, resume) ==
  /\ elr' = resume
  /\ spsr' = [el |-> el, masked |-> masked]
  /\ int_type' = Vector(kind)
  /\ el' = "EL1" /\ masked' = TRUE
  /\ frames' = Append(frames, regs)
  /\ interrupted' = Append(interrupted, Here(resume))
  /\ regs' \in REGS
  /\ pc' = "vector"
  /\ UNCHANGED suspended

TakeInterrupt ==
  /\ Signalled /\ ~masked
  /\ Enter("irq", pc)
  /\ window' = (window \/ pc \in {"kproc_exec", "kproc_init", "eret"})
  /\ UNCHANGED <<locals, tables, gic, timer>>

-----------------------------------------------------------------------------
(***************************************************************************)
(* kernel_main.                                                            *)
(***************************************************************************)
BootTo(step, next) ==
  /\ pc = step
  /\ pc' = next
  /\ UNCHANGED <<el, saved, esr, irq_id, dev_id, io_key>>
  /\ regs' \in REGS

memory_init ==
  /\ BootTo("memory_init", "irq_lock")
  /\ UNCHANGED <<masked, irq_key, tables, gic, timer>>

\* A lock that reads DAIF but sets nothing.
LockNothing ==
  /\ BootTo("irq_lock", "int_init_dispatch_tab")
  /\ irq_key' = masked
  /\ UNCHANGED <<masked, tables, gic, timer>>

irq_lock ==
  /\ BootTo("irq_lock", "int_init_dispatch_tab")
  /\ irq_key' = masked
  /\ masked' = TRUE
  /\ UNCHANGED <<tables, gic, timer>>

int_init_dispatch_tab ==
  /\ BootTo("int_init_dispatch_tab", "setup_devices")
  /\ int_dispatch_tab' = [t \in INT_TYPES |-> "int_not_implemented_dispatch"]
  /\ UNCHANGED <<masked, irq_key, irq_devices, kdevs, kcalls, timer_action, gic, timer>>

\* kdev_register and kcall_register refuse a number beyond the table or one
\* that is taken.
Register(table, id, entry) ==
  IF id \in DOMAIN table /\ table[id] = NONE
    THEN [table EXCEPT ![id] = entry] ELSE table

\* A registration with the check for a taken number turned round.
RegisterTaken(table, id, dev) ==
  IF id \in DOMAIN table /\ table[id] # NONE
    THEN [table EXCEPT ![id] = dev] ELSE table

kdev_register(table, id, dev) == Register(table, id, dev)

kcall_register(table, id, call) == Register(table, id, call)

\* The control word of the timer is built in a local of which IMASK is not
\* initialised.
generic_timer_reset ==
  timer' \in {[armed |-> TRUE, expired |-> FALSE, imask |-> m] : m \in BOOLEAN}

setup_devices ==
  /\ BootTo("setup_devices", "setup_syscalls")
  /\ generic_timer_reset
  /\ kdevs' = kdev_register(kdev_register(kdev_register(kdevs, 0, "gic"), 1, "timer"), 2, "uart")
  /\ int_dispatch_tab' = [int_dispatch_tab EXCEPT !["cur_el_spn_irq"] = "gicv2_dispatch",
                                                  !["low_el_aarch64_irq"] = "gicv2_dispatch"]
  /\ irq_devices' = [irq_devices EXCEPT ![TIMER_IRQ] = 1, ![UART_IRQ] = 2]
  /\ enabled' = enabled \cup {TIMER_IRQ, UART_IRQ}
  /\ UNCHANGED <<masked, irq_key, kcalls, timer_action, uart_edge, active>>

setup_syscalls ==
  /\ BootTo("setup_syscalls", "set_action")
  /\ int_dispatch_tab' = [int_dispatch_tab EXCEPT !["low_el_aarch64_sync"] = "kcall_dispatch"]
  /\ kcalls' = kcall_register(kcall_register(kcall_register(kcall_register(kcall_register(
                 kcalls, 0, "exit"), 1, "start"), 2, "write"), 3, "read"), 4, "poll_out")
  /\ UNCHANGED <<masked, irq_key, irq_devices, kdevs, timer_action, gic, timer>>

kdev_timer_set_action ==
  /\ BootTo("set_action", "irq_unlock")
  /\ timer_action' = IF kdevs[1] = "timer" THEN "test_action" ELSE timer_action
  /\ UNCHANGED <<masked, irq_key, int_dispatch_tab, irq_devices, kdevs, kcalls, gic, timer>>

irq_unlock ==
  /\ BootTo("irq_unlock", "kproc_exec")
  /\ masked' = irq_key
  /\ UNCHANGED <<irq_key, tables, gic, timer>>

\* kproc_alloc and kproc_mem_switch: module Proc.
kproc_exec ==
  /\ BootTo("kproc_exec", "kproc_init")
  /\ UNCHANGED <<masked, irq_key, tables, gic, timer>>

kproc_init ==
  /\ pc = "kproc_init"
  /\ elr' = "entry"
  /\ pc' = "eret"
  /\ regs' \in REGS
  /\ UNCHANGED <<el, masked, spsr, frames, int_type, suspended, interrupted, window>>
  /\ UNCHANGED <<locals, tables, gic, timer>>

eret ==
  /\ pc = "eret"
  /\ pc' = elr
  /\ el' = spsr.el /\ masked' = spsr.masked
  /\ UNCHANGED <<regs, saved, locals, tables, gic, timer>>

kernel_main ==
  \/ memory_init \/ irq_lock \/ int_init_dispatch_tab
  \/ setup_devices \/ setup_syscalls \/ kdev_timer_set_action
  \/ irq_unlock \/ kproc_exec \/ kproc_init \/ eret

-----------------------------------------------------------------------------
(***************************************************************************)
(* Exceptions: int_dispatch, then the dispatch function of the vector.     *)
(***************************************************************************)
KernelStep(from, to) ==
  /\ pc = from
  /\ pc' = to
  /\ regs' \in REGS
  /\ UNCHANGED <<el, spsr, int_type, interrupted, window, esr, irq_key>>

Step(from, to) ==
  /\ KernelStep(from, to)
  /\ UNCHANGED <<masked, elr, suspended, dev_id, io_key>>

int_dispatch ==
  /\ Step("vector", CASE int_dispatch_tab[int_type] = "gicv2_dispatch" -> "iar"
                      [] int_dispatch_tab[int_type] = "kcall_dispatch" -> "call"
                      [] OTHER -> "epilogue")
  /\ UNCHANGED <<frames, irq_id, tables, gic, timer>>

\* Of two pending interrupts of the same priority the lower number is first.
gicv2_get_irq_id ==
  /\ Step("iar", "isr")
  /\ irq_id' = IF ~Signalled THEN SPURIOUS
               ELSE IF TIMER_IRQ \in Pending THEN TIMER_IRQ ELSE UART_IRQ
  /\ active' = IF irq_id' = SPURIOUS THEN active ELSE active \cup {irq_id'}
  /\ uart_edge' = (uart_edge /\ irq_id' # UART_IRQ)
  /\ UNCHANGED <<frames, tables, enabled, timer>>

Device == kdevs[irq_devices[irq_id]]

kdev_generic_isr ==
  /\ Step("isr", CASE Device = "timer" -> "action"
                   [] Device = "uart"  -> "uart_isr"
                   [] OTHER -> "eoi")
  /\ UNCHANGED <<frames, irq_id, tables, gic, timer>>

timer_isr_action ==
  /\ Step("action", "reset")
  /\ UNCHANGED <<frames, irq_id, tables, gic, timer>>

timer_isr_reset ==
  /\ Step("reset", "eoi")
  /\ generic_timer_reset
  /\ UNCHANGED <<frames, irq_id, tables, gic>>

uart_isr ==
  /\ Step("uart_isr", "eoi")
  /\ UNCHANGED <<frames, irq_id, tables, gic, timer>>

\* A dispatch that returns without telling the GIC.
NoEndOfInterrupt ==
  /\ Step("eoi", "epilogue")
  /\ UNCHANGED <<frames, irq_id, tables, gic, timer>>

gicv2_end_isr ==
  /\ Step("eoi", "epilogue")
  /\ active' = active \ {irq_id}
  /\ UNCHANGED <<frames, irq_id, tables, enabled, uart_edge, timer>>

\* What a call does to the frame is module Proc's and Uart's subject: the
\* status, or the registers of another process.
Answered(answers) ==
  \E answer \in answers : frames' = [frames EXCEPT ![Len(frames)] = answer]

KCALL_IO == {"write", "read", "poll_out"}

Called == IF esr \in DOMAIN kcalls THEN kcalls[esr] ELSE NONE

kcall_unsupported ==
  /\ Called = NONE
  /\ Step("call", "epilogue")
  /\ Answered({UNSUPPORTED})
  /\ UNCHANGED <<irq_id, tables, gic, timer>>

\* The number KCALL_BUFFER_SIZE passes the check of kcall_dispatch: the word
\* behind the table is called if it is not 0, which kcall_unsupported covers.
kcall_beyond ==
  /\ esr = KCALL_BUFFER_SIZE
  /\ \E place \in {"fault", "astray"} : Step("call", place)
  /\ UNCHANGED <<frames, irq_id, tables, gic, timer>>

\* A start of a program that leaves the caller's address in ELR_EL1.
StartsInMiddle ==
  /\ Called = "start" /\ KernelStep("call", "epilogue")
  /\ Len(suspended) + 1 < KPROC_MAX_COUNT /\ suspended' = Append(suspended, elr)
  /\ Answered(REGS)
  /\ UNCHANGED <<elr, masked, dev_id, io_key, irq_id, tables, gic, timer>>

\* kcall_proc_start: nothing but a status when the stack is full.  Otherwise
\* kproc_suspend, kproc_alloc, and kproc_init, whose copying fails if there
\* is no such program, or no block to copy it to.
kcall_proc_start ==
  /\ Called = "start"
  /\ \/ /\ Len(suspended) + 1 = KPROC_MAX_COUNT
        /\ KernelStep("call", "epilogue") /\ Answered(REGS)
        /\ UNCHANGED <<elr, suspended>>
     \/ /\ Len(suspended) + 1 < KPROC_MAX_COUNT
        /\ suspended' = Append(suspended, elr)
        /\ \/ KernelStep("call", "epilogue") /\ Answered(REGS) /\ elr' = "entry"
           \/ KernelStep("call", "fault") /\ UNCHANGED <<elr, frames>>
  /\ UNCHANGED <<masked, dev_id, io_key, irq_id, tables, gic, timer>>

\* kcall_proc_exit: the last process stays; otherwise kproc_restore.
kcall_proc_exit ==
  /\ Called = "exit"
  /\ KernelStep("call", "epilogue") /\ Answered(REGS)
  /\ IF suspended = <<>> THEN UNCHANGED <<elr, suspended>>
     ELSE /\ elr' = suspended[Len(suspended)]
          /\ suspended' = SubSeq(suspended, 1, Len(suspended) - 1)
  /\ UNCHANGED <<masked, dev_id, io_key, irq_id, tables, gic, timer>>

\* kcall_io_write, kcall_io_read and kcall_io_poll_out.
kcall_io ==
  /\ Called \in KCALL_IO
  /\ KernelStep("call", "kdev")
  /\ dev_id' \in DEVS
  /\ UNCHANGED <<masked, elr, suspended, io_key, frames, irq_id, tables, gic, timer>>

kcall_dispatch ==
  \/ kcall_unsupported \/ kcall_beyond
  \/ kcall_proc_start \/ kcall_proc_exit \/ kcall_io

\* kdev_io_write, kdev_io_read and kdev_io_pool_out: only the UART is of
\* type KDEV_IO.
KdevEntry == IF dev_id \in DOMAIN kdevs THEN kdevs[dev_id] ELSE NONE

KdevRefuses ==
  /\ KdevEntry # "uart"
  /\ Step("kdev", "epilogue")
  /\ Answered(REGS)
  /\ UNCHANGED <<irq_id, tables, gic, timer>>

\* Without a device, type and function are read from address 0, which is the
\* program's, or through a word that lies outside the table.
KdevMissing ==
  /\ KdevEntry = NONE
  /\ \E place \in {"fault", "astray"} : Step("kdev", place)
  /\ UNCHANGED <<frames, irq_id, tables, gic, timer>>

KdevForwards ==
  /\ KdevEntry = "uart"
  /\ Step("kdev", IF Called = "poll_out" THEN "io" ELSE "io_lock")
  /\ UNCHANGED <<frames, irq_id, tables, gic, timer>>

\* The function of the device: module Uart.  Read and write lock once more.
LockIo ==
  /\ KernelStep("io_lock", "io")
  /\ io_key' = masked
  /\ masked' = TRUE
  /\ UNCHANGED <<elr, suspended, dev_id, frames, irq_id, tables, gic, timer>>

DeviceWorks ==
  /\ Step("io", IF Called = "poll_out" THEN "epilogue" ELSE "io_unlock")
  /\ Answered(REGS)
  /\ UNCHANGED <<irq_id, tables, gic, timer>>

\* src[idx] and dst[idx] are the program's pointer, which may lead nowhere.
DeviceFails ==
  /\ Called \in {"read", "write"}
  /\ Step("io", "fault")
  /\ UNCHANGED <<frames, irq_id, tables, gic, timer>>

\* An unlock that does not restore what the lock has found.
UnlockAlways ==
  /\ KernelStep("io_unlock", "epilogue")
  /\ masked' = FALSE
  /\ UNCHANGED <<elr, suspended, dev_id, io_key, frames, irq_id, tables, gic, timer>>

UnlockIo ==
  /\ KernelStep("io_unlock", "epilogue")
  /\ masked' = io_key
  /\ UNCHANGED <<elr, suspended, dev_id, io_key, frames, irq_id, tables, gic, timer>>

ISR_EPILOGUE ==
  /\ pc = "epilogue"
  /\ regs' = frames[Len(frames)]
  /\ frames' = SubSeq(frames, 1, Len(frames) - 1)
  /\ pc' = "return"
  /\ UNCHANGED <<el, masked, elr, spsr, int_type, suspended, interrupted, window>>
  /\ UNCHANGED <<locals, tables, gic, timer>>

ReturnFromException ==
  /\ pc = "return"
  /\ pc' = elr
  /\ el' = spsr.el /\ masked' = spsr.masked
  /\ interrupted' = SubSeq(interrupted, 1, Len(interrupted) - 1)
  /\ UNCHANGED <<regs, elr, spsr, frames, int_type, suspended, window, locals, tables, gic, timer>>

\* The fault is an exception of the current level: a second frame, and the
\* address and state to return to from the call are overwritten.
KernelFaults ==
  /\ pc = "fault"
  /\ Enter("sync", "fault")
  /\ esr' \in FAULTS
  /\ UNCHANGED <<window, irq_id, irq_key, dev_id, io_key, tables, gic, timer>>

\* What is executed is not the kernel's code: nothing more is said of it.
Astray ==
  /\ pc = "astray"
  /\ UNCHANGED vars

Exception ==
  \/ int_dispatch
  \/ gicv2_get_irq_id \/ kdev_generic_isr \/ gicv2_end_isr
  \/ timer_isr_action \/ timer_isr_reset \/ uart_isr
  \/ kcall_dispatch
  \/ KdevRefuses \/ KdevMissing \/ KdevForwards
  \/ LockIo \/ DeviceWorks \/ DeviceFails \/ UnlockIo
  \/ KernelFaults \/ Astray
  \/ ISR_EPILOGUE \/ ReturnFromException

-----------------------------------------------------------------------------
(***************************************************************************)
(* The program.                                                            *)
(***************************************************************************)
UserComputes ==
  /\ pc \in Program
  /\ pc' \in Program
  /\ regs' \in REGS
  /\ UNCHANGED <<el, masked, saved, locals, tables, gic, timer>>

SyncException(number, resume) ==
  /\ pc \in Program
  /\ Enter("sync", resume)
  /\ esr' = number
  /\ UNCHANGED <<window, irq_id, irq_key, dev_id, io_key, tables, gic, timer>>

svc(call_id) == SyncException(call_id, "user")

\* A fault goes through the same vector, and no one looks at the class of
\* the exception: the low half of its syndrome is taken for a call.  A fault
\* for want of a level 0 entry has number 4, the one of poll_out.  The
\* program is resumed at the instruction that failed.
Faults(syndrome) == SyncException(syndrome, pc)

Next ==
  \/ Expire \/ UartEdge
  \/ TakeInterrupt
  \/ kernel_main
  \/ Exception
  \/ UserComputes
  \/ \E call_id \in CALLS : svc(call_id)
  \/ \E syndrome \in FAULTS : Faults(syndrome)

(***************************************************************************)
(* The kernel goes on, the counter of the timer reaches its value, and an  *)
(* interrupt that is signalled again and again while they are unmasked is  *)
(* taken.                                                                  *)
(***************************************************************************)
Fairness ==
  /\ WF_vars(kernel_main \/ Exception)
  /\ WF_vars(Expire)
  /\ SF_vars(TakeInterrupt)

Spec == Init /\ [][Next]_vars /\ Fairness

-----------------------------------------------------------------------------
(***************************************************************************)
(* Properties.                                                             *)
(***************************************************************************)

\* No exception, no interrupt, no timer and no call reaches a function that
\* is not there: the order of kernel_main and its lock see to the tables, and
\* a function for reading or writing is only ever taken from a device that
\* has one, however a program came to the call.  The kernel goes astray only
\* over the number of a device that is not registered, or over the one call
\* number the check at call.c:22 lets pass.
NoNullCall ==
  /\ pc = "vector" => int_dispatch_tab[int_type] # NONE
  /\ pc = "isr"    => Device # NONE
  /\ pc = "action" => timer_action # NONE
  /\ pc \in {"io_lock", "io"} => KdevEntry = "uart"
  /\ pc = "astray" => \/ Called \in KCALL_IO /\ dev_id \in DEVS \ {0, 1, 2}
                      \/ esr = KCALL_BUFFER_SIZE

\* Where the context that was interrupted goes on: where it was, or, if the
\* call has started a program, at the first instruction of that program, or,
\* if it has ended one, where the one below it had called.
GoesOn(before, place) ==
  \/ suspended = before.suspended /\ place = before.pc
  \/ Called = "start" /\ suspended = Append(before.suspended, before.pc) /\ place = "entry"
  \/ Called = "exit" /\ before.suspended = Append(suspended, place)

\* An exception returns to where it is to go on, at the same level and with
\* the same mask, be it a call, a fault or an interrupt, of the program or of
\* the kernel.  Only a call switches processes; all others leave the
\* registers as they were, too.  (A fault of the kernel has overwritten the
\* address and state of the call around it, which therefore never returns;
\* else ELR_EL1 and SPSR_EL1 differ afterwards, which a program cannot see.)
ExceptionIsTransparent ==
  [][ReturnFromException =>
       LET before == interrupted[Len(interrupted)]
       IN  /\ GoesOn(before, pc') /\ el' = before.el /\ masked' = before.masked
           /\ int_type # "low_el_aarch64_sync" =>
                regs' = before.regs /\ suspended = before.suspended]_vars

\* A program runs unprivileged and can be interrupted.  The exception is an
\* interrupt between irq_unlock and the eret of kproc_exec: it leaves EL1 in
\* SPSR_EL1, with which the first program then starts.
UserIsUnprivileged ==
  pc \in Program /\ ~window => el = "EL0" /\ ~masked

\* Interrupts come back, whatever the UART and programs do, as long as the
\* resets of the timer happen to leave it unmasked and the kernel itself is
\* not made to fault or to leave its code: its handler runs again and again.
TicksGoOn ==
  [](~timer.imask /\ pc \notin {"fault", "astray"}) => []<>(pc = "action")
=============================================================================
