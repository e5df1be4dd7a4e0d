------------------------------ MODULE ProcAbs ------------------------------
(***************************************************************************)
(* What the kernel promises its processes: a stack of at most              *)
(* KPROC_MAX_COUNT processes of which only the top one runs.  A process    *)
(* starts a child on top of itself and is resumed, exactly as it was, when *)
(* the child exits; nobody but a process itself changes its registers or   *)
(* its memory, and the last process cannot exit.                           *)
(***************************************************************************)
EXTENDS Integers, Sequences

CONSTANTS
  KPROC_MAX_COUNT,    \* capacity of the process stack
  PROGS,              \* program numbers
  REGS,               \* values of the registers x1 .. x30
  ADDRS,              \* user addresses, as values of sp and elr
  KPROC_PROG_OFFSET,  \* where a program is loaded and starts
  DATA                \* contents of a process's memory beside its program

KSTATUS_PROC_OK == 0
KSTATUS_PROC_STACK_FULL == -1
KSTATUS_PROC_LAST == -2

\* Every number that names no program.
BEYOND == -3

Texts == PROGS \cup {BEYOND}

X0 == Texts \cup {KSTATUS_PROC_OK, KSTATUS_PROC_STACK_FULL, KSTATUS_PROC_LAST}

VARIABLES
  stack,  \* sequence of [x0, regs, sp, elr, text, data]
  mode    \* "user": the top process runs; otherwise what the kernel is doing

absvars == <<stack, mode>>

n == Len(stack)

Process == [x0 : X0, regs : REGS, sp : ADDRS, elr : ADDRS, text : Texts, data : DATA]

Init == stack = <<>> /\ mode = "booting"

Fresh(x0, regs, prog, data) ==
  [x0 |-> x0, regs |-> regs, sp |-> KPROC_PROG_OFFSET, elr |-> KPROC_PROG_OFFSET,
   text |-> prog, data |-> data]

From(before, after) == mode = before /\ mode' = after

\* The kernel starts the first process, with whatever its registers hold.
Exec ==
  /\ From("booting", "user")
  /\ \E prog \in PROGS, x0 \in X0, regs \in REGS, data \in DATA :
       stack' = <<Fresh(x0, regs, prog, data)>>

\* The running process computes, or writes its memory.
Run ==
  /\ From("user", "user")
  /\ stack' \in Seq(Process) /\ Len(stack') = n
  /\ stack'[n].text = stack[n].text
  /\ \A i \in 1 .. (n - 1) : stack'[i] = stack[i]

\* A process calls the kernel, which touches nothing of it meanwhile.
CallStart ==
  /\ From("user", "starting")
  /\ n < KPROC_MAX_COUNT
  /\ stack' = stack

CallExit ==
  /\ From("user", "exiting")
  /\ n > 1
  /\ stack' = stack

\* A child runs the program its parent asked for, something unknown if there
\* is no such program, and inherits the registers of its parent, but not its
\* memory.
TextOf(x0) == IF x0 \in PROGS THEN x0 ELSE BEYOND

Start ==
  /\ From("starting", "user")
  /\ \E data \in DATA :
       stack' = Append([stack EXCEPT ![n].x0 = KSTATUS_PROC_OK],
                       Fresh(KSTATUS_PROC_OK, stack[n].regs, TextOf(stack[n].x0), data))

StartFails ==
  /\ From("user", "user")
  /\ n = KPROC_MAX_COUNT
  /\ stack' = [stack EXCEPT ![n].x0 = KSTATUS_PROC_STACK_FULL]

\* The child is gone, then its parent runs again as it was.
Exit ==
  /\ From("exiting", "resuming")
  /\ stack' = SubSeq(stack, 1, n - 1)

Resume ==
  /\ From("resuming", "user")
  /\ stack' = stack

ExitFails ==
  /\ From("user", "user")
  /\ n = 1
  /\ stack' = [stack EXCEPT ![1].x0 = KSTATUS_PROC_LAST]

Next ==
  \/ Exec \/ Run
  \/ CallStart \/ Start \/ StartFails
  \/ CallExit \/ Exit \/ Resume \/ ExitFails

Spec == Init /\ [][Next]_absvars
=============================================================================
