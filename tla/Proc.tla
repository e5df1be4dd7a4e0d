-------------------------------- MODULE Proc --------------------------------
(***************************************************************************)
(* Processes (pivos/src/proc.c, pivos/src/call/proc.c and the stack of     *)
(* include/kernel/buffer/stack.h) over the memory contexts of module       *)
(* Context, with the hardware they drive: TTBR0_EL1, the TLB, SP_EL0,      *)
(* ELR_EL1 and the user registers.                                         *)
(*                                                                         *)
(* One CPU, no scheduler: a process runs until it makes a system call, and *)
(* the call runs with interrupts masked.  The kernel's steps are separate  *)
(* actions all the same, because the MMU walks the tables of TTBR0 at any  *)
(* moment, speculatively, and caches what it finds.  The block entries are *)
(* global (nG = 0), so that the ASID in TTBR0 separates nothing: a cached  *)
(* translation is used until it is flushed.                                *)
(***************************************************************************)
EXTENDS Context, Sequences

CONSTANTS
  KPROC_MAX_COUNT,    \* capacity of kproc_stack: 16
  PROGS,              \* indices of kproc_prog_tab
  REGS,               \* values of the registers x1 .. x30
  ADDRS,              \* user addresses, as values of sp_el0 and elr_el1
  KPROC_PROG_OFFSET,  \* where a program is loaded and starts
  DATA,               \* contents of a block beside the program in it
  OPEN_FROM           \* first page that the kernel half opens to EL0: 0x40000

ASSUME ProcAssumption ==
  /\ KPROC_MAX_COUNT \in Nat \ {0}
  /\ PROGS \subseteq Nat
  /\ REGS # {} /\ DATA # {}
  /\ KPROC_PROG_OFFSET \in ADDRS
  /\ TABLES_START + 3 * KPROC_MAX_COUNT <= BLOCK_PAGES
  /\ OPEN_FROM \in Nat
  /\ (KPROC_MAX_COUNT + 1) * BLOCK_PAGES <= OPEN_FROM
  /\ OPEN_FROM <= PERIPH_START

\* Stand-ins for the values of enum kstatus_proc.
KSTATUS_PROC_OK == 0
KSTATUS_PROC_STACK_FULL == -1
KSTATUS_PROC_LAST == -2

\* Every number beyond the end of kproc_prog_tab, which nobody checks.
BEYOND == -3

Requests == PROGS \cup {BEYOND}

X0 == Requests \cup {KSTATUS_PROC_OK, KSTATUS_PROC_STACK_FULL, KSTATUS_PROC_LAST}

VARIABLES
  s_bitmap,      \* claimed pages
  kernel_tables, \* tables memory_init has added so far
  tables,        \* entry 0 of every page, as a table
  len,           \* kproc_stack.len: the top process is kproc_buffer[len]
  kproc_buffer,  \* per process: level0_table and the suspended registers
  ttbr0,         \* level 0 table of the user half; NULL: the boot tables
  tlb,           \* cached translations of virtual address 0
  mem,           \* contents of every block-sized frame of memory
  cpu,           \* user registers: live, or in the frame rs and sp_el0, elr_el1
  pc,            \* "boot", "user", "stuck", or the next step of the kernel
  then,          \* where the kernel goes on after kproc_mem_switch
  prog           \* argument of the call in progress

memory == <<s_bitmap, kernel_tables, tables>>
vars == <<s_bitmap, kernel_tables, tables, len, kproc_buffer, ttbr0, tlb, mem, cpu, pc, then, prog>>

Procs == 1 .. KPROC_MAX_COUNT
Frames == 0 .. (PageCount \div BLOCK_PAGES)

\* A block entry keeps the block-aligned part of the address it is given.
Frame(page) == page \div BLOCK_PAGES

NO_TEXT == -1
Registers == [x0 : X0, regs : REGS, sp : ADDRS, elr : ADDRS]
Contents == [text : Requests \cup {NO_TEXT}, data : DATA]

Steps == {"suspend", "alloc", "init", "exec", "free", "restore", "msr", "tlbi"}

TypeOK ==
  /\ s_bitmap \subseteq Pages
  /\ kernel_tables \in 0 .. KERNEL_TABLES
  /\ tables \in [Pages -> Pages]
  /\ len \in 0 .. KPROC_MAX_COUNT
  /\ kproc_buffer \in [Procs -> [level0_table : Pages, suspend : Registers]]
  /\ ttbr0 \in Pages
  /\ tlb \subseteq Pages
  /\ mem \in [Frames -> Contents]
  /\ cpu \in Registers
  /\ pc \in {"memory_init", "boot", "user", "stuck"} \cup Steps
  /\ then \in Steps
  /\ prog \in Requests

\* kernel_main has called memory_init, which has set up the allocator.
Init ==
  /\ s_bitmap = ReservedRanges
  /\ kernel_tables = 0
  /\ tables = [p \in Pages |-> EMPTY]
  /\ len = 0
  /\ cpu \in {r \in Registers : r.sp = KPROC_PROG_OFFSET /\ r.elr = KPROC_PROG_OFFSET
                                  /\ r.x0 = KSTATUS_PROC_OK}
  /\ kproc_buffer = [i \in Procs |-> [level0_table |-> NULL, suspend |-> cpu]]
  /\ ttbr0 = NULL
  /\ tlb = {}
  /\ \E d \in DATA : mem = [f \in Frames |-> [text |-> NO_TEXT, data |-> d]]
  /\ pc = "memory_init"
  /\ then = "exec"
  /\ prog \in PROGS

(***************************************************************************)
(* The second part of memory_init maps the kernel regions one-to-one: of   *)
(* that, only the tables it adds, one page each, concern processes.        *)
(***************************************************************************)
MapKernelRegion ==
  /\ pc = "memory_init"
  /\ kernel_tables < KERNEL_TABLES
  /\ s_bitmap' = memory_allocator_claim_pages(s_bitmap, 1, 1).bitmap
  /\ kernel_tables' = kernel_tables + 1
  /\ UNCHANGED <<tables, len, kproc_buffer, ttbr0, tlb, mem, cpu, pc, then, prog>>

MemoryReady ==
  /\ pc = "memory_init"
  /\ kernel_tables = KERNEL_TABLES
  /\ pc' = "boot"
  /\ UNCHANGED <<memory, len, kproc_buffer, ttbr0, tlb, mem, cpu, then, prog>>

memory_init == MapKernelRegion \/ MemoryReady

-----------------------------------------------------------------------------
(***************************************************************************)
(* The MMU.  The boot tables map virtual address 0 to page 0.              *)
(***************************************************************************)
Walk ==
  IF ttbr0 = NULL THEN {0}
  ELSE IF Mapped(tables, ttbr0) THEN {Block(tables, ttbr0)} ELSE {}

\* Where an access to virtual address 0 of the user half may go.
Translations == tlb \cup Walk

\* The kernel half, which every process has: memory_init opens its blocks to
\* EL0 (AP = 01, mmu.c:187), all but those of the first GB, which the boot
\* tables hold already and of which it only changes the type.  Beyond them,
\* the peripherals are open too; what a program does to them is not modelled.
Open == OPEN_FROM .. (PERIPH_START - 1)

Speculate ==
  /\ Walk \ tlb # {}
  /\ tlb' = tlb \cup Walk
  /\ UNCHANGED <<memory, len, kproc_buffer, ttbr0, mem, cpu, pc, then, prog>>

-----------------------------------------------------------------------------
(***************************************************************************)
(* The stack of processes.                                                 *)
(***************************************************************************)
FullOffByOne == len > KPROC_MAX_COUNT

kbuffer_stack_full == len = KPROC_MAX_COUNT

kproc_count == len

Top == kproc_buffer[len]

(***************************************************************************)
(* kproc_mem_switch(proc), always called with the top process: two         *)
(* instructions that the MMU can tell apart.                               *)
(***************************************************************************)
SwitchThen(step) == pc' = "msr" /\ then' = step

msr_ttbr0_el1 ==
  /\ pc = "msr"
  /\ ttbr0' = Top.level0_table
  /\ pc' = "tlbi"
  /\ UNCHANGED <<memory, len, kproc_buffer, tlb, mem, cpu, then, prog>>

\* A switch that relies on the ASID and flushes nothing.
NoFlush ==
  /\ pc = "tlbi"
  /\ pc' = then
  /\ UNCHANGED <<memory, len, kproc_buffer, ttbr0, tlb, mem, cpu, then, prog>>

tlbi_vmalle1 ==
  /\ pc = "tlbi"
  /\ tlb' = {}
  /\ pc' = then
  /\ UNCHANGED <<memory, len, kproc_buffer, ttbr0, mem, cpu, then, prog>>

(***************************************************************************)
(* kproc_alloc: a new top process with a context of its own.               *)
(***************************************************************************)
kproc_alloc ==
  LET created == memory_create_context([bitmap |-> s_bitmap, tables |-> tables,
                                        table |-> NULL])
      mapped  == memory_map_region(created)
  IN  /\ len' = len + 1
      /\ kproc_buffer' = [kproc_buffer EXCEPT ![len + 1].level0_table = created.table]
      /\ s_bitmap' = mapped.bitmap
      /\ tables' = mapped.tables
      /\ kernel_tables' = kernel_tables

\* A start that loads the child without switching to its memory.
AllocWithoutSwitch ==
  /\ pc = "alloc"
  /\ kproc_alloc
  /\ pc' = IF len = 0 THEN "exec" ELSE "init"
  /\ UNCHANGED <<ttbr0, tlb, mem, cpu, then, prog>>

AllocStep ==
  /\ pc = "alloc"
  /\ kproc_alloc
  /\ SwitchThen(IF len = 0 THEN "exec" ELSE "init")
  /\ UNCHANGED <<ttbr0, tlb, mem, cpu, prog>>

(***************************************************************************)
(* kproc_init copies the program through the current translation of the    *)
(* user half and sets sp_el0 and elr_el1.  The entry of a program beyond   *)
(* the table is whatever lies there: any text of any size from anywhere.   *)
(***************************************************************************)
LoadText(page) == mem' = [mem EXCEPT ![Frame(page)].text = prog]

LoadAnything(page) ==
  \E d \in DATA : mem' = [mem EXCEPT ![Frame(page)] = [text |-> BEYOND, data |-> d]]

kproc_init ==
  \E page \in Translations :
    \/ prog \in PROGS /\ LoadText(page)
    \/ prog = BEYOND /\ LoadAnything(page)

\* kproc_init for the first process, then eret from kproc_exec.
ExecStep ==
  /\ pc = "exec"
  /\ kproc_init
  /\ cpu' = [cpu EXCEPT !.sp = KPROC_PROG_OFFSET, !.elr = KPROC_PROG_OFFSET]
  /\ pc' = "user"
  /\ UNCHANGED <<memory, len, kproc_buffer, ttbr0, tlb, then, prog>>

\* kproc_init for a child, then the return from kcall_proc_start.
InitStep ==
  /\ pc = "init"
  /\ kproc_init
  /\ cpu' = [cpu EXCEPT !.sp = KPROC_PROG_OFFSET, !.elr = KPROC_PROG_OFFSET,
                        !.x0 = KSTATUS_PROC_OK]
  /\ pc' = "user"
  /\ UNCHANGED <<memory, len, kproc_buffer, ttbr0, tlb, then, prog>>

\* The copy of a text beyond the table may leave mapped memory.  The handler
\* of the fault returns to the instruction that faulted, with interrupts
\* masked (module Interrupts), so that the call never ends.
CopyFaults ==
  /\ pc = "init"
  /\ prog = BEYOND
  /\ kproc_init
  /\ pc' = "stuck"
  /\ UNCHANGED <<memory, len, kproc_buffer, ttbr0, tlb, cpu, then, prog>>

CopyFaultsAgain ==
  /\ pc = "stuck"
  /\ UNCHANGED vars

kproc_exec(p) ==
  /\ pc = "boot"
  /\ prog' = p
  /\ pc' = "alloc"
  /\ UNCHANGED <<memory, len, kproc_buffer, ttbr0, tlb, mem, cpu, then>>

(***************************************************************************)
(* The system call kcall_proc_start: the caller passes the program in x0.  *)
(***************************************************************************)
StackFull ==
  /\ pc = "user"
  /\ kbuffer_stack_full
  /\ cpu' = [cpu EXCEPT !.x0 = KSTATUS_PROC_STACK_FULL]
  /\ UNCHANGED <<memory, len, kproc_buffer, ttbr0, tlb, mem, pc, then, prog>>

\* The entry of kproc_prog_tab that the caller names.
Requested == IF cpu.x0 \in PROGS THEN cpu.x0 ELSE BEYOND

kproc_start ==
  /\ pc = "user"
  /\ ~kbuffer_stack_full
  /\ prog' = Requested
  /\ SwitchThen("suspend")
  /\ UNCHANGED <<memory, len, kproc_buffer, ttbr0, tlb, mem, cpu>>

kproc_suspend ==
  /\ pc = "suspend"
  /\ kproc_buffer' = [kproc_buffer EXCEPT ![len].suspend = cpu]
  /\ pc' = "alloc"
  /\ UNCHANGED <<memory, len, ttbr0, tlb, mem, cpu, then, prog>>

kcall_proc_start == StackFull \/ kproc_start

(***************************************************************************)
(* The system call kcall_proc_exit.                                        *)
(***************************************************************************)
LastProcess ==
  /\ pc = "user"
  /\ kproc_count = 1
  /\ cpu' = [cpu EXCEPT !.x0 = KSTATUS_PROC_LAST]
  /\ UNCHANGED <<memory, len, kproc_buffer, ttbr0, tlb, mem, pc, then, prog>>

kproc_exit ==
  /\ pc = "user"
  /\ kproc_count # 1
  /\ pc' = "free"
  /\ UNCHANGED <<memory, len, kproc_buffer, ttbr0, tlb, mem, cpu, then, prog>>

kcall_proc_exit == LastProcess \/ kproc_exit

\* A kproc_free that pops the stack before it looks at the top.
FreePopsFirst ==
  LET freed == memory_destroy_context([bitmap |-> s_bitmap, tables |-> tables,
                                       table |-> NULL],
                                      kproc_buffer[len - 1].level0_table)
  IN  /\ len' = len - 1
      /\ s_bitmap' = freed.bitmap
      /\ tables' = freed.tables
      /\ kernel_tables' = kernel_tables

kproc_free ==
  LET freed == memory_destroy_context([bitmap |-> s_bitmap, tables |-> tables,
                                       table |-> NULL], Top.level0_table)
  IN  /\ len' = len - 1
      /\ s_bitmap' = freed.bitmap
      /\ tables' = freed.tables
      /\ kernel_tables' = kernel_tables

FreeStep ==
  /\ pc = "free"
  /\ kproc_free
  /\ SwitchThen("restore")
  /\ UNCHANGED <<kproc_buffer, ttbr0, tlb, mem, cpu, prog>>

\* A restore that copies the registers of the child into the frame.
RestoreWithoutRegs ==
  /\ pc = "restore"
  /\ cpu' = [Top.suspend EXCEPT !.x0 = KSTATUS_PROC_OK, !.regs = cpu.regs]
  /\ pc' = "user"
  /\ UNCHANGED <<memory, len, kproc_buffer, ttbr0, tlb, mem, then, prog>>

\* kproc_restore fills the frame rs, then kcall_proc_exit stores its status
\* in rs[0]: x0 of the process that is resumed.
kproc_restore ==
  /\ pc = "restore"
  /\ cpu' = [Top.suspend EXCEPT !.x0 = KSTATUS_PROC_OK]
  /\ pc' = "user"
  /\ UNCHANGED <<memory, len, kproc_buffer, ttbr0, tlb, mem, then, prog>>

-----------------------------------------------------------------------------
(***************************************************************************)
(* The running process: it computes, or writes to memory through its own   *)
(* half or the part of the kernel half that is open to it.                 *)
(***************************************************************************)
UserComputes ==
  /\ pc = "user"
  /\ \E p \in Requests, r \in REGS, s \in ADDRS, e \in ADDRS :
       cpu' = [x0 |-> p, regs |-> r, sp |-> s, elr |-> e]
  /\ UNCHANGED <<memory, len, kproc_buffer, ttbr0, tlb, mem, pc, then, prog>>

UserWrites ==
  /\ pc = "user"
  /\ \E page \in Translations \cup Open, d \in DATA :
       mem' = [mem EXCEPT ![Frame(page)].data = d]
  /\ UNCHANGED <<memory, len, kproc_buffer, ttbr0, tlb, cpu, pc, then, prog>>

KernelStep ==
  \/ msr_ttbr0_el1 \/ tlbi_vmalle1
  \/ AllocStep \/ ExecStep \/ InitStep \/ CopyFaults \/ CopyFaultsAgain
  \/ kproc_suspend \/ FreeStep \/ kproc_restore

Next ==
  \/ memory_init
  \/ \E p \in PROGS : kproc_exec(p)
  \/ kcall_proc_start \/ kcall_proc_exit
  \/ KernelStep
  \/ UserComputes \/ UserWrites
  \/ Speculate

Spec == Init /\ [][Next]_vars

-----------------------------------------------------------------------------
(***************************************************************************)
(* Properties.                                                             *)
(***************************************************************************)
TablePages(i) ==
  LET level0 == kproc_buffer[i].level0_table
  IN  {level0, Level1(tables, level0), Level2(tables, level0)}

BlockPages(i) == Run(Block(tables, kproc_buffer[i].level0_table), BLOCK_PAGES)

ProcPages(i) == TablePages(i) \cup BlockPages(i)

KernelPages ==
  (0 .. (RESERVED_END + kernel_tables - 1)) \cup (PERIPH_START .. (PageCount - 1))

\* The memory of a process (tables and block) is its own: it shares no page
\* with another process, with the kernel's reserved pages or with the
\* peripherals, and its tables do not lie in its block.  This is what
\* kproc_alloc and kproc_free must maintain over any sequence of starts and
\* exits, with an allocator that sees only half of its bitmap.
Isolation ==
  \A i \in 1 .. len :
    /\ ProcPages(i) \cap KernelPages = {}
    /\ TablePages(i) \cap BlockPages(i) = {}
    /\ \A j \in 1 .. len : i # j => ProcPages(i) \cap ProcPages(j) = {}

\* No page is lost and none is used without being claimed: the bitmap holds
\* exactly the kernel's pages and those of the live processes.
Accounting ==
  s_bitmap = KernelPages \cup UNION {ProcPages(i) : i \in 1 .. len}

\* Whenever a process runs, the user half leads to its own block only: no
\* translation of an exited child, of a suspended parent or of the boot
\* tables is left in the TLB, although the MMU could walk the tables of
\* TTBR0 at every moment of the call, the moment in which they were freed
\* (proc.c:133-134) included.  And the memory that the kernel half opens to
\* every program (mmu.c:187) is free: no table and no block lies in it.  The
\* peripherals, open too, are claimed and excepted.
OwnTranslation ==
  pc = "user" =>
    /\ Translations = {Block(tables, Top.level0_table)}
    /\ s_bitmap \cap Open = {}

\* The layout that the first-fit allocator and the last-in first-out order
\* of processes lead to: the i-th process has the i-th three pages after the
\* kernel's for its tables and the i-th block of memory.
Layout(kernel, procs) ==
  (0 .. (RESERVED_END + kernel + 3 * procs - 1))
    \cup (BLOCK_PAGES .. ((procs + 1) * BLOCK_PAGES - 1))
    \cup (PERIPH_START .. (PageCount - 1))

FirstTable(i) == TABLES_START + 3 * (i - 1)

Chain(i) ==
  /\ kproc_buffer[i].level0_table = FirstTable(i)
  /\ tables[FirstTable(i)] = FirstTable(i) + 1
  /\ tables[FirstTable(i) + 1] = FirstTable(i) + 2
  /\ tables[FirstTable(i) + 2] = i * BLOCK_PAGES

LifoLayout ==
  /\ s_bitmap = Layout(kernel_tables, len)
  /\ \A i \in 1 .. len : Chain(i)

(***************************************************************************)
(* The inductive invariant of the proofs: the layout, what the steps of    *)
(* the kernel know of the depth of the stack, and which translations may   *)
(* be cached when.                                                         *)
(***************************************************************************)
Doing(step) ==
  \/ pc = step
  \/ pc \in {"msr", "tlbi"} /\ then = step
  \/ pc = "stuck" /\ step = "init"

Control ==
  /\ pc \in {"memory_init", "boot"} => len = 0
  /\ pc # "memory_init" => kernel_tables = KERNEL_TABLES
  /\ pc = "alloc" => len < KPROC_MAX_COUNT
  /\ pc = "user" => len > 0
  /\ pc = "free" => len > 1
  /\ pc \in {"msr", "tlbi"} => then \in {"suspend", "init", "exec", "restore"}
  /\ Doing("suspend") => len > 0 /\ len < KPROC_MAX_COUNT
  /\ Doing("init") => len > 1
  /\ Doing("exec") => len = 1
  /\ Doing("restore") => len > 0

\* The steps between the end of a switch and the next change of the top.
Settled == {"user", "suspend", "init", "stuck", "exec", "free", "restore"}

Switched ==
  /\ pc \in Settled \cup {"tlbi"} => ttbr0 = Top.level0_table
  /\ pc \in Settled => tlb \subseteq {Block(tables, Top.level0_table)}

IInv == TypeOK /\ LifoLayout /\ Control /\ Switched

(***************************************************************************)
(* The abstract stack of processes.  A process that is being started is    *)
(* not on it before its program is loaded; one that exits leaves it when   *)
(* its context is destroyed, and its parent then already has the registers *)
(* it will be resumed with.                                                *)
(***************************************************************************)
Started == IF Doing("init") \/ Doing("exec") THEN len - 1 ELSE len

AbstractProc(i) ==
  LET r == IF i = Started /\ ~Doing("restore")
             THEN cpu
             ELSE [kproc_buffer[i].suspend EXCEPT !.x0 = KSTATUS_PROC_OK]
      m == mem[Frame(Block(tables, kproc_buffer[i].level0_table))]
  IN  [x0 |-> r.x0, regs |-> r.regs, sp |-> r.sp, elr |-> r.elr,
       text |-> m.text, data |-> m.data]

Mode ==
  CASE pc = "user"       -> "user"
    [] pc = "free"       -> "exiting"
    [] Doing("restore")  -> "resuming"
    [] \/ Doing("suspend") \/ Doing("init")
       \/ pc = "alloc" /\ len > 0 -> "starting"
    [] OTHER             -> "booting"

AbstractStack == [i \in 1 .. Started |-> AbstractProc(i)]

Abstract == INSTANCE ProcAbs WITH stack <- AbstractStack, mode <- Mode

\* The kernel implements the abstract stack of processes: a suspended
\* process keeps its registers and memory whatever its descendants do, and
\* is resumed with them.
RefinesProcAbs == Abstract!Spec
=============================================================================
