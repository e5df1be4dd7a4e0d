# Specifications of PiVOS

PiVOS is a small AArch64 kernel for one CPU: a page allocator, translation
tables, nested processes, an interrupt-driven UART, a GICv2 and a timer, and a
handful of system calls. This directory holds TLA+ modules that model it from
its source (`pivos/`), the TLC configurations that check them on small
instances, and theorems about them that TLAPS has checked for every value of
the constants.

Paths below are relative to `pivos/` of the repository. `PROJECT.json` lists
the components, the runs, the mutants (each property with a plausible bug that
breaks it), the source lines of every definition, the hazards of the code and
the theorems.

## 1. The system

| Component | Source | State | Operations | Interacts with |
|---|---|---|---|---|
| Page allocator | `src/memory/allocator.c` | the bitmap | claim/free one page, a range, a run | memory contexts call it through two function pointers |
| Memory contexts | `src/memory.c`, `src/memory/mmu.c` | translation tables in claimed pages | create, map a region, destroy, look up | processes; the MMU reads the tables at any time |
| Processes | `src/proc.c`, `src/call/proc.c`, `include/kernel/buffer/stack.h` | the stack of processes, TTBR0, the TLB, saved registers | first start, start of a child, exit | contexts, system calls, the CPU |
| UART driver | `src/dev/uart.c` | two rings, the device registers | write, read, poll, interrupt handler, initialisation | ring buffer, interrupt controller, the device |
| Ring buffer | `include/kernel/buffer/ring.h` | indices and size | write, read, free, reset | UART driver |
| Interrupt dispatch | `src/int.c`, `src/int/int_table.S`, `include/kernel/int.h` | handler table, DAIF, the frame of registers | register, dispatch, mask/unmask | everything |
| Interrupt controller driver | `src/dev/gicv2.c` | distributor registers, `irq_devices` | register/enable an interrupt, dispatch | devices |
| Timer driver | `src/dev/generic_timer.c` | interval, action | initialise, handler, set action | interrupt controller |
| Devices and their calls | `src/dev.c`, `src/call/dev.c` | `kdevs` | register, forward to a device | UART, GIC, timer |
| System calls | `src/call.c` | `kcalls` | register, dispatch | processes, devices |
| Boot | `src/boot/*.S`, `src/main.c` | boot tables | set up memory, devices, calls; first process | everything |

What is hard here is not preemption (there is no scheduler, and system calls
run with interrupts masked) but

* the hardware that runs beside the kernel: the MMU walks and caches tables
  while they are created and destroyed, the UART fills and drains its FIFOs
  between two register accesses, and an edge-triggered interrupt remembers only
  edges;
* long sequences of legal calls: starts and exits must give back every page
  exactly once, although the allocator's search sees only half of its bitmap;
* boundaries: a full process stack, a full ring, a run of pages that crosses
  bitmap entries, page 0 that looks like NULL, an address that an `int` cannot
  hold;
* what a program hands over and no one checks: pointers, numbers of devices and
  of programs. An access of the kernel that fails is an exception inside a call,
  which nothing handles.

What makes each component correct:

| Component | Correct when |
|---|---|
| Page allocator | a claim returns the first aligned run that fits and marks exactly it; a free gives back exactly the run; failure claims nothing and can be told from success; the search ends |
| Memory contexts | a mapped region leads to memory of its own, with the type asked for; mapping over what is mapped moves nothing and disturbs no neighbour; the pages of two contexts are disjoint; destruction gives back every page of a context and no other |
| Processes | a process keeps memory and registers while its descendants run; no stale translation is used; the stack never overflows, the last process never leaves |
| Ring buffer | it is a bounded first-in first-out queue |
| UART driver | bytes are neither lost, repeated nor reordered; accepted bytes are sent; calls end; a reader gets what arrived |
| Interrupts, GIC, timer | an exception that returns goes on where it must, an interrupt leaves no trace; registers of other interrupts are left alone; the timer is re-armed |
| Devices, system calls | an identifier reaches what was registered under it, and only that |
| Boot | no handler runs before what it uses is set up; memory is mapped one-to-one; what the MMU may have cached of the running kernel never changes |

## 2. The modules

| Module | Models | Checked by |
|---|---|---|
| `Allocator` | every function of `allocator.c` as an operator from a bitmap (the set of claimed pages) to a bitmap | used by all below; `AllocatorProofs` |
| `ClaimPages` | the search loop of `memory_allocator_claim_pages`, one action per iteration | run `claim_search`; `ClaimPagesProofs` |
| `Context` | creation, mapping and destruction of a process's context, on a memory state | used by `Proc`; run `mmu_regions` |
| `AddressSpace` | what a memory context promises: a map from virtual pages to memory | refined by `Mmu` |
| `Mmu` | `mmu.c` and the functions of `memory.c` that use it, for any region: creation, mapping, splitting of blocks, look-up, destruction | runs `mmu_regions`, `mmu_head`, `mmu_two_blocks` (`MCMmu`); `MmuProofs`, `AddressSpaceProofs` |
| `Boot` | the tables of the boot code and `memory_init`, on top of `Mmu`, with the TLB | run `boot_tables` (`MCBoot`); `MmuProofs` |
| `ProcAbs` | what the kernel promises its processes | refined by `Proc` |
| `Proc` | `proc.c`, `call/proc.c`, `memory_init`, the MMU, the running program | runs `proc_nested`, `proc_pair`; `ProcProofs` |
| `Queue` | a bounded first-in first-out queue | refined by `Ring` |
| `Ring` | `ring.h`, index by index | run `ring_queue`; `UartProofs` |
| `Uart` | `uart.c` with the device, its interrupt and the program | runs `uart_output`, `uart_both`; `UartProofs` |
| `Interrupts` | `kernel_main`, exceptions and their return, the tables of handlers, devices and calls, device calls, faults of programs and of the kernel, the timer | run `boot_and_interrupts` (`MCInterrupts`); `InterruptsProofs` |
| `GicAbs` | what the interrupt controller's driver promises: settings per interrupt | refined by `Gic` |
| `Gic` | the distributor registers of `gicv2.c`, fields packed several to a register | run `gic_fields` (`MCGic`); `GicProofs` |

### Allocator and ClaimPages

The bitmap is the set of claimed pages; a page is entry times `PAGES_PER_ENTRY`
plus offset. `memory_allocator_claim_multiple_pages` and
`memory_allocator_free_multiple_pages` go entry by entry and keep the code's
masks and offsets: the claim resets `offset` after the first entry
(allocator.c:50), the free does not (60-67), so that it is exact only for runs
that start an entry or stay within one; the kernel frees no others.

The search copies an entry into `uint32_t current_entry` (149), so that it sees
the upper half of the entry only. `CHECKED_FROM` is the first offset it sees
(32 in the kernel, with entries of 64), and `Seen` the set of visible pages.
`FirstFit` is the reference: the least aligned run whose visible pages are
free. That processes are kept apart all the same is not obvious and is what
`Proc` shows: tables come from `claim_page`, which sees everything, and blocks
are whole entries.

`ClaimPages` has one action per turn of the loop: the entry looks free, the
entry is occupied (with the skip of 157-162), the run is found, or the memory
is exhausted.

### Context and Proc

A process has one region: one block at virtual address 0. Its context uses
entry 0 of one table per level, and `tables` maps each page to that entry. The
operators of `Context` are the functions of `mmu.c` for that region, with the
allocator's operators inside; the bitmap they leave is part of the action.

`Proc` has one action per step between which the MMU can observe a difference:
`kproc_suspend`, `AllocStep` (`kproc_alloc`), `msr_ttbr0_el1` and
`tlbi_vmalle1` (the two halves of `kproc_mem_switch`), `InitStep`, `ExecStep`,
`FreeStep`, `kproc_restore`. `Speculate` caches, at any moment, what the tables
of TTBR0 map virtual address 0 to. Entries are global (nG is 0), so the ASID in
TTBR0 separates nothing: a cached translation serves every process until it is
flushed. Before the first process TTBR0 holds the boot tables, which map address
0 to page 0.

`cpu` is the user registers: live while the program runs, in the frame `rs`
and in `sp_el0`/`elr_el1` during a call. A program may compute anything
(`UserComputes`) and write wherever the user half leads, and to the part of the
kernel half that is open to it (`UserWrites`): blocks have AP = 01 (mmu.c:187),
those `memory_init` maps included. `Open` is that part, from the second gigabyte
(`OPEN_FROM`) up to the peripherals; the first is in the boot tables, which
`memory_init` gives a type and nothing else. That nothing of a process lies in
`Open` is part of `OwnTranslation`, and follows from where processes lie
(`ProcAssumption`: all of them below `OPEN_FROM`). The peripherals are open as
well; what a program does to them is not modelled.

`kproc_start` does not compare the number of a program with its table
(proc.c:98). `BEYOND` stands for every number behind it: what lies there is
copied as a program, and either the copy stays within the block of the new
process (`LoadAnything`), or it leaves mapped memory and fails at the same
instruction for ever (`CopyFaults`, after which nothing but the MMU moves).

`memory_init` is called with 4 GB, so that the peripherals reach to the end of
memory (`PERIPH_START .. PageCount - 1`); it adds three tables
(`KERNEL_TABLES`), one per `MapKernelRegion`.

`ProcAbs` is a stack of processes with a mode: only the top one changes while
the mode is "user"; a start puts the requested program on top (anything, for a
number beyond the table), an exit takes the top off, and the parent resumes with
the registers it had, apart from the status in x0. `Proc` implements it under `AbstractProc` and `Mode`.

### Mmu and AddressSpace

One action is one turn of a loop of `mmu.c`, or what stands between two loops;
`pc` is the loop. `tables` maps each page that is a table to its entries;
`walk`, `unit`, `l3_idx`, `block`, `slot` and `table_stack` are the locals of the
code, reset when they are dead. Addresses and sizes are counted in pages, except
in `memory_mmu_insert`, where the code confuses pages and bytes: `Head_count`
is the distance to the next block in bytes, which it passes on as a number of
units. Counts wrap at `COUNTS` (2^32) and addresses at `ADDRESSES`, as the
unsigned types of the code do.

| Action | Code |
|---|---|
| `memory_map_region`, `InsertReturns` | `memory_mmu_insert`: the calls of `mmu_map_units` it makes, in `todo` |
| `TraverseStarts`, `TraverseEmpty`, `TraverseTable`, `SplitLinks`, `SplitFills` | `mmu_traverse_and_alloc_tables`, a level per step; a split links its table before it fills it |
| `UnitsStart`, `UnitCreated`, `UnitOverridden`, `UnitIsTable`, `UnitsDone` | the loop over the entries of a table in `mmu_map_units` |
| `PageCreated`, `PageOverridden` | its inner loop: a block asked for where a table of pages is |
| `SlotEmpty`, `SlotTaken`, `DestroyReturns` | `memory_mmu_destroy_table` |
| `EntrySkipped`, `EntryIsTable`, `EntryIsPage`, `EntryIsBlock`, `EntryDone` | the loop of `mmu_destroy_entry`, with its stack of places |

`fault` names the first thing that goes wrong where C would go on, and the
kernel is modelled up to it (`AfterFault`):

| `fault` | Line | In the run |
|---|---|---|
| `no_memory` | mmu.c:79, 493, 513: NULL is taken for a page | not reached |
| `in_use` | allocator.c:149: the search for a block overlooks half of an entry and finds pages that are claimed (`Got`) | reached |
| `overflow` | mmu.c:255-262: a field is promoted to `int` and shifted; an address from 2 GB on (`INT_PAGES`) comes out as another one (`new_table_base`) | reached |
| `assert` | mmu.c:233: an entry that is no table is asked for its table | not reached |
| `wrong_table` | mmu.c:479: the table of one unit is taken for that of another | not reached |
| `beyond_table` | mmu.c:429: the place behind the last entry is read, if that entry was a table | reached |

The safety properties say what holds up to a fault, for any regions.
`CallsReturn` says which faults end a call in the instance: the three that are
reached, and none of the others.

`AddressSpace` is a map from virtual pages to physical ones with a type.
Mapping proceeds by pieces of the region; a page that has memory keeps it and
takes the new type, any other gets memory that no page of the context has, and
nothing else changes. `Mmu` implements it: `Space` is what the MMU makes of the
tables, `Pending` what the calls in `todo` have still to map. Two intervals are
hidden by the mapping, because the code has them: between `SplitLinks` and
`SplitFills` a block that is being split is not mapped at all (it counts as the
block), and a context that is being destroyed counts as gone. No context is
current in either: module `Boot` shows that the kernel's own is never split, and
a process's is mapped before the switch to it; what is current during
destruction is the subject of `Proc`.

`mmu_find` is the loop of mmu.c:348-361 turn by turn (`FindTurn`), with the
remainder it takes before it looks at the entry, so that the index of line 365
is computed from what is left of the address (`Found`). `Stop` is the walk of
the MMU, which takes each index out of the whole address. `Lookups` compares
the two for every page: where there is a level 3 table they agree, and where the
walk ends above, the loop has lost the index and answers with the first entry
of that table, whatever it is. Nothing in the repository calls it.

`AgreesWithContext` ties `Context`, the short form of the same code on which
the proofs about processes rest, to `Mmu`: for the one region of a process both
claim the same pages and build the same tables.

### Boot

`Boot` extends `Mmu` by the boot code: the three tables in the image are zeroed
(their pages hold anything before), linked, and filled with the blocks of the
first gigabyte; then the MMU is switched on and `memory_init` maps its regions
one-to-one into the same tables. `tlb` holds translations the MMU may have cached,
at any moment from then on. Nothing flushes it, so that `TlbIsCurrent` is what
the code must guarantee instead: no translation that was ever there changes.
`BootLeaves` hands over to `Proc`: all memory is mapped (`MapsMemory`), and what is
claimed and where tables lie (`ProcLayout`) is the state from which `Proc`
starts. `check_core`, `zero_bss` and the
change to EL1 run before; `BootInit` and `Init` of `Interrupts` are what
they leave.

### Ring and Queue

`Ring` is the code's indices; `Queue` a sequence. The refinement mapping reads
`size` bytes from `read_idx` on, modulo the capacity. Its proofs are in
`UartProofs`, next to those of its only user, whose rings they justify.

### Uart

One action goes from one access of a device register to the next. System calls
and handler run with interrupts masked, so that the driver does not interleave
with itself; `Transmit` and `Receive` happen between any two accesses. The rings
are the sequences of `Queue`: theorem `RingImplementsQueue` lets them be.

The device is modelled from how the driver uses it (`external` in the map):
FIFOs of `DEPTH`, a transmit interrupt raised when its FIFO falls to its level
and lowered when it is filled above, a receive interrupt as long as the FIFO
holds its level of bytes, one line for both, and the GIC, which sets the
interrupt pending on a rising edge of that line (trigger 2, main.c:45) and
forgets it when `gicv2_dispatch` acknowledges it.

The program writes bytes 1, 2, ... and, like a program that trusts the result
of `write`, offers again what a call did not take. Bytes polled out bypass the
ring and may overtake what is in it: `SentInOrder` says of the written bytes
only that what is on the wire, in the FIFO and in the ring, in this order, is
all of what was accepted, once and in order (`InOrder`, `AllIn`), and
`ReceivedInOrder` the same of input, whose bytes may also be dropped.

### Interrupts

The kernel is a program counter: each call of `kernel_main` is a step, then the
steps of the handler that an exception enters. Any step of the kernel with
PSTATE.I clear, and any step of the program, can be interrupted. `Enter` is the
exception entry with `ISR_PROLOGUE`: there is one ELR_EL1 and one SPSR_EL1,
and only x0 to x30 go to the frame. A step of the kernel leaves any registers
behind (`regs' \in REGS`), so that a frame which is not restored shows. A start
and an exit write ELR_EL1 themselves (proc.c:77 and 91): the exception then
returns into the program that was started, or into the one below (`suspended`),
and `GoesOn` says which of the three it must be.

Handlers and calls run with interrupts masked, so that only one exception nests:
a fault of the kernel's own access. `src[idx]` and `dst[idx]` of the UART's
functions are the program's pointer (`DeviceFails`; uart.c:16 and 39), and the
copy of a program may fail as well. The exception comes from the current level
(`KernelFaults`): a second frame, ELR_EL1 and SPSR_EL1 overwritten,
`int_not_implemented_dispatch` (int.c:22), and back to the instruction that
failed, for ever and masked. `TypeOK` and `ExceptionIsTransparent` are stated
with it; `TicksGoOn` has as premise that it does not happen.

The GIC has both interrupts at priority 0, as `setup_devices` registers them:
none is signalled while one is active. The timer is level-sensitive, like every
private interrupt; edges of the UART come at any moment, and its handler is one
step (module `Uart` has the rest). `generic_timer_reset` builds the control
word in a local whose IMASK bit it does not set: the bit is nondeterministic.

`window` remembers an interrupt between `irq_unlock` (main.c:90) and the `eret`
of `kproc_exec`. Its return leaves EL1 in SPSR_EL1, which `kproc_exec` does not
write: the first program then runs at EL1, and if the interrupt came after
`kproc_init`, ELR_EL1 holds the address of that `eret` itself.
`UserIsUnprivileged` holds outside this window, and outside only. That SPSR_EL1
is 0 before (EL0, unmasked) is the state the boot leaves after a reset; nothing
in the code sets it.

A program calls the kernel or faults. No one looks at the class of a
synchronous exception: `kcall_dispatch` takes the low half of the syndrome for
the number of a call, so that a fault for want of a level 0 entry is a
`poll_out` (number 4), others are answered with -1 in x0, and the program is
resumed at the instruction that failed. Calls of a device go on with `kcall_io`,
the check of its type, and the second, inner lock of the UART's functions
(`LockIo`, `UnlockIo`).

Two numbers of a program lead the kernel through memory that is no table of its
own. The number of a device is checked neither against `kdevs` nor for an entry
that is NULL (dev.c:26): type and function are then read at address 0, which is
the program's block, or behind the table (`KdevMissing`). The call number
`KCALL_BUFFER_SIZE` passes the check of `kcall_dispatch` (call.c:22), and the
word behind the table is called if it is not 0 (`kcall_beyond`). What follows is
a refusal, a fault, or code that is not the kernel's (`Astray`), of which nothing
more is said: `NoNullCall` says that these two are the only ways there.

### Gic

A register is the set of its one bits. `SetField` is the driver's read, clear,
or and write, with its quotient and remainder; `GicAbs` has one value per
interrupt. What the registers hold before the first call is arbitrary.

## 3. The runs

| Run | Instance | Shows |
|---|---|---|
| `claim_search` | 3 entries of 4 pages, 2 visible; requests of 1, 2, 3, 6 pages; alignments 1, 2, 4; every initial bitmap | `SearchInvariant` (the skip passes over no candidate), `ResultIsFirstFit`, `NullClaimsNothing`, `FreeIsExact`, `ClaimReturns` |
| `proc_nested` | 3 processes, 84 pages, blocks of 16, a block open to programs; two programs and the numbers beyond them | `Isolation`, `Accounting`, `OwnTranslation`, `LifoLayout`, the inductive invariant `IInv`, and `RefinesProcAbs` |
| `proc_pair` | 2 processes, two values for addresses and other registers | `RefinesProcAbs` where registers of parent and child differ |
| `mmu_regions` | tables of 2, 3, 3, 2 entries; 28 pages, of which the search for a block sees every other one and an `int` addresses 20; five regions, two types; two sets of pages in use before | `TreeIsSound`, `Accounting`, `Lookups`, `AgreesWithContext`, `RefinesAddressSpace`, `CallsReturn` |
| `mmu_head` | one region, a page before a block | violated: `InsideRegion` |
| `mmu_two_blocks` | a page, then two blocks over it | violated: `AssertsHold` |
| `boot_tables` | 256 pages, blocks of 8, tables of 2, 5, 8, 8; two values of uninitialised entries; three pages watched in the TLB | `TlbIsCurrent`, `BootLeaves`, `BootEnds` |
| `ring_queue` | capacity 3, values 0..2, drops of 0, 1, 2, 4 | `RingInv`, `RefinesQueue` |
| `uart_output` | ring 2, FIFOs 3, 6 bytes written, 1 polled | `TxWakes`, `TxDrains` |
| `uart_both` | ring and FIFOs 2, 3 bytes written, 4 received, 1 polled | `SentInOrder`, `ReceivedInOrder`, `CallsReturn`, `RxByPolling` |
| `boot_and_interrupts` | 2 values of the registers; up to 3 processes; calls 0, 1, 2 and 9, which is behind the table; faults 0, 1, 4, 6; devices 2, 0, 3, -1; tables of 4 and 9 | `NoNullCall`, `UserIsUnprivileged`, `ExceptionIsTransparent`, `TicksGoOn` |
| `gic_fields` | registers of 8 bits, fields of 4, 2 and 1; interrupts 2, 3, 5, 9 | `RefinesGicAbs` |

Why the bounds are enough. `claim_search`: six pages span at least two entries
and up to three, with every alignment relative to the entries and to the
visible half; all bitmaps are initial. `proc_nested`: with three processes the
stack is full, and exits and restarts reuse every page; the third has a
grandparent whose context must survive two switches. Memory goes on behind them
with a block that is open to programs, and then the peripherals. `ring_queue`:
the indices wrap at each operation, and a drop can ask for more than there is.
`uart_output`: writes of three bytes overflow the ring and the FIFO, so that
calls are cut short, and the FIFO goes through its level many times.
`uart_both`: four bytes fill ring and FIFO, and a byte is dropped when nothing
reads.

`boot_and_interrupts`: exit, start, a call that goes to the UART's locked
functions, and the number behind the table; the unlocked `poll_out` is reached
through a fault (4), as exit and start are (0 and 1), and another fault has no
number of a call. Of the devices one is the UART, one has no such functions, one
entry is empty and one number lies before the table. With three processes there
is a start that is refused, an exit that is, and one in the middle of the stack;
two values tell a restored register from another.

`mmu_regions`: the regions are pages up to and over a block, a block alone (as a
process has it), blocks on both sides of the end of a level 2 table, and a page
in the last block of such a table, of both types; every order of them gives
blocks that are split, pages that are filled up to blocks, types that are
overridden, and an end of a table that is passed (mmu.c:429). They avoid the two
findings below: a head before a block, and two blocks over a page of the second.
The first set of pages in use makes tables and blocks go around them, with blocks
on both sides of page 20; the second leaves holes in which only a search that
overlooks the hidden half finds room for a block. 28 pages never run out, which
`CallsReturn` confirms. `boot_tables`: the boot code fills one level 2 table of
the four, `memory_init` the other three; the peripherals begin inside the last.

`gic_fields`: two interrupts share every register, a third some of them, a
fourth none.

`MAX_OUT`, `MAX_POLL` and `MAX_IN` bound the bytes; a program may still read,
or write nothing, for ever, so that no run turns deadlock checking off.

### Fairness

* `ClaimPages`: weak fairness of the loop. It runs in the kernel, which nothing
  preempts for ever.
* `Uart`: weak fairness of the kernel's steps and of the transmitter; strong
  fairness of taking a pending interrupt, because interrupts are unmasked
  between any two calls of the program. Nothing is assumed of the program or of
  the input. `RxByPolling` says what it needs of the program in its premise.
* `Interrupts`: weak fairness of the kernel and of the timer's counter; strong
  fairness of taking a signalled interrupt, since a program that makes calls
  masks and unmasks them for ever. Nothing is assumed of program or UART, whose
  edges never stop; `TicksGoOn` has as premise that IMASK stays clear and that
  the kernel neither faults nor leaves its code: it is false otherwise.
* `Mmu`: weak fairness of `Continue`, the kernel inside a call; nothing obliges
  anyone to call. `Boot`: weak fairness of the kernel, which runs alone.
* `Proc`, `Ring` and `Gic` state safety only: nothing obliges a program to call.

### Findings

Two runs are expected to be violated; each checks what a comment or an assertion
of `mmu.c` says.

* `mmu_head`: "Alloc pages until reach desired size or allign to alloc blocks"
  (mmu.c:128). Lines 129 to 132 pass the distance to the next block, in bytes, as
  a number of pages: a region of at least a block that starts beside a block
  boundary is mapped beyond its end.
* `mmu_two_blocks`: "Given entry is not a table entry" (the assertion of
  mmu.c:233). Line 479 asks for the table of the first unit of the loop instead
  of the unit at hand. Assertions are compiled in debug builds only
  (`ASSERT_LEVEL=3`, `meson.build`); without them a block is used as a table.

Both are findings about `mmu.c` as a component. The kernel itself does not reach
them: it maps only regions that start at a block boundary, and no region over
another.

What else the code does wrong no comment, document or test of the repository
denies, so that no run is expected to be violated by it: the search that overlooks
half of an entry, the shift of an `int`, the index past a table, the index that
`mmu_find` loses, the unchecked numbers and pointers of programs, the window
before the first `eret`. They are in the models as they are in the code, and under
`hazards` with the properties that name them.

### What the UART runs do not claim

With input and output at once `TxWakes` and `TxDrains` are false, and so would be
their counterparts for input. Line and interrupts are never cleared by the driver,
only by moving the FIFOs past their levels. As long as one cause lasts, the
line stays up and the other cause raises no edge:

* after output of more than `TXLEVEL` bytes has drained, the transmit interrupt
  stays raised until the next long write, and received bytes wait for a `read`;
* when the receive ring is full, the receive interrupt stays raised, and output
  left in the ring waits for the next call that syncs.

`read` looks at the device before it looks at the ring, hence `RxByPolling`. No
comment, document or test of the repository says otherwise, so this is listed
under the hazards and not as a finding.

## 4. The proofs

TLAPS has checked the following; nothing is assumed but the constants'
assumptions (`AllocatorAssumption`, `RequestAssumption`, `ContextAssumption`,
`ProcAssumption`, `RingAssumption`, `UartAssumption`, `GicAssumption`,
`InterruptsAssumption`, `MmuAssumption`, `SplitAssumption`, `BootAssumption`) and
the hypotheses stated in a theorem (below). TLC evaluates the assumptions on every run, and the
kernel's own values satisfy them. None of them is about what a program does:
numbers of devices are any integers, those of calls and programs any.

| Theorem | Module | Says |
|---|---|---|
| `ClaimMultipleIsExact`, `FreeMultipleIsExact`, `ClaimPageIsLowest` | `AllocatorProofs` | the allocator's entry-by-entry functions compute what their names say |
| `TypesHold`, `SearchInvariantHolds`, `FirstFitFound`, `NullClaimsNothingHolds` | `ClaimPagesProofs` | the loop of `claim_pages` finds the first fit and nothing else, for entries of any size, any visible part of them and all requests |
| `FreeIsExactHolds` | `ClaimPagesProofs` | a free takes exactly the run out of the bitmap |
| `InvariantHolds` | `ProcProofs` | `Spec => []IInv` |
| `TypesHold`, `LayoutHolds`, `IsolationHolds`, `AccountingHolds`, `OwnTranslationHolds` | `ProcProofs` | the invariants that the runs check, for any number of processes and size of memory |
| `ProcImplementsProcAbs` | `ProcProofs` | `Proc` implements `ProcAbs`: what the kernel promises a process holds at any depth of nesting |
| `RingInvariantHolds` | `UartProofs` | indices and size agree |
| `RingImplementsQueue` | `UartProofs` | the ring implements `Queue`, for every capacity |
| `TypesHold`, `SentInOrderHolds`, `ReceivedInOrderHolds` | `UartProofs` | no byte is lost, repeated or reordered, for rings, FIFOs and levels of any size |
| `TxWakesHolds`, `TxWakesWithoutInput` | `UartProofs` | without a receive interrupt, what waits in the ring is always owed an interrupt |
| `InvariantHolds`, `TypesHold` | `MmuProofs` | up to the first fault the tables of a context are a tree, and every walk and loop of `mmu.c` keeps to it |
| `LookupsHold` | `MmuProofs` | the loop of `mmu_find`: where it agrees with the MMU, and what it answers where it does not |
| `TreeIsSoundHolds`, `AccountingHolds` | `MmuProofs` | that tree holds exactly the pages claimed for the context, each of them once |
| `AgreesWithContextHolds` | `MmuProofs` | `Context`, on which the proofs about processes rest, claims and leads to the same pages as `Mmu` |
| `MmuImplementsAddressSpace` | `AddressSpaceProofs` | `Mmu` implements `AddressSpace` up to the first fault: mapping a region maps each of its pages once, to memory of nobody else, and changes no other page; destroying leaves nothing |
| `BootInvariantHolds`, `TlbIsCurrentHolds`, `BootLeavesHolds` | `MmuProofs` | while and after the kernel's own tables are built: what the TLB holds is never stale, and in the end exactly memory is mapped, one-to-one, for every layout of memory that `BootAssumption` allows |
| `TypesHold` | `GicProofs` | fields never run out of their registers |
| `GicImplementsAbs` | `GicProofs` | `Gic` implements `GicAbs`, for registers and fields of any width |
| `TypesHold` | `InterruptsProofs` | types; above all, nothing nests but a fault of the kernel itself, once |
| `NoNullCallHolds`, `UserIsUnprivilegedHolds`, `TransparencyHolds` | `InterruptsProofs` | the other safety properties of the run, for tables of any size, any depth of processes, any numbers of devices, calls and faults and any values of the registers |

**The search.** `Loop` is `SearchInvariant` as the code has it: `current_page`
is a multiple of the alignment, no earlier candidate looks free, and the pages
between it and the loop's position do. What it needs beside: a run of which
nothing is left ends within memory, and the bitmap the search started from is
not touched before the run is complete. The step that matters is the skip of an
occupied entry (`OccupiedStep`): every multiple of the alignment between the old
candidate and the new one has the occupied page in its run. `FirstFit` is a CHOOSE
of a least element; that there is one (`LowestNumber`) comes from the library's
well-foundedness of `<`, without induction.

**Processes.** `Isolation` is not inductive: that a new block does not overlap
an old one depends on where the allocator finds it, hence on the whole bitmap.
`IInv` says exactly which bitmap: `LifoLayout` gives the i-th process the i-th
three pages after the kernel's for its tables and the i-th block of memory,
`Control` ties the kernel's step to the depth of the stack, and `Switched` says
which translations can be cached when. A start extends the layout by one: the
lowest free page is the next one (`ClaimPageIsLowest`), and the first fitting
block is the next block, because each earlier one has a claimed page that the
search can see. `ProcAssumption` (the tables of `KPROC_MAX_COUNT` processes fit
below the first block, and their blocks below `OPEN_FROM`) excludes the failure
of an allocation, which the code does not handle. An exit takes the last process
off the layout (`FreeMultipleIsExact`). `OwnTranslation` follows from `Switched`
and the layout: after the write of TTBR0 only the new context is walked, the flush
removes everything older, and until the next switch the top process does not
change; and what the layout claims ends below `OPEN_FROM`, but for the
peripherals.

`ProcImplementsProcAbs` needs one thing beside `IInv`, called `HandOver`: what the
steps of a call leave to each other. From `kproc_suspend` on, the program to
start is the one the caller has named in x0 (or `BEYOND`), and the registers saved are those the user had;
from `kproc_init` on the new process has its program loaded. With it each
step is a step of `ProcAbs` or hidden: a start shows at `InitStep`, four steps
after the call, and an exit at `FreeStep`, when the parent already shows the
registers `kproc_restore` is still to load. The rest is `BlockIsFrame` (the abstract memory of a process is its
block) and `SettledTranslation` (a user's access goes there, whatever is cached).

**Mmu.** A walk has at most three hops, but which table has which level is not
in the state: the page of a destroyed level 3 table may become a level 1 table
later. `Tree(lev)` describes the tables for a function `lev` from pages to
levels, and `IInv` says that there is one. Every table but the first has exactly
one link to it (`Linked`); blocks are in level 2 tables (`Shaped`), so that a
split adds a level 3 table; `Walking` ties the locals of walk and loop to the tree.
Destruction takes the tree apart from the leaves: a link whose place the stack has
passed is dead (`Live`), and the tables in the stack (`Places`) are held by
their place there instead (`Destruction`).

Ownership of pages is a second invariant, `Data`: every page claimed in the
bitmap belongs to others, to one live entry (`OneOwner`), to the level 0 table,
to a place of the stack, or to the block being split, and to one of these only
(`Apart`); blocks are aligned to their size, so that freeing one is exact
(`FreeMultipleIsExact`, which is why `BlocksAlign` is needed). `DataIsTree`
derives `TreeIsSound` and `Accounting` from it. The three theorems on pages say
what they need:

* `MAP_TYPE = "ALLOC"`: a context that maps one-to-one owns no memory. The
  kernel's own is of this kind; `BootLeavesHolds` is about it.
* `BlocksAlign`: a block is whole entries of the bitmap or divides one. In the
  kernel a block is eight entries.

That no fault has happened is not a hypothesis but part of the state: `Data` is
preserved by every step that names none, because a step which hands out a page in
use, splits a block wrongly or takes the wrong table says so. So the theorems hold
for an allocator that sees any part of its entries, for blocks at any address and
for regions that overlap in any way; what they do not say is that no fault
happens. For the region of a process that is what `Proc` shows (`LayoutHolds`: a
visible claimed page in each earlier block), and `CallsReturn` checks it in an
instance.

`LookupsHold` follows the loop of `mmu_find` down the tree. `NestedRemainder` is
the arithmetic: the remainder of a remainder, when one size divides the other, is
the remainder of the whole, so that each turn looks at the entry the MMU looks at
(`FindIs`). Where the loop stops at an entry that is no table, the remainder by
that level's size is already gone, and what is left of the address gives index 0.

`AgreesWithContextHolds` is about the allocator's choices, and no invariant of the
state at rest gives them: the block that is mapped now was found when other
pages were claimed. But it was found when exactly the pages of others and the
chain above it were, if the chain is all there is now, because an entry that is
used stays used until the context is destroyed. `InOrder` says this for each
member of the chain level 0, 1, 2, block, under the condition that no entry but the first of
a table is used (`OnlyFirst`), which no step makes true again once it is false. Then
`Data` gives the bitmap of each moment, and `Context` claims the same pages in the same order
(`MappedIs`). The theorem assumes that a block is whole entries of the bitmap, as
`Context` does (`BLOCK_ENTRIES`).

`MmuImplementsAddressSpace` needs to know which pages of the abstract map an
entry stands for. A walk is a sequence of hops, each of which takes the index of
one level out of the address (`Hop`, `Read`). A table has one link only, so
that all addresses whose walk reaches a table differ in nothing that the
levels above have taken (`HopsMeet`); an entry is therefore read for exactly the
run of addresses with one quotient (`EntryPagesAre`), and writing it
changes the map there and nowhere else (`EntryWritten`). That the entry which is
written belongs to the call in progress is an invariant of its own, `Following`:
the walk of a call is where the MMU's walk for its address leads, and the calls
that remain lie ahead of it in the region. `InsertCovers` shows that the head,
blocks and tail of `memory_mmu_insert` cover the region without gap or overlap.
`MappedClaimed` and `Data` give that new memory is nobody's. A split changes
nothing in the abstract map: its link counts as the block, until the table is
filled and leads to the same pages (`SplitLinksRefines`, `SplitFillsRefines`).

A block that the search finds over pages in use, a split that an `int` turns into
another address and the table of a wrong unit are steps with a fault, which the
refinement does not count. The theorem has one hypothesis besides the first two above:

* `RegionFits`: a region ends within the addresses and its number of pages is
  counted without wrapping; and where it has a head and blocks,
  `memory_mmu_insert` counts the head right. It does not for others
  (mmu.c:129, the finding of `mmu_head`), and those do break the refinement.

The run `mmu_regions`, in which TLC checks the refinement, satisfies all three.

**Boot.** The kernel's tables are described by two numbers: there are `n` level 2
tables, and the first `m` blocks of memory are mapped (`Built(n, m)`, with every entry
of every table). `BootShape` says which `n` and `m` belong to each step of the boot
code and each place in the loops of `mmu.c`: where block `b` is next, the first
`Reached(b)` are mapped, `b` itself or, while `memory_init` goes over the first
gigabyte again, all of that. Each step keeps the tables or adds one block
(`BlockAdded`) or one empty table (`TableAdded`); to override a block of the first
gigabyte changes nothing, because `memory_init` gives it the type it has; and no
split is reached, since every call begins at a block boundary (`InsertOf`).
`TranslateIs` turns `Built` into a statement on all virtual pages, from which
`TlbIsCurrent` follows (`Reached` never decreases), and `BootLeaves` where `b` is the
end of memory. `memory_allocator_claim_page` finds the pages of the tables one after the
other because what is claimed is known exactly (`Claims`). `BootAssumption` says that memory is
four level 1 regions with the peripherals in the last, that image, bitmap and
tables fit below them, and that neither addresses nor counts of memory wrap.

**Ring.** `RingInv` is inductive as it stands. The refinement has one lemma per
operation on the contents read through `read_idx`.

**Uart.** `Accepted` says what a write has already put into ring or FIFO while
its call is under way: `idx` bytes, and one more between the access that takes a
byte and the step that counts it. With `Control`, where the loops can be, and
`Sending`, the order of wire, FIFO, the byte in hand and ring, this is inductive.
Sequences are moved by four lemmas: a byte goes from the front of one part to the
end of the one before (`MoveOn`), comes in at the end (`AtTheEnd`), is polled out in
between (`PolledBetween`), or leaves. `TxWakesHolds` has the hypothesis that no receive
interrupt is raised, because with one the property is false (section 3); the corollary is the case without
input, which is the one run `uart_output` checks. The proof found that the guards of `Return` overlapped in the model,
which had made its CASE depend on TLC's order; they are disjoint now.

**Gic.** Two interrupts with the same quotient have different remainders, so
that their fields start a width or more apart (`FieldsDisjoint`); `TypeOK` is
inductive and every step of `Gic` is one of `GicAbs`.

**Interrupts.** None of the four is inductive: all depend on which steps an
exception can come between. `IInv` has five parts beside the types. `Masking`
says who can be interrupted: before the lock of `kernel_main` nothing is enabled
in the GIC, under it and in every handler PSTATE.I is set, the inner lock of the
UART's functions included, which finds it set and leaves it so. Hence
(`Nesting`) an exception finds the stack of frames empty, unless it is a fault
of the kernel inside a call, which returns to where it failed before it can be
followed by anything else. `Saving` says that ELR_EL1, SPSR_EL1 and the last frame
are those of the last exception, but for the address that a start or an exit has
put there, which is where `GoesOn` wants it; when the kernel has faulted, those of
the call are lost (`Lost`), and the call never comes to its return. That only
calls overwrite the frame needs that an interrupt is not dispatched as one.
`Tables` says what each table holds from which step of `kernel_main` on, and over
which numbers the kernel can leave its code; `Privilege` follows SPSR_EL1 from
reset to the first `eret`.

**Only model-checked.** Every safety property and refinement of the passing runs has a
theorem. What is left to TLC is liveness (`ClaimReturns`, `TxDrains`, `CallsReturn`,
`RxByPolling`, `TicksGoOn`, `BootEnds`): liveness under fairness is beyond the
prover.

## 5. What is not modelled

* `check_core`, `zero_bss` and the change to EL1: straight-line code that runs
  once, before anything else; the models start from what it leaves.
* In `Mmu`: attributes of an entry other than its type, which are constants;
  levels above the first of a region that is not mapped from level 0
  (`memory_map_region` always starts there); memory of more than one context at
  a time, which is `Proc`'s subject (here others have `reserved`).
* The enable and mask bits `dev_gicv2_init` and `dev_uart_init` set, and the
  length of the timer's interval: no effect on a property above.
* `dev_uart_kdev_pool_in`: nothing calls it.
* `libc.c`, `assert.c`, the example programs and the build: no behaviour of
  their own. A failed allocation is excluded by assumption in `Proc` (above).
* What follows a fault of `Mmu`, and what the kernel does once it executes what is
  not its code (`Astray`): the models stop there.
* A program's pointer that leads into mapped memory of the kernel: read and write
  follow it like any other. `Uart` takes the buffers of a program as its own, and
  `Interrupts` distinguishes only pointers that fail.
* The peripherals, open to programs like the rest of the kernel half: what a
  program writes to a device's registers itself.
* Barriers: the two instructions of a switch take effect in program order.

## 6. Plan

In this order; all of it is done.

1. `Allocator`, `ClaimPages`, `Context`, `ProcAbs`, `Proc`, with the proof of
   `IInv`.
2. `Queue`, `Ring`, with both theorems.
3. `Uart`.
4. `AddressSpace`, `Mmu`, `Boot`.
5. `Interrupts`, `GicAbs`, `Gic`, with the proof that `Gic` implements `GicAbs`.
6. In `Interrupts`: faults of programs, device calls and the types of devices.
7. Proofs: the loop of `ClaimPages` computes `FirstFit` (an inductive form of
   `SearchInvariant`); `Proc` implements `ProcAbs`; `TxWakes`, `SentInOrder`
   and `ReceivedInOrder` of `Uart`; the safety of `Interrupts`; of `Mmu`, that
   the tables stay a tree and own their pages; of `Boot`, `TlbIsCurrent` and
   `BootLeaves`.
8. The agreement of `Context` with `Mmu` for the region of a process.
9. The proof that `Mmu` implements `AddressSpace`.
