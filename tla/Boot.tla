-------------------------------- MODULE Boot ---------------------------------
(***************************************************************************)
(* The kernel's own tables: what the boot code builds before it switches   *)
(* the MMU on (pivos/src/boot/boot.S, boot/mmu.S), and what memory_init    *)
(* (src/memory.c) adds to them afterwards with the functions of Mmu, while *)
(* the kernel runs in the memory they map and the MMU walks them at any    *)
(* time.  No step of either flushes the TLB.                               *)
(*                                                                         *)
(* level0_table stands for TTBR1_EL1 as well as for the kernel's context,  *)
(* which memory_init gives the same table: the MMU is on when it is set.   *)
(***************************************************************************)
EXTENDS Mmu

CONSTANTS
  MMU_SPACE,    \* mmu_space_start: the first of the three boot tables
  IMAGE_END,    \* first page after the image, kernel_end: just after them
  BITMAP_PAGES, \* pages of the allocator's bitmap
  PERIPH_START, \* peripherials_start
  JUNK,         \* what an entry may hold before it is zeroed
  WATCHED       \* pages whose translations the TLB may hold

KERNEL_TABLES == 3

K == INSTANCE Context WITH BLOCK_ENTRIES <- SIZE[2] \div PAGES_PER_ENTRY

\* Memory is four level 1 regions (4 GB), the peripherals are its last blocks;
\* the tables that memory_init adds lie below them.  Addresses of memory do not
\* wrap, nor do counts of its blocks.
ASSUME BootAssumption ==
  /\ MMU_SPACE \in Nat \ {NULL} /\ IMAGE_END = MMU_SPACE + 3
  /\ BITMAP_PAGES \in Nat \ {0} /\ K!TABLES_START <= PERIPH_START
  /\ PageCount = 4 * SIZE[1] /\ PageCount < SIZE[0]
  /\ PERIPH_START \in (3 * SIZE[1] + 1) .. (PageCount - 1) /\ PERIPH_START % SIZE[2] = 0
  /\ SIZE[2] % PAGES_PER_ENTRY = 0
  /\ PageCount < ADDRESSES /\ 4 * ENTRIES[2] < COUNTS
  /\ MAP_TYPE = "ONE_TO_ONE"
  /\ JUNK # {} /\ WATCHED \subseteq VAS

NORMAL == 0
DEVICE == 1

VARIABLES
  step,  \* of the boot code, of memory_init, or "done"
  x0,    \* the block create_entries_loop has reached
  tlb    \* for each watched page: its cached translation, or UNMAPPED

bootVars == <<vars, step, x0, tlb>>

Level1 == MMU_SPACE + 1
Level2 == MMU_SPACE + 2

\* Memory holds anything after a reset; the MMU is off.
BootInit ==
  /\ \E junk \in [Levels -> JUNK] :
       tables = [p \in MMU_SPACE .. Level2 |->
                   [i \in Indices(p - MMU_SPACE) |-> junk[p - MMU_SPACE]]]
  /\ level0_table = NULL
  /\ step = "zero_mmu_space" /\ x0 = 0 /\ tlb = [va \in WATCHED |-> UNMAPPED]
  /\ bitmap = {} /\ reserved = {} /\ pc = "idle"
  /\ region = NO_REGION /\ todo = <<>> /\ walk = NOWHERE /\ unit = 0 /\ l3_idx = 0
  /\ block = EMPTY_ENTRY /\ slot = 0 /\ table_stack = <<>> /\ fault = "none"

\* Only the space of the first table.
ZeroFirst ==
  /\ step = "zero_mmu_space"
  /\ tables' = [tables EXCEPT ![MMU_SPACE] = Zeroed(0)]
  /\ step' = "setup_tables"
  /\ UNCHANGED <<reserved, bitmap, level0_table, pc, request, cursor, down, fault, x0, tlb>>

zero_mmu_space ==
  /\ step = "zero_mmu_space"
  /\ tables' = [p \in MMU_SPACE .. Level2 |-> Zeroed(p - MMU_SPACE)]
  /\ step' = "setup_tables"
  /\ UNCHANGED <<reserved, bitmap, level0_table, pc, request, cursor, down, fault, x0, tlb>>

setup_tables ==
  /\ step = "setup_tables"
  /\ tables' = [tables EXCEPT ![MMU_SPACE][0] = mmu_create_table_entry(Level1),
                              ![Level1][0] = mmu_create_table_entry(Level2)]
  /\ step' = "create_entries_loop"
  /\ UNCHANGED <<reserved, bitmap, level0_table, pc, request, cursor, down, fault, x0, tlb>>

\* The loop goes on while x0 is below 1 GB, one level 1 region.
create_entries_loop ==
  /\ step = "create_entries_loop"
  /\ tables' = [tables EXCEPT ![Level2][x0 \div SIZE[2]] = mmu_create_block_entry(2, x0, NORMAL)]
  /\ x0' = x0 + SIZE[2]
  /\ step' = IF x0' < SIZE[1] THEN step ELSE "setup_registers"
  /\ UNCHANGED <<reserved, bitmap, level0_table, pc, request, cursor, down, fault, tlb>>

setup_registers ==
  /\ step = "setup_registers"
  /\ level0_table' = MMU_SPACE
  /\ step' = "memory_init"
  /\ UNCHANGED <<reserved, bitmap, tables, pc, request, cursor, down, fault, x0, tlb>>

memory_init ==
  /\ step = "memory_init"
  /\ bitmap' = K!ReservedRanges
  /\ step' = "normal_memory_region_1"
  /\ UNCHANGED <<reserved, tables, level0_table, pc, request, cursor, down, fault, x0, tlb>>

\* The regions memory_init maps, one after the other; memory ends where the
\* peripherals do, so that the last one is empty.
KernelRegion ==
  [normal_memory_region_1 |-> [va |-> 0, size |-> PERIPH_START, type |-> NORMAL],
   peripherals_region     |-> [va |-> PERIPH_START, size |-> PageCount - PERIPH_START, type |-> DEVICE],
   normal_memory_region_2 |-> [va |-> PageCount, size |-> 0, type |-> NORMAL]]

After == [normal_memory_region_1 |-> "peripherals_region",
          peripherals_region     |-> "normal_memory_region_2",
          normal_memory_region_2 |-> "done"]

map_kernel_region ==
  /\ step \in DOMAIN KernelRegion
  /\ memory_map_region(KernelRegion[step])
  /\ step' = After[step]
  /\ UNCHANGED <<reserved, x0, tlb>>

\* mmu.c at work for the region.
Mapping == Continue /\ UNCHANGED <<step, x0, tlb>>

\* The kernel goes on: module Interrupts.
Finished == step = "done" /\ pc = "idle"

Rest_of_kernel == Finished /\ UNCHANGED bootVars

Kernel ==
  \/ zero_mmu_space \/ setup_tables \/ create_entries_loop \/ setup_registers
  \/ memory_init \/ map_kernel_region \/ Mapping

MmuOn == level0_table # NULL

\* The MMU walks the tables at any time and keeps what it finds.
Speculate(va) ==
  /\ MmuOn
  /\ tlb[va] = UNMAPPED /\ Translate(tables, va) # UNMAPPED
  /\ tlb' = [tlb EXCEPT ![va] = Translate(tables, va)]
  /\ UNCHANGED <<vars, step, x0>>

BootNext == Kernel \/ (\E va \in WATCHED : Speculate(va)) \/ Rest_of_kernel

BootSpec == BootInit /\ [][BootNext]_bootVars /\ WF_bootVars(Kernel)

-----------------------------------------------------------------------------
\* A translation that the TLB holds stays that of the tables, between any two
\* writes: the kernel runs in this memory and nothing flushes the TLB, so
\* that memory_init must never move, retype or split what is mapped, not
\* even for a moment.
TlbIsCurrent ==
  \A va \in WATCHED : tlb[va] # UNMAPPED => tlb[va] = Translate(tables, va)

MapsMemory ==
  \A va \in VAS :
    Translate(tables, va) =
      IF va \in Pages
        THEN [page |-> va, type |-> IF va < PERIPH_START THEN NORMAL ELSE DEVICE]
        ELSE UNMAPPED

ProcLayout ==
  /\ bitmap = (0 .. (K!TABLES_START - 1)) \cup (PERIPH_START .. (PageCount - 1))
  /\ DOMAIN tables = (MMU_SPACE .. Level2) \cup (K!RESERVED_END .. (K!TABLES_START - 1))

\* In the end all memory is mapped one-to-one, the peripherals as device
\* memory, whatever the tables' pages held at first, and nothing else is
\* mapped; and what is claimed is what module Proc starts from: the pages up
\* to TABLES_START and the peripherals.  The tables that memory_init needed
\* are exactly KERNEL_TABLES, and none lies in the image or the bitmap.
BootLeaves == Finished => MapsMemory /\ ProcLayout

\* The boot gets through memory_init.
BootEnds == <>Finished
=============================================================================
