------------------------------ MODULE Context ------------------------------
(***************************************************************************)
(* Memory contexts of processes: memory.c and the part of memory/mmu.c it  *)
(* reaches for the one region a process has (kproc_region: one block of    *)
(* BLOCK_PAGES pages at virtual address 0).                                *)
(*                                                                         *)
(* That region uses entry 0 of one table of each level 0, 1 and 2, so a    *)
(* table is modelled by its entry 0: EMPTY, or the page of the next        *)
(* table (levels 0 and 1) or of the block (level 2).  `tables` maps every  *)
(* physical page to the entry 0 it would hold as a table.                  *)
(*                                                                         *)
(* The operators take and return a memory state m, a record with the       *)
(* bitmap, the tables and the table the walk has reached.                  *)
(***************************************************************************)
EXTENDS Allocator

CONSTANTS
  BLOCK_ENTRIES,  \* bitmap entries of a block: 8 (512 pages, 2 MB)
  IMAGE_END,      \* first page after the kernel image
  BITMAP_PAGES,   \* pages of the bitmap itself
  KERNEL_TABLES,  \* tables memory_init adds to the boot tables: 3
  PERIPH_START    \* first page of the peripherals: 0xF0000

BLOCK_PAGES == BLOCK_ENTRIES * PAGES_PER_ENTRY
EMPTY == 0

\* The pages below TABLES_START are the kernel's own: its image, the bitmap
\* and the tables that memory_init adds.
RESERVED_END == IMAGE_END + BITMAP_PAGES
TABLES_START == RESERVED_END + KERNEL_TABLES

ASSUME ContextAssumption ==
  /\ BLOCK_ENTRIES \in Nat \ {0}
  /\ IMAGE_END \in Nat \ {0}
  /\ BITMAP_PAGES \in Nat \ {0}
  /\ KERNEL_TABLES \in Nat
  /\ PERIPH_START \in Nat
  /\ RESERVED_END > CHECKED_FROM
  /\ TABLES_START <= BLOCK_PAGES
  /\ BLOCK_PAGES <= PERIPH_START
  /\ PERIPH_START < PageCount

(***************************************************************************)
(* The first part of memory_init: the allocator claims the pages of its    *)
(* own bitmap, then those of the image and of the peripherals.             *)
(***************************************************************************)
memory_allocator_init == memory_allocator_claim_range({}, IMAGE_END, RESERVED_END)

ReservedRanges ==
  memory_allocator_claim_range(
    memory_allocator_claim_range(memory_allocator_init, 0, IMAGE_END),
    PERIPH_START, PageCount)

(***************************************************************************)
(* A new table is one page, zeroed.  The result of the allocation is not   *)
(* checked: without memory the table would be page 0.                      *)
(***************************************************************************)
memory_mmu_create_table(m) ==
  LET claimed == memory_allocator_claim_pages(m.bitmap, 1, 1)
  IN  [bitmap |-> claimed.bitmap,
       tables |-> [m.tables EXCEPT ![claimed.page] = EMPTY],
       table  |-> claimed.page]

memory_create_context(m) == memory_mmu_create_table(m)

(***************************************************************************)
(* One level of mmu_traverse_and_alloc_tables: an empty entry gets a new   *)
(* table, an entry that has one leads to it.                               *)
(***************************************************************************)
NextLevel(m) ==
  IF m.tables[m.table] = EMPTY
    THEN LET new == memory_mmu_create_table(m)
         IN  [new EXCEPT !.tables[m.table] = new.table]
    ELSE [m EXCEPT !.table = m.tables[m.table]]

mmu_traverse_and_alloc_tables(m) == NextLevel(NextLevel(m))

\* A mapping that asks for a block without its alignment.
MapUnaligned(m) ==
  IF m.tables[m.table] # EMPTY
    THEN m
    ELSE LET claimed == memory_allocator_claim_pages(m.bitmap, BLOCK_PAGES, 1)
         IN  [m EXCEPT !.bitmap = claimed.bitmap,
                       !.tables[m.table] = claimed.page]

\* mmu_map_units for one block: an entry in use only has its memory type
\* updated.
mmu_map_units(m) ==
  IF m.tables[m.table] # EMPTY
    THEN m
    ELSE LET claimed == memory_allocator_claim_pages(m.bitmap, BLOCK_PAGES, BLOCK_PAGES)
         IN  [m EXCEPT !.bitmap = claimed.bitmap,
                       !.tables[m.table] = claimed.page]

\* kproc_region is one aligned block, so memory_mmu_insert maps one unit.
memory_map_region(m) == mmu_map_units(mmu_traverse_and_alloc_tables(m))

(***************************************************************************)
(* What the hardware walk of a context finds at virtual address 0: the     *)
(* block, or EMPTY when some level has no entry.                           *)
(***************************************************************************)
Level1(tables, level0) == tables[level0]
Level2(tables, level0) == tables[tables[level0]]
Block(tables, level0)  == tables[tables[tables[level0]]]

Mapped(tables, level0) ==
  tables[level0] # EMPTY /\ tables[tables[level0]] # EMPTY

(***************************************************************************)
(* memory_mmu_destroy_table: mmu_destroy_entry frees what entry 0 leads    *)
(* to, lowest level first, and clears the entry; the level 0 table itself  *)
(* is freed last.  Only entry 0 of the level 0 table is cleared, the freed *)
(* tables keep their contents.                                             *)
(***************************************************************************)
mmu_destroy_entry(m, level0) ==
  LET l1 == Level1(m.tables, level0)
      l2 == Level2(m.tables, level0)
      after_block == IF l2 # EMPTY /\ m.tables[l2] # EMPTY
                       THEN memory_allocator_free_pages(m.bitmap, m.tables[l2], BLOCK_PAGES)
                       ELSE m.bitmap
      after_l2 == IF l2 # EMPTY THEN memory_allocator_free_pages(after_block, l2, 1)
                                ELSE after_block
  IN  [m EXCEPT !.bitmap = memory_allocator_free_pages(after_l2, l1, 1),
                !.tables[level0] = EMPTY]

\* A destruction that forgets the level 0 table itself.
DestroyKeepsLevel0(m, level0) ==
  IF m.tables[level0] # EMPTY THEN mmu_destroy_entry(m, level0) ELSE m

memory_mmu_destroy_table(m, level0) ==
  LET emptied == IF m.tables[level0] # EMPTY THEN mmu_destroy_entry(m, level0) ELSE m
  IN  [emptied EXCEPT !.bitmap = memory_allocator_free_pages(emptied.bitmap, level0, 1)]

memory_destroy_context(m, level0) == memory_mmu_destroy_table(m, level0)
=============================================================================
