--------------------------------- MODULE Mmu ---------------------------------
(***************************************************************************)
(* Translation tables of one memory context (pivos/src/memory/mmu.c, with  *)
(* the three functions of src/memory.c that use it): creation, mapping of  *)
(* any region, look-up and destruction.  An action is one turn of a loop   *)
(* of the code, or what stands between two loops.                          *)
(*                                                                         *)
(* Addresses and sizes are counted in pages, except where the code counts  *)
(* in bytes and it matters (memory_mmu_insert).  A table entry keeps its   *)
(* two low bits: tables and pages share 3, the level tells them apart.     *)
(* Locals of the code are reset when they are dead.                        *)
(***************************************************************************)
EXTENDS Allocator, Sequences

CONSTANTS
  ENTRIES,    \* mmu_number_of_level_entries, a function on the levels 0 .. 3
  PAGE_SIZE,  \* MMU_PAGE_SIZE, in bytes
  ADDRESSES,  \* pages of the 64-bit range in which addresses and sizes wrap
  COUNTS,     \* 2^32, the range of a count of units
  TYPES,      \* memory types
  REGIONS,    \* regions that are mapped: records of va, size and type
  MAP_TYPE,   \* "ALLOC" or "ONE_TO_ONE"
  RESERVED,   \* sets of pages that others may have claimed before
  INT_PAGES,  \* 2^19, the pages below address 2^31
  FRAMES      \* 2^36, the pages an output address can name

Levels == 0 .. 3

ASSUME MmuAssumption ==
  /\ ENTRIES \in [Levels -> Nat \ {0}]
  /\ PAGE_SIZE \in Nat \ {0}
  /\ COUNTS \in Nat \ {0} /\ ADDRESSES \in Nat \ {0}
  /\ MAP_TYPE \in {"ALLOC", "ONE_TO_ONE"}
  /\ 0 \in TYPES /\ TYPES \subseteq Nat
  /\ REGIONS \subseteq [va : 0 .. (ADDRESSES - 1), size : 0 .. (ADDRESSES - 1), type : TYPES]
  /\ \A reserved \in RESERVED : NULL \in reserved /\ reserved \subseteq Pages

\* mmu_size_of_level_region: the pages that one entry of a level covers.
SIZE == [level \in Levels |->
           CASE level = 3 -> 1
             [] level = 2 -> ENTRIES[3]
             [] level = 1 -> ENTRIES[2] * ENTRIES[3]
             [] level = 0 -> ENTRIES[1] * ENTRIES[2] * ENTRIES[3]]

VAS == 0 .. (ENTRIES[0] * SIZE[0] - 1)

\* An int holds the addresses of whole blocks; output addresses hold more.
ASSUME SplitAssumption ==
  /\ INT_PAGES \in Nat \ {0} /\ INT_PAGES % SIZE[2] = 0
  /\ FRAMES \in Nat /\ FRAMES >= 2 * INT_PAGES

VARIABLES
  reserved,     \* pages claimed by others
  bitmap,       \* the allocator's: all claimed pages
  tables,       \* contents of the pages that are tables
  level0_table, \* of the context; NULL: there is none
  pc,           \* the loop the kernel is in, or "idle"
  region,       \* argument of memory_map_region
  todo,         \* calls of mmu_map_units that memory_mmu_insert has still to make
  walk,         \* locals of mmu_traverse_and_alloc_tables, then table_data
  unit,         \* unit_number
  l3_idx,       \* of the loop over a level 3 table, in mmu_map_units
  block,        \* the block entry mmu_split_block_entry has replaced
  slot,         \* idx of memory_mmu_destroy_table
  table_stack,  \* of mmu_destroy_entry
  fault         \* the first thing that went wrong (see Faults), or "none"

memory == <<bitmap, tables, level0_table>>
request == <<region, todo>>
cursor == <<walk, unit, l3_idx, block>>
down == <<slot, table_stack>>
vars == <<reserved, memory, pc, request, cursor, down, fault>>

(***************************************************************************)
(* Entries and tables.                                                     *)
(***************************************************************************)
EMPTY_ENTRY == [bits |-> 0, page |-> NULL, type |-> 0]
BLOCK == 1
TABLE == 3

mmu_create_table_entry(page) == [bits |-> TABLE, page |-> page, type |-> 0]

mmu_create_page_entry(page, type) == [bits |-> TABLE, page |-> page, type |-> type]

\* The output address of a block is cut to the size of the block.
mmu_create_block_entry(level, page, type) ==
  [bits |-> BLOCK, page |-> page - (page % SIZE[level]), type |-> type]

Indices(level) == 0 .. (ENTRIES[level] - 1)

WithTable(page, contents) ==
  [p \in DOMAIN tables \cup {page} |-> IF p = page THEN contents ELSE tables[p]]

WithoutTable(page) == [p \in DOMAIN tables \ {page} |-> tables[p]]

(***************************************************************************)
(* The kernel is modelled up to the first fault.  The code notices none    *)
(* but "assert", which is an assertion of its own (line 234).              *)
(***************************************************************************)
Faults ==
  {"no_memory",     \* NULL was taken for a page
   "in_use",        \* a block was found over pages that are claimed
   "overflow",      \* a block was split whose address an int cannot hold
   "assert",        \* an entry that is no table was asked for its table
   "wrong_table",   \* the table of one unit was taken for that of another
   "beyond_table"}  \* an entry was read that the table does not have

Zeroed(level) == [i \in Indices(level) |-> EMPTY_ENTRY]

NO_REGION == [va |-> 0, size |-> 0, type |-> 0]
NOWHERE == [table |-> NULL, level |-> 0, rest |-> 0]

Init ==
  /\ reserved \in RESERVED
  /\ bitmap = reserved
  /\ tables = [p \in {} |-> Zeroed(0)]
  /\ level0_table = NULL
  /\ pc = "idle"
  /\ region = NO_REGION
  /\ todo = <<>> /\ walk = NOWHERE /\ unit = 0 /\ l3_idx = 0
  /\ block = EMPTY_ENTRY
  /\ slot = 0 /\ table_stack = <<>>
  /\ fault = "none"

-----------------------------------------------------------------------------
(***************************************************************************)
(* Memory.  A failed allocation returns NULL, which nobody checks.         *)
(***************************************************************************)
NewPage == memory_allocator_claim_pages(bitmap, 1, 1)

Claimed(page) == IF page = NULL THEN "no_memory" ELSE "none"

\* get_phys_space_alloc and get_phys_space_one_to_one: memory for `count`
\* pages at `va`, and the bitmap.
get_phys_space(va, count, align) ==
  IF MAP_TYPE = "ALLOC"
    THEN memory_allocator_claim_pages(bitmap, count, align)
    ELSE [page |-> va, bitmap |-> bitmap]

\* The search for a block overlooks pages (module Allocator: Seen).
Got(space, count) ==
  IF MAP_TYPE # "ALLOC" THEN "none"
  ELSE IF space.page = NULL THEN "no_memory"
  ELSE IF Run(space.page, count) \cap bitmap # {} THEN "in_use"
  ELSE "none"

memory_create_context ==
  /\ pc = "idle" /\ level0_table = NULL
  /\ bitmap' = NewPage.bitmap
  /\ tables' = WithTable(NewPage.page, Zeroed(0))
  /\ level0_table' = NewPage.page
  /\ fault' = Claimed(NewPage.page)
  /\ UNCHANGED <<pc, request, cursor, down>>

-----------------------------------------------------------------------------
(***************************************************************************)
(* memory_mmu_insert: pages up to the next block, blocks, the rest.  The   *)
(* head is a number of bytes (line 129) where mmu_map_units expects one of *)
(* pages; the differences are unsigned and wrap.                           *)
(***************************************************************************)
Call(address, count, level) ==
  [address |-> address % ADDRESSES, count |-> count % COUNTS, level |-> level]

Head_count(gap) == (gap * PAGE_SIZE) % COUNTS

BlockAbove(va) == ((va + SIZE[2] - 1) \div SIZE[2]) * SIZE[2]

\* A call that is made only if there is something to map.
If_any(call) == IF call.count > 0 THEN <<call>> ELSE <<>>

\* A mapping that uses no blocks.
InsertPages(va, size) == If_any(Call(va, size, 3))

memory_mmu_insert(va, size) ==
  LET gap    == BlockAbove(va) - va
      head   == Head_count(gap)
      blocks == (((size - head) % ADDRESSES) \div SIZE[2]) % COUNTS
      mapped == head + blocks * SIZE[2]
  IN  IF size >= gap + SIZE[2]
        THEN If_any(Call(va, head, 3)) \o If_any(Call(va + head, blocks, 2))
               \o If_any(Call(va + mapped, (size - mapped) % ADDRESSES, 3))
        ELSE If_any(Call(va, size, 3))

memory_map_region(r) ==
  /\ pc = "idle" /\ level0_table # NULL
  /\ region' = r
  /\ todo' = memory_mmu_insert(r.va, r.size)
  /\ pc' = "insert"
  /\ UNCHANGED <<memory, cursor, down, fault>>

InsertReturns ==
  /\ pc = "insert" /\ todo = <<>>
  /\ pc' = "idle"
  /\ region' = NO_REGION
  /\ UNCHANGED <<memory, todo, cursor, down, fault>>

-----------------------------------------------------------------------------
(***************************************************************************)
(* mmu_traverse_and_alloc_tables, from the level 0 table to the level of   *)
(* the call: the hops of its loop.  Only level 0 can be asked for an entry *)
(* beyond its table.                                                       *)
(***************************************************************************)
TheCall == todo[1]
Idx == walk.rest \div SIZE[walk.level]
Entry == tables[walk.table][Idx]

\* The head of the while loop of mmu_map_units: the count is not 0.
TraverseStarts ==
  /\ pc = "insert" /\ todo # <<>>
  /\ walk' = [table |-> level0_table, level |-> 0, rest |-> TheCall.address]
  /\ fault' = IF TheCall.address \in VAS THEN "none" ELSE "beyond_table"
  /\ pc' = "traverse"
  /\ UNCHANGED <<memory, request, unit, l3_idx, block, down>>

\* The walk enters the table the entry leads to.
Enter(table) ==
  walk' = [table |-> table, level |-> walk.level + 1, rest |-> walk.rest % SIZE[walk.level]]

Traversing == pc = "traverse" /\ walk.level < TheCall.level

\* A new table takes the place of the entry.
LinkNewTable ==
  /\ bitmap' = NewPage.bitmap
  /\ tables' = [WithTable(NewPage.page, Zeroed(walk.level + 1))
                  EXCEPT ![walk.table][Idx] = mmu_create_table_entry(NewPage.page)]
  /\ fault' = Claimed(NewPage.page)
  /\ Enter(NewPage.page)

TraverseEmpty ==
  /\ Traversing /\ Entry.bits = 0
  /\ LinkNewTable
  /\ UNCHANGED <<level0_table, pc, request, unit, l3_idx, block, down>>

TraverseTable ==
  /\ Traversing /\ Entry.bits = TABLE
  /\ Enter(Entry.page)
  /\ UNCHANGED <<memory, pc, request, unit, l3_idx, block, down, fault>>

\* mmu_split_block_entry links the new table while it is still empty ...
SplitLinks ==
  /\ Traversing /\ Entry.bits = BLOCK
  /\ block' = Entry
  /\ LinkNewTable
  /\ pc' = "split"
  /\ UNCHANGED <<level0_table, request, unit, l3_idx, down>>

Piece(level, page, type) ==
  IF level = 3 THEN mmu_create_page_entry(page, type)
               ELSE mmu_create_block_entry(level, page, type)

\* Lines 256 and 262: the address field of the entry has fewer bits than an
\* int, so that it becomes one before it is shifted back to an address.  What
\* leaves its 32 bits is lost, and the highest that stays is its sign.
new_table_base ==
  LET low == block.page % (2 * INT_PAGES)
  IN  IF low < INT_PAGES THEN low ELSE FRAMES - 2 * INT_PAGES + low

\* A split that forgets the type of the block.
FillPlain ==
  /\ pc = "split"
  /\ tables' = [tables EXCEPT ![walk.table] =
       [i \in Indices(walk.level) |-> Piece(walk.level, new_table_base + i * SIZE[walk.level], 0)]]
  /\ fault' = IF new_table_base = block.page THEN "none" ELSE "overflow"
  /\ block' = EMPTY_ENTRY
  /\ pc' = "traverse"
  /\ UNCHANGED <<bitmap, level0_table, request, walk, unit, l3_idx, down>>

\* A split whose pieces are all the first one.
FillSame ==
  /\ pc = "split"
  /\ tables' = [tables EXCEPT ![walk.table] =
       [i \in Indices(walk.level) |-> Piece(walk.level, new_table_base, block.type)]]
  /\ fault' = IF new_table_base = block.page THEN "none" ELSE "overflow"
  /\ block' = EMPTY_ENTRY
  /\ pc' = "traverse"
  /\ UNCHANGED <<bitmap, level0_table, request, walk, unit, l3_idx, down>>

\* ... and then fills it with the pieces of the block.
SplitFills ==
  /\ pc = "split"
  /\ tables' = [tables EXCEPT ![walk.table] =
       [i \in Indices(walk.level) |->
          Piece(walk.level, new_table_base + i * SIZE[walk.level], block.type)]]
  /\ fault' = IF new_table_base = block.page THEN "none" ELSE "overflow"
  /\ block' = EMPTY_ENTRY
  /\ pc' = "traverse"
  /\ UNCHANGED <<bitmap, level0_table, request, walk, unit, l3_idx, down>>

mmu_traverse_and_alloc_tables ==
  TraverseStarts \/ TraverseEmpty \/ TraverseTable \/ SplitLinks \/ SplitFills

-----------------------------------------------------------------------------
(***************************************************************************)
(* mmu_map_units: `walk` is now table_data, and `unit` runs over the       *)
(* entries of that table.                                                  *)
(***************************************************************************)
\* Without the end of the table as a limit.
CountUnlimited == TheCall.count

unit_count == Least(ENTRIES[walk.level] - Idx, TheCall.count)

EndUnit == Idx + unit_count

requested_addr == (TheCall.address + (unit - Idx) * SIZE[walk.level]) % ADDRESSES

UnitEntry == tables[walk.table][unit]

UnitsStart ==
  /\ pc = "traverse" /\ walk.level = TheCall.level
  /\ unit' = Idx
  /\ pc' = "units"
  /\ UNCHANGED <<memory, request, walk, l3_idx, block, down, fault>>

InUnits == pc = "units" /\ unit < EndUnit

NextUnit ==
  /\ unit' = unit + 1
  /\ UNCHANGED <<level0_table, pc, request, walk, l3_idx, block, down>>

UnitSpace == get_phys_space(requested_addr, SIZE[walk.level], SIZE[walk.level])

UnitCreated ==
  /\ InUnits /\ UnitEntry = EMPTY_ENTRY
  /\ bitmap' = UnitSpace.bitmap
  /\ tables' = [tables EXCEPT ![walk.table][unit] =
                  Piece(walk.level, UnitSpace.page, region.type)]
  /\ fault' = Got(UnitSpace, SIZE[walk.level])
  /\ NextUnit

TableInTheWay == walk.level # 3 /\ UnitEntry.bits = TABLE

\* mmu_override_memory_type: of an entry in use only the type changes.
UnitOverridden ==
  /\ InUnits /\ UnitEntry # EMPTY_ENTRY /\ ~TableInTheWay
  /\ tables' = [tables EXCEPT ![walk.table][unit].type = region.type]
  /\ NextUnit
  /\ UNCHANGED <<bitmap, fault>>

(***************************************************************************)
(* A block is asked for where a table of pages is: its pages are filled    *)
(* up.  The table is taken from table_data.idx (line 479), not from the    *)
(* unit (fault "wrong_table"), and must be one by an assertion of          *)
(* mmu_get_subtable.                                                       *)
(***************************************************************************)
TableOfFirst == tables[walk.table][Idx]

UnitIsTable ==
  /\ InUnits /\ TableInTheWay
  /\ fault' = CASE TableOfFirst.bits # TABLE -> "assert"
                [] TableOfFirst.bits = TABLE /\ unit # Idx -> "wrong_table"
                [] OTHER -> "none"
  /\ l3_idx' = 0
  /\ pc' = "pages"
  /\ UNCHANGED <<memory, request, walk, unit, block, down>>

pages == TableOfFirst.page
PageSpace == get_phys_space(requested_addr + l3_idx, 1, 1)

NextPage ==
  /\ IF l3_idx + 1 < ENTRIES[3]
       THEN l3_idx' = l3_idx + 1 /\ UNCHANGED <<pc, unit>>
       ELSE l3_idx' = 0 /\ pc' = "units" /\ unit' = unit + 1
  /\ UNCHANGED <<level0_table, request, walk, block, down>>

PageCreated ==
  /\ pc = "pages" /\ tables[pages][l3_idx].bits = 0
  /\ bitmap' = PageSpace.bitmap
  /\ tables' = [tables EXCEPT ![pages][l3_idx] =
                  mmu_create_page_entry(PageSpace.page, region.type)]
  /\ fault' = Got(PageSpace, 1)
  /\ NextPage

PageOverridden ==
  /\ pc = "pages" /\ tables[pages][l3_idx].bits # 0
  /\ tables' = [tables EXCEPT ![pages][l3_idx].type = region.type]
  /\ NextPage
  /\ UNCHANGED <<bitmap, fault>>

\* A loop that goes over the same units again.
RestAgain(call, done) == call

Rest(call, done) ==
  [call EXCEPT !.address = (call.address + done * SIZE[call.level]) % ADDRESSES,
               !.count = call.count - done]

\* The end of a table or of the call; a call that is done is left behind.
UnitsDone ==
  /\ pc = "units" /\ unit = EndUnit
  /\ todo' = IF TheCall.count = unit_count
               THEN Tail(todo)
               ELSE [todo EXCEPT ![1] = Rest(TheCall, unit_count)]
  /\ walk' = NOWHERE /\ unit' = 0
  /\ pc' = "insert"
  /\ UNCHANGED <<memory, region, l3_idx, block, down, fault>>

mmu_map_units ==
  \/ UnitsStart \/ UnitCreated \/ UnitOverridden \/ UnitIsTable
  \/ PageCreated \/ PageOverridden \/ UnitsDone

-----------------------------------------------------------------------------
(***************************************************************************)
(* memory_mmu_destroy_table: every entry of level 0 that is used leads to  *)
(* a table.  mmu_destroy_entry goes through the tables below it with a     *)
(* stack of places; a place beyond the end of its table is read only if    *)
(* the last entry of a table is itself a table (line 429).                 *)
(***************************************************************************)
memory_destroy_context ==
  /\ pc = "idle" /\ level0_table # NULL /\ MAP_TYPE = "ALLOC"
  /\ pc' = "destroy" /\ slot' = 0
  /\ UNCHANGED <<memory, request, cursor, table_stack, fault>>

Slot == tables[level0_table][slot]

SlotEmpty ==
  /\ pc = "destroy" /\ slot < ENTRIES[0] /\ Slot = EMPTY_ENTRY
  /\ slot' = slot + 1
  /\ UNCHANGED <<memory, pc, request, cursor, table_stack, fault>>

SlotTaken ==
  /\ pc = "destroy" /\ slot < ENTRIES[0] /\ Slot # EMPTY_ENTRY
  /\ table_stack' = <<[table |-> Slot.page, idx |-> 0, level |-> 1]>>
  /\ pc' = "entry"
  /\ UNCHANGED <<memory, request, cursor, slot, fault>>

\* A destruction that does not give back the level 0 table.
DestroyLeaves ==
  /\ pc = "destroy" /\ slot = ENTRIES[0]
  /\ tables' = WithoutTable(level0_table)
  /\ level0_table' = NULL
  /\ pc' = "idle" /\ slot' = 0
  /\ UNCHANGED <<bitmap, request, cursor, table_stack, fault>>

DestroyReturns ==
  /\ pc = "destroy" /\ slot = ENTRIES[0]
  /\ bitmap' = memory_allocator_free_pages(bitmap, level0_table, 1)
  /\ tables' = WithoutTable(level0_table)
  /\ level0_table' = NULL
  /\ pc' = "idle" /\ slot' = 0
  /\ UNCHANGED <<request, cursor, table_stack, fault>>

Top == table_stack[Len(table_stack)]
TopEntry == tables[Top.table][Top.idx]
Below == SubSeq(table_stack, 1, Len(table_stack) - 1)
Passed == Append(Below, [Top EXCEPT !.idx = Top.idx + 1])

\* A check for the end of a table that comes one entry late.
DoneLate(place) == place.idx > ENTRIES[place.level]

AtEnd(place) == place.idx = ENTRIES[place.level]

\* The end of a turn with the places `stack` and the pages `claimed`: a
\* table whose end is reached is given back.
EndTurn(stack, claimed) ==
  LET current_entry == stack[Len(stack)]
      left == IF AtEnd(current_entry) THEN SubSeq(stack, 1, Len(stack) - 1) ELSE stack
  IN  /\ table_stack' = left
      /\ IF AtEnd(current_entry)
           THEN /\ bitmap' = memory_allocator_free_pages(claimed, current_entry.table, 1)
                /\ tables' = WithoutTable(current_entry.table)
           ELSE bitmap' = claimed /\ UNCHANGED tables
      /\ fault' = IF left # <<>> /\ left[Len(left)].idx \notin Indices(left[Len(left)].level)
                    THEN "beyond_table" ELSE "none"

AtEntry ==
  /\ pc = "entry" /\ table_stack # <<>>
  /\ UNCHANGED <<level0_table, pc, request, cursor, slot>>

EntrySkipped ==
  /\ AtEntry /\ TopEntry.bits = 0
  /\ EndTurn(Passed, bitmap)

EntryIsTable ==
  /\ AtEntry /\ TopEntry.bits = TABLE /\ Top.level # 3
  /\ EndTurn(Append(Passed, [table |-> TopEntry.page, idx |-> 0, level |-> Top.level + 1]), bitmap)

EntryIsPage ==
  /\ AtEntry /\ TopEntry.bits = TABLE /\ Top.level = 3
  /\ EndTurn(Passed, memory_allocator_free_pages(bitmap, TopEntry.page, 1))

\* Of a block only the first page given back.
FreeFirstPage(entry, level) == memory_allocator_free_pages(bitmap, entry.page, 1)

mmu_destroy_block_entry(entry, level) ==
  memory_allocator_free_pages(bitmap, entry.page, SIZE[level])

EntryIsBlock ==
  /\ AtEntry /\ TopEntry.bits = BLOCK
  /\ EndTurn(Passed, mmu_destroy_block_entry(TopEntry, Top.level))

EntryDone ==
  /\ pc = "entry" /\ table_stack = <<>>
  /\ tables' = [tables EXCEPT ![level0_table][slot] = EMPTY_ENTRY]
  /\ pc' = "destroy"
  /\ slot' = slot + 1
  /\ UNCHANGED <<bitmap, level0_table, request, cursor, table_stack, fault>>

mmu_destroy_entry == EntrySkipped \/ EntryIsTable \/ EntryIsPage \/ EntryIsBlock \/ EntryDone

memory_mmu_destroy_table == SlotEmpty \/ SlotTaken \/ DestroyReturns

-----------------------------------------------------------------------------
\* The kernel, inside a call.
Continue ==
  /\ fault = "none" /\ UNCHANGED reserved
  /\ \/ InsertReturns
     \/ mmu_traverse_and_alloc_tables
     \/ mmu_map_units
     \/ mmu_destroy_entry
     \/ memory_mmu_destroy_table

Start ==
  /\ fault = "none" /\ UNCHANGED reserved
  /\ \/ memory_create_context
     \/ \E r \in REGIONS : memory_map_region(r)
     \/ memory_destroy_context

\* What the kernel does after a fault is not modelled.
AfterFault == fault # "none" /\ UNCHANGED vars

Next == Start \/ Continue \/ AfterFault

Spec == Init /\ [][Next]_vars /\ WF_vars(Continue)

-----------------------------------------------------------------------------
(***************************************************************************)
(* Walks: from the level 0 table as far down as there are tables.          *)
(***************************************************************************)
Index(level, va) == (va \div SIZE[level]) % ENTRIES[level]

Stop(contents, va) ==
  LET At(table, level) == contents[table][Index(level, va)]
      l1 == At(level0_table, 0).page
      l2 == At(l1, 1).page
      l3 == At(l2, 2).page
  IN  IF At(level0_table, 0).bits # TABLE THEN [level |-> 0, table |-> level0_table]
      ELSE IF At(l1, 1).bits # TABLE THEN [level |-> 1, table |-> l1]
      ELSE IF At(l2, 2).bits # TABLE THEN [level |-> 2, table |-> l2]
      ELSE [level |-> 3, table |-> l3]

\* No memory type is negative: page 0 of type 0 is not UNMAPPED.
UNMAPPED == [page |-> NULL, type |-> -1]

\* What the MMU makes of a virtual page.
Translate(contents, va) ==
  LET stop == Stop(contents, va)
      entry == contents[stop.table][Index(stop.level, va)]
  IN  IF entry.bits = 0
        THEN UNMAPPED
        ELSE [page |-> entry.page + (va % SIZE[stop.level]), type |-> entry.type]

\* One turn of the loop of mmu_find, for a level below 3: a table is entered,
\* at anything else the loop is left for good, with the table it is in.  Either
\* way the remainder of the address has been taken already (line 351).
FindTurn(at, level) ==
  LET entry == tables[at.table][at.rest \div SIZE[level]]
      rest  == at.rest % SIZE[level]
  IN  IF at.level # level THEN at
      ELSE IF entry.bits = TABLE
             THEN [table |-> entry.page, level |-> level + 1, rest |-> rest]
             ELSE [at EXCEPT !.rest = rest]

\* What is left of the loop gives the index (line 365).
Found(at) == [table |-> at.table, idx |-> at.rest \div SIZE[at.level], level |-> at.level]

FindFrom(va) == [table |-> level0_table, level |-> 0, rest |-> va]

\* A loop that ends one level too early.
FindShort(va) == Found(FindTurn(FindTurn(FindFrom(va), 0), 1))

mmu_find(va) == Found(FindTurn(FindTurn(FindTurn(FindFrom(va), 0), 1), 2))

\* memory_mmu_va_to_pa.  The test of line 100 takes a block for a page, so
\* that only the offset within a page is added.
memory_mmu_va_to_pa(va) ==
  LET found == mmu_find(va)
      entry == tables[found.table][found.idx]
  IN  IF entry.bits # 0 THEN entry.page ELSE NULL

-----------------------------------------------------------------------------
(***************************************************************************)
(* Properties.                                                             *)
(***************************************************************************)
EntryType == [bits : {0, BLOCK, TABLE}, page : Nat, type : TYPES]
Calls == [address : 0 .. (ADDRESSES - 1), count : 0 .. (COUNTS - 1), level : {2, 3}]

\* The types of the variables.  That a table has the entries of one level,
\* that a loop over units stays within its table and that the stack of
\* mmu_destroy_entry has room for its places are part of it.
TypeOK ==
  /\ reserved \subseteq Pages /\ bitmap \subseteq Pages
  /\ \A t \in DOMAIN tables : \E level \in Levels : tables[t] \in [Indices(level) -> EntryType]
  /\ level0_table \in Pages
  /\ pc \in {"idle", "insert", "traverse", "split", "units", "pages", "destroy", "entry"}
  /\ region \in REGIONS \cup {NO_REGION}
  /\ todo \in Seq(Calls) /\ Len(todo) <= 3
  /\ walk \in [table : Pages, level : Levels, rest : Nat]
  /\ unit \in 0 .. ENTRIES[walk.level]
  /\ pc = "units" => EndUnit <= ENTRIES[walk.level]
  /\ l3_idx \in Indices(3)
  /\ block \in EntryType
  /\ slot \in 0 .. ENTRIES[0]
  /\ table_stack \in Seq([table : Pages, idx : Nat, level : Levels]) /\ Len(table_stack) <= 3
  /\ \A i \in DOMAIN table_stack : table_stack[i].level = i
  /\ fault \in Faults \cup {"none"}

\* The tables of each level, from what leads to them.
Links(t) == {i \in DOMAIN tables[t] : tables[t][i].bits = TABLE}

Children(above) == UNION {{tables[t][i].page : i \in Links(t)} : t \in above}

LevelTables(level) ==
  LET l0 == {level0_table} \cap DOMAIN tables
      l1 == Children(l0)
      l2 == Children(l1)
  IN  CASE level = 0 -> l0 [] level = 1 -> l1 [] level = 2 -> l2 [] level = 3 -> Children(l2)

\* Each entry in use with the pages it owns: a table's, or what it maps.
Owners ==
  UNION {UNION {{[table |-> t, idx |-> i,
                  owned |-> Run(tables[t][i].page,
                                IF tables[t][i].bits = TABLE THEN 1 ELSE SIZE[level])] :
                   i \in {j \in DOMAIN tables[t] : tables[t][j].bits # 0}} :
                t \in LevelTables(level) \cap DOMAIN tables} :
         level \in Levels}

Owned == (UNION {o.owned : o \in Owners}) \cup ({level0_table} \ {NULL})

Settled == pc \notin {"split", "entry"}

\* Until the first fault, the tables are a tree that shares no page: two entries
\* never own the same page, be it as table or as memory, nothing belongs to
\* others, and no table is left behind without an entry that leads to it.
TreeIsSound ==
  fault = "none" /\ Settled =>
    /\ \A o, p \in Owners : o # p => o.owned \cap p.owned = {}
    /\ \A o \in Owners : o.owned \cap (reserved \cup {level0_table}) = {}
    /\ DOMAIN tables = UNION {LevelTables(l) : l \in Levels}

\* Until the first fault, every page the allocator has given out is in the tree:
\* none is lost while a region is mapped, and destruction gives back everything
\* and no more.
Accounting == fault = "none" /\ Settled => bitmap = reserved \cup Owned

\* What memory_mmu_va_to_pa answers for any page, after any history of splits.
\* Where there is a level 3 table it is what the MMU finds: the memory of the
\* page, or nothing.  Where the walk ends above, in a block or at nothing, it is
\* whatever the first entry of that table holds, be it another block or the
\* address of a table: line 365 has lost the index of the entry.
Lookups ==
  (pc = "idle" /\ level0_table # NULL) =>
    \A va \in VAS :
      LET stop == Stop(tables, va)
      IN  memory_mmu_va_to_pa(va) =
            IF stop.level = 3 THEN Translate(tables, va).page ELSE tables[stop.table][0].page

\* Line 429: the last entry of a table below level 0 is itself a table, so that
\* the place beyond it is reached once that has been destroyed.
LastWasTable ==
  /\ fault = "beyond_table" /\ table_stack # <<>>
  /\ Top.level # 3 /\ tables[Top.table][ENTRIES[Top.level] - 1].bits = TABLE

\* Every call of memory_map_region and memory_destroy_context returns, unless
\* its search finds a block in use, it splits one that an int cannot address or
\* it goes beyond a table at line 429: the loops end, and for the regions of the
\* instance none takes NULL for a page or reaches any other fault.
CallsReturn ==
  (pc # "idle") ~> (pc = "idle" \/ fault \in {"in_use", "overflow"} \/ LastWasTable)

-----------------------------------------------------------------------------
(***************************************************************************)
(* The context as an AddressSpace.  A block that is being split still      *)
(* counts as the block; a context that is being destroyed as gone.         *)
(***************************************************************************)
Context_tables ==
  IF pc = "split"
    THEN [t \in DOMAIN tables \ {walk.table} |->
            [i \in DOMAIN tables[t] |->
               IF tables[t][i] = mmu_create_table_entry(walk.table) THEN block ELSE tables[t][i]]]
    ELSE tables

Mode == CASE level0_table = NULL \/ pc \in {"destroy", "entry"} -> "none"
          [] level0_table # NULL /\ pc = "idle" -> "idle"
          [] OTHER -> "mapping"

Space == [va \in VAS |-> IF Mode = "none" THEN UNMAPPED ELSE Translate(Context_tables, va)]

CallPages(call) == Run(call.address, call.count * SIZE[call.level])

\* The pages of the current table that have been gone through.
Gone ==
  CASE pc = "units" -> Run(TheCall.address, (unit - Idx) * SIZE[walk.level])
    [] pc = "pages" -> Run(TheCall.address, (unit - Idx) * SIZE[walk.level] + l3_idx)
    [] OTHER -> {}

Pending == (UNION {CallPages(todo[i]) : i \in DOMAIN todo}) \ Gone

Abstract == INSTANCE AddressSpace WITH
  PAS <- Pages, mode <- Mode, space <- Space, type <- region.type, pending <- Pending

\* Up to the first fault, a context is a map from virtual pages to memory of its
\* own.  Mapping a region, whatever blocks it splits and whatever part of it is
\* mapped already, gives exactly its pages memory of the requested type, moves
\* no page that has memory and disturbs none beside it.
RefinesAddressSpace ==
  Abstract!Init /\ [][fault' = "none" => Abstract!Next]_(Abstract!vars)

-----------------------------------------------------------------------------
(***************************************************************************)
(* The one block of a process at virtual page 0: module Context.  Of its   *)
(* constants only the size of a block has a part in this.                  *)
(***************************************************************************)
C == INSTANCE Context WITH
  BLOCK_ENTRIES <- SIZE[2] \div PAGES_PER_ENTRY,
  IMAGE_END <- 1, BITMAP_PAGES <- 1, KERNEL_TABLES <- 0, PERIPH_START <- PageCount

\* The block of a process and the tables that lead to it are all there is.
OnlyBlock ==
  /\ \A t \in DOMAIN tables : \A i \in DOMAIN tables[t] \ {0} : tables[t][i] = EMPTY_ENTRY
  /\ Cardinality(DOMAIN tables) = 3
  /\ Translate(tables, 0) # UNMAPPED

\* Context, on which the proofs about processes rest, is what mmu.c does for
\* the region of a process, wherever the pages in use before lie: after
\* creation, and after mapping it once or again, it has claimed the same
\* pages, and its first entries lead to the same tables and the same block;
\* after destruction the same pages are claimed.
AgreesWithContext ==
  LET before  == [bitmap |-> reserved, tables |-> [p \in Pages |-> C!EMPTY], table |-> NULL]
      created == C!memory_create_context(before)
      mapped  == C!memory_map_region(created)
      Agrees(m) == /\ bitmap = m.bitmap
                   /\ level0_table = created.table
                   /\ \A t \in DOMAIN tables : tables[t][0].page = m.tables[t]
  IN  pc = "idle" =>
        /\ level0_table = NULL =>
             bitmap \in {reserved, C!memory_destroy_context(mapped, created.table).bitmap}
        /\ DOMAIN tables = {level0_table} => Agrees(created)
        /\ level0_table # NULL /\ OnlyBlock => Agrees(mapped)

-----------------------------------------------------------------------------
(***************************************************************************)
(* What comments and assertions of mmu.c say.                              *)
(***************************************************************************)
\* "Alloc pages until reach desired size or allign to alloc blocks" (line
\* 128): whatever is mapped lies in the region that was asked for.
InsideRegion ==
  pc \in {"units", "pages"} /\ unit < EndUnit =>
    Run(requested_addr, SIZE[walk.level]) \subseteq Run(region.va, region.size)

\* "Given entry is not a table entry" (line 234): mmu_get_subtable is only
\* asked for the table of an entry that is one.
AssertsHold == fault # "assert"
=============================================================================
