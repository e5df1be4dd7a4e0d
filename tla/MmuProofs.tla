----------------------------- MODULE MmuProofs ------------------------------
(***************************************************************************)
(* Up to the first fault, the tables of a memory context stay a tree,      *)
(* whatever regions are mapped, overridden and destroyed, for tables of    *)
(* any size and any memory.  And that tree owns exactly the pages claimed  *)
(* for it, each of them once: mapping loses none, destruction gives back   *)
(* all of them and no other.  The loop of mmu_find ends in that tree too.  *)
(* For a block at page 0 it is what module Context says; that it is what   *)
(* AddressSpace promises is in AddressSpaceProofs.                         *)
(* At the end: what the boot code and memory_init make of the kernel's     *)
(* own tables, and that they never change what the TLB may hold.           *)
(***************************************************************************)
EXTENDS Boot, AllocatorProofs, SequenceTheorems, FiniteSetTheorems

Destroying == pc \in {"destroy", "entry"}

InCall == pc \in {"traverse", "split", "units", "pages"}

\* The tables that mmu_destroy_entry is going through.
Places == {table_stack[k].table : k \in DOMAIN table_stack}

\* An entry that has not been destroyed yet.
Live(t, i) ==
  /\ \A k \in DOMAIN table_stack : table_stack[k].table = t => table_stack[k].idx <= i
  /\ ~(pc = "entry" /\ t = level0_table /\ i = slot)

\* An entry that leads to a table; lev gives the level of each table.
Link(lev, t, i) ==
  /\ t \in DOMAIN tables /\ lev[t] < 3 /\ i \in Indices(lev[t])
  /\ tables[t][i].bits = TABLE
  /\ Live(t, i)

\* Blocks are in level 2 tables only.
Shaped(lev) ==
  /\ DOMAIN tables \subseteq Pages \ {NULL}
  /\ \A t \in DOMAIN tables :
       /\ tables[t] \in [Indices(lev[t]) -> EntryType]
       /\ \A i \in Indices(lev[t]) :
            /\ tables[t][i].bits = 0 => tables[t][i] = EMPTY_ENTRY
            /\ tables[t][i].bits = BLOCK => lev[t] = 2

\* Every table but the first has one link to it, or is being destroyed.
Linked(lev) ==
  /\ \A t \in DOMAIN tables : \A i \in Indices(lev[t]) : Link(lev, t, i) =>
       /\ tables[t][i].page \in DOMAIN tables \ Places
       /\ lev[tables[t][i].page] = lev[t] + 1
  /\ \A t, u \in DOMAIN tables : \A i \in Indices(lev[t]), j \in Indices(lev[u]) :
       Link(lev, t, i) /\ Link(lev, u, j) /\ tables[t][i].page = tables[u][j].page
         => t = u /\ i = j
  /\ \A t \in DOMAIN tables :
       \/ lev[t] = 0
       \/ t \in Places
       \/ \E u \in DOMAIN tables : \E i \in Indices(lev[u]) :
            Link(lev, u, i) /\ tables[u][i].page = t

\* The level 0 table is the context's.
Rooted(lev) ==
  /\ \A t \in DOMAIN tables : lev[t] = 0 => t = level0_table
  /\ level0_table = NULL => DOMAIN tables = {} /\ pc = "idle"
  /\ level0_table # NULL => level0_table \in DOMAIN tables /\ lev[level0_table] = 0
  /\ ~Destroying => DOMAIN tables \subseteq bitmap

\* Where a walk is, and how far a loop over units.
Walking(lev) ==
  /\ InCall =>
       /\ todo # <<>>
       /\ walk.table \in DOMAIN tables /\ lev[walk.table] = walk.level
       /\ walk.level <= TheCall.level
       /\ walk.rest < ENTRIES[walk.level] * SIZE[walk.level]
  /\ pc = "split" => walk.level = 3
  /\ pc \in {"units", "pages"} => walk.level = TheCall.level /\ Idx <= unit
  /\ pc = "units" => unit <= EndUnit
  /\ pc = "pages" => unit < EndUnit /\ walk.level = 2 /\ TableOfFirst.bits = TABLE
  /\ pc \notin {"units", "pages"} => unit = 0

\* How far a destruction is.
Destruction(lev) ==
  /\ Destroying => level0_table # NULL /\ MAP_TYPE = "ALLOC"
  /\ Destroying => \A i \in Indices(0) : i < slot => tables[level0_table][i] = EMPTY_ENTRY
  /\ pc = "entry" => slot < ENTRIES[0]
  /\ pc # "entry" => table_stack = <<>>
  /\ \A k \in DOMAIN table_stack :
       table_stack[k].table \in DOMAIN tables /\ lev[table_stack[k].table] = k
  /\ table_stack # <<>> => Top.idx < ENTRIES[Top.level]
  /\ \A k \in DOMAIN table_stack : table_stack[k].idx <= ENTRIES[k]

Tree(lev) == Shaped(lev) /\ Linked(lev) /\ Rooted(lev) /\ Walking(lev) /\ Destruction(lev)

IInv == TypeOK /\ (fault = "none" => \E lev \in [DOMAIN tables -> Levels] : Tree(lev))
-----------------------------------------------------------------------------
(***************************************************************************)
(* Sizes and indices.                                                      *)
(***************************************************************************)
LEMMA EntriesAre == \A level \in Levels : ENTRIES[level] \in Nat \ {0}
  BY MmuAssumption

LEMMA ProductPositive ==
  ASSUME NEW a \in Nat \ {0}, NEW b \in Nat \ {0}
  PROVE  a * b \in Nat \ {0}
  BY SMT

LEMMA PageCountPositive == PageCount \in Nat \ {0}
PROOF
  <1>1. ENTRY_COUNT \in Nat \ {0} /\ PAGES_PER_ENTRY \in Nat \ {0}
    BY AllocatorAssumption
  <1> QED BY <1>1, ProductPositive DEF PageCount

LEMMA SizeIs ==
  /\ SIZE[3] = 1
  /\ SIZE[2] = ENTRIES[3]
  /\ \A level \in 0 .. 2 : SIZE[level] = ENTRIES[level + 1] * SIZE[level + 1]
  /\ \A level \in Levels : SIZE[level] \in Nat \ {0}
PROOF
  <1> DEFINE a == ENTRIES[1]
             b == ENTRIES[2]
             c == ENTRIES[3]
  <1>1. a \in Nat \ {0} /\ b \in Nat \ {0} /\ c \in Nat \ {0}
    BY EntriesAre DEF Levels
  <1>2. /\ SIZE[3] = 1 /\ SIZE[2] = c /\ SIZE[1] = b * c /\ SIZE[0] = a * b * c
    BY DEF SIZE, Levels
  <1> HIDE DEF a, b, c
  <1>3. b * c \in Nat \ {0} /\ a * b * c = a * (b * c) /\ c = c * 1
    BY <1>1
  <1>4. a * (b * c) \in Nat \ {0}
    BY <1>1, <1>3
  <1>5. /\ SIZE[0] = a * SIZE[1] /\ SIZE[1] = b * SIZE[2] /\ SIZE[2] = c * SIZE[3]
    BY <1>2, <1>3
  <1>6. \A level \in 0 .. 2 : SIZE[level] = ENTRIES[level + 1] * SIZE[level + 1]
    BY <1>5 DEF a, b, c
  <1> QED BY <1>1, <1>2, <1>3, <1>4, <1>6 DEF c, Levels

\* An address within a table has an entry there, and the rest of it is an
\* address within the table below.
LEMMA IndexIs ==
  ASSUME NEW level \in Levels, NEW rest \in Nat, rest < ENTRIES[level] * SIZE[level]
  PROVE  /\ rest \div SIZE[level] \in Indices(level)
         /\ level < 3 => /\ rest % SIZE[level] \in Nat
                         /\ rest % SIZE[level] < ENTRIES[level + 1] * SIZE[level + 1]
PROOF
  <1> DEFINE n == ENTRIES[level]
             w == SIZE[level]
             q == rest \div w
             r == rest % w
  <1>1. n \in Nat \ {0} /\ w \in Nat \ {0}
    BY EntriesAre, SizeIs
  <1>2. q \in Nat /\ r \in 0 .. (w - 1) /\ rest = q * w + r
    BY <1>1, Division
  <1>3. level < 3 => w = ENTRIES[level + 1] * SIZE[level + 1]
    BY SizeIs DEF Levels
  <1>4. rest < n * w
    OBVIOUS
  <1> HIDE DEF n, w, q, r
  <1>5. q < n
    <2> SUFFICES ASSUME n <= q PROVE FALSE
      BY <1>1, <1>2
    <2>1. n * w <= q * w
      BY <1>1, <1>2, MultipleMonotone
    <2>2. n * w \in Nat /\ q * w \in Nat
      BY <1>1, <1>2
    <2> QED BY <1>2, <1>4, <2>1, <2>2
  <1>6. q \in 0 .. (n - 1) /\ r \in Nat /\ r < w
    BY <1>1, <1>2, <1>5
  <1> QED BY <1>3, <1>6 DEF n, w, q, r, Indices
-----------------------------------------------------------------------------
(***************************************************************************)
(* What the allocator gives to mmu.c.                                      *)
(***************************************************************************)
LEMMA NewPageIs ==
  ASSUME bitmap \in SUBSET Pages
  PROVE  /\ NewPage.page \in Pages
         /\ NewPage.bitmap \in SUBSET Pages /\ bitmap \subseteq NewPage.bitmap
         /\ NewPage.page # NULL => /\ NewPage.page \notin bitmap
                                   /\ NewPage.bitmap = bitmap \cup {NewPage.page}
PROOF
  <1>1. NewPage = memory_allocator_claim_page(bitmap)
    BY DEF NewPage, memory_allocator_claim_pages
  <1>2. NULL \in Pages
    BY AllocatorAssumption, PageCountPositive DEF Pages, NULL
  <1> HIDE DEF NULL
  <1>3. CASE NewPage = [page |-> NULL, bitmap |-> bitmap]
    BY <1>2, <1>3
  <1>4. CASE \E p \in Pages \ bitmap : NewPage = [page |-> p, bitmap |-> bitmap \cup {p}]
    BY <1>4
  <1> QED BY <1>1, <1>3, <1>4, ClaimPageIs

LEMMA SpaceIs ==
  ASSUME bitmap \in SUBSET Pages, NEW va \in Nat, NEW count \in Nat \ {0}, NEW align \in Nat
  PROVE  LET space == get_phys_space(va, count, align)
         IN  space.page \in Nat /\ space.bitmap \in SUBSET Pages /\ bitmap \subseteq space.bitmap
PROOF
  <1> DEFINE space == get_phys_space(va, count, align)
  <1>0. NULL \in Nat /\ Pages \subseteq Nat
    BY PageCountType DEF NULL, Pages
  <1> HIDE DEF NULL
  <1>1. CASE MAP_TYPE # "ALLOC"
    BY <1>1 DEF get_phys_space
  <1>2. CASE MAP_TYPE = "ALLOC" /\ count = 1 /\ align = 1
    <2>1. space = NewPage
      BY <1>2 DEF get_phys_space, NewPage
    <2> QED BY <1>0, <2>1, NewPageIs
  <1>3. CASE MAP_TYPE = "ALLOC" /\ ~(count = 1 /\ align = 1)
    <2>1. space = FirstFit(bitmap, count, align)
      BY <1>3 DEF get_phys_space, memory_allocator_claim_pages
    <2>2. \/ space = [page |-> NULL, bitmap |-> bitmap]
          \/ \E p \in Fits(bitmap, count, align) :
               space = [page |-> p, bitmap |-> bitmap \cup Run(p, count)]
      BY <2>1, FirstFitIs
    <2>3. \A p \in Fits(bitmap, count, align) : p \in Nat /\ Run(p, count) \subseteq Pages
      BY PageCountType DEF Fits, Run, Pages
    <2>4. CASE space = [page |-> NULL, bitmap |-> bitmap]
      BY <1>0, <2>4
    <2>5. ASSUME NEW p \in Fits(bitmap, count, align),
                 space = [page |-> p, bitmap |-> bitmap \cup Run(p, count)]
          PROVE  space.page \in Nat /\ space.bitmap \in SUBSET Pages /\ bitmap \subseteq space.bitmap
      <3>1. space.page = p /\ space.bitmap = bitmap \cup Run(p, count)
        BY <2>5
      <3> QED BY <2>3, <3>1
    <2> QED BY <2>2, <2>4, <2>5
  <1> QED BY <1>1, <1>2, <1>3

LEMMA FreedIs ==
  ASSUME NEW b \in SUBSET Pages, NEW p, NEW n
  PROVE  memory_allocator_free_pages(b, p, n) \in SUBSET Pages
  BY DEF memory_allocator_free_pages, memory_allocator_free_multiple_pages

-----------------------------------------------------------------------------
(***************************************************************************)
(* Changes of the tables that are none of the tree.                        *)
(***************************************************************************)
\* One entry is written.
Put(t, i, e) == tables' = [tables EXCEPT ![t][i] = e]

LEMMA PutIs ==
  ASSUME NEW lev, Shaped(lev),
         NEW t \in DOMAIN tables, NEW i \in Indices(lev[t]), NEW e \in EntryType,
         e.bits = 0 => e = EMPTY_ENTRY, e.bits = BLOCK => lev[t] = 2,
         Put(t, i, e)
  PROVE  /\ DOMAIN tables' = DOMAIN tables
         /\ Shaped(lev)'
         /\ tables'[t][i] = e
         /\ \A u \in DOMAIN tables : \A j \in Indices(lev[u]) :
              u # t \/ j # i => tables'[u][j] = tables[u][j]
PROOF
  <1>1. DOMAIN tables' = DOMAIN tables
    BY DEF Put
  <1>2. \A u \in DOMAIN tables : u # t => tables'[u] = tables[u]
    BY DEF Put
  <1>3. tables[t] \in [Indices(lev[t]) -> EntryType]
    BY DEF Shaped
  <1>4. tables'[t] = [tables[t] EXCEPT ![i] = e]
    BY DEF Put
  <1>5. /\ tables'[t] \in [Indices(lev[t]) -> EntryType]
        /\ tables'[t][i] = e
        /\ \A j \in Indices(lev[t]) : j # i => tables'[t][j] = tables[t][j]
    BY <1>3, <1>4
  <1>6. \A u \in DOMAIN tables : \A j \in Indices(lev[u]) :
              u # t \/ j # i => tables'[u][j] = tables[u][j]
    BY <1>2, <1>5
  <1>7. ASSUME NEW u \in DOMAIN tables
        PROVE  /\ tables'[u] \in [Indices(lev[u]) -> EntryType]
               /\ \A j \in Indices(lev[u]) :
                    /\ tables'[u][j].bits = 0 => tables'[u][j] = EMPTY_ENTRY
                    /\ tables'[u][j].bits = BLOCK => lev[u] = 2
    <2>1. CASE u # t
      BY <1>2, <2>1 DEF Shaped
    <2>2. CASE u = t
      <3>1. ASSUME NEW j \in Indices(lev[t])
            PROVE  /\ tables'[t][j].bits = 0 => tables'[t][j] = EMPTY_ENTRY
                   /\ tables'[t][j].bits = BLOCK => lev[t] = 2
        <4>1. CASE j = i
          BY <1>5, <4>1
        <4>2. CASE j # i
          BY <1>5, <4>2 DEF Shaped
        <4> QED BY <4>1, <4>2
      <3> QED BY <1>5, <2>2, <3>1
    <2> QED BY <2>1, <2>2
  <1>8. Shaped(lev)'
    BY <1>1, <1>7 DEF Shaped
  <1> QED BY <1>1, <1>5, <1>6, <1>8

\* The tree is its links.
LEMMA LinkedStays ==
  ASSUME NEW lev, Linked(lev),
         DOMAIN tables' = DOMAIN tables, Places' = Places,
         \A t \in DOMAIN tables : \A i \in Indices(lev[t]) :
           /\ Link(lev, t, i)' <=> Link(lev, t, i)
           /\ Link(lev, t, i) => tables'[t][i].page = tables[t][i].page
  PROVE  Linked(lev)'
  BY DEF Linked

\* Whatever mapping does to pages and blocks leaves the tree as it is.
LEMMA TreeStays ==
  ASSUME NEW lev, Tree(lev), Shaped(lev)',
         UNCHANGED <<level0_table, down>>, level0_table # NULL,
         ~Destroying, ~Destroying', bitmap \subseteq bitmap',
         DOMAIN tables' = DOMAIN tables,
         \A t \in DOMAIN tables : \A i \in Indices(lev[t]) : lev[t] < 3 =>
           /\ tables'[t][i].bits = TABLE <=> tables[t][i].bits = TABLE
           /\ tables[t][i].bits = TABLE => tables'[t][i].page = tables[t][i].page
  PROVE  Linked(lev)' /\ Rooted(lev)' /\ Destruction(lev)'
PROOF
  <1>1. pc # "entry" /\ pc' # "entry" /\ table_stack = <<>> /\ table_stack' = <<>>
    BY DEF Destroying, Tree, Destruction, down
  <1>2. Places = {} /\ Places' = {}
    BY <1>1 DEF Places
  <1>3. \A t, i : Live(t, i) /\ Live(t, i)'
    BY <1>1 DEF Live
  <1>4. \A t \in DOMAIN tables : \A i \in Indices(lev[t]) :
           /\ Link(lev, t, i)' <=> Link(lev, t, i)
           /\ Link(lev, t, i) => tables'[t][i].page = tables[t][i].page
    BY <1>3 DEF Link
  <1>5. Linked(lev)'
    BY <1>2, <1>4, LinkedStays DEF Tree
  <1>6. Rooted(lev)'
    BY DEF Tree, Rooted
  <1>7. Destruction(lev)'
    BY <1>1 DEF Destruction, Destroying
  <1> QED BY <1>5, <1>6, <1>7

-----------------------------------------------------------------------------
(***************************************************************************)
(* The calls that memory_mmu_insert makes.                                 *)
(***************************************************************************)
LEMMA Remainder ==
  ASSUME NEW x \in Int, NEW w \in Nat \ {0}
  PROVE  x % w \in 0 .. (w - 1)
  BY SMT

LEMMA CallIs ==
  ASSUME NEW address \in Int, NEW count \in Int, NEW level \in {2, 3}
  PROVE  /\ If_any(Call(address, count, level)) \in Seq(Calls)
         /\ Len(If_any(Call(address, count, level))) <= 1
PROOF
  <1> DEFINE call == Call(address, count, level)
  <1>1. address % ADDRESSES \in 0 .. (ADDRESSES - 1) /\ count % COUNTS \in 0 .. (COUNTS - 1)
    BY MmuAssumption, Remainder
  <1>2. call \in Calls
    BY <1>1 DEF Call, Calls
  <1> HIDE DEF call
  <1>3. If_any(call) = <<call>> \/ If_any(call) = <<>>
    BY DEF If_any
  <1>a. <<call>> \in Seq(Calls) /\ Len(<<call>>) = 1 /\ <<>> \in Seq(Calls) /\ Len(<<>>) = 0
    BY <1>2
  <1>4. If_any(call) \in Seq(Calls) /\ Len(If_any(call)) <= 1
    <2>1. CASE If_any(call) = <<call>>
      BY <1>a, <2>1
    <2>2. CASE If_any(call) = <<>>
      BY <1>a, <2>2
    <2> QED BY <1>3, <2>1, <2>2
  <1> QED BY <1>4 DEF call

LEMMA InsertIs ==
  ASSUME NEW va \in Nat, NEW size \in Nat
  PROVE  memory_mmu_insert(va, size) \in Seq(Calls) /\ Len(memory_mmu_insert(va, size)) <= 3
PROOF
  <1> DEFINE gap    == BlockAbove(va) - va
             head   == Head_count(gap)
             blocks == (((size - head) % ADDRESSES) \div SIZE[2]) % COUNTS
             mapped == head + blocks * SIZE[2]
             rest   == (size - mapped) % ADDRESSES
             first  == If_any(Call(va, head, 3))
             second == If_any(Call(va + head, blocks, 2))
             third  == If_any(Call(va + mapped, rest, 3))
             all    == If_any(Call(va, size, 3))
  <1>1. SIZE[2] \in Nat \ {0} /\ COUNTS \in Nat \ {0} /\ ADDRESSES \in Nat \ {0} /\ PAGE_SIZE \in Nat
    BY SizeIs, MmuAssumption DEF Levels
  <1>2. gap \in Int
    <2>1. (va + SIZE[2] - 1) \div SIZE[2] \in Int
      BY <1>1
    <2> QED BY <1>1, <2>1 DEF BlockAbove
  <1> HIDE DEF gap
  <1>3. head \in Nat
    <2>1. gap * PAGE_SIZE \in Int
      BY <1>1, <1>2
    <2> QED BY <1>1, <2>1, Remainder DEF Head_count
  <1> HIDE DEF head
  <1>4. blocks \in Nat
    <2> DEFINE left == (size - head) % ADDRESSES
               all_blocks == left \div SIZE[2]
    <2>1. left \in Nat
      BY <1>1, <1>3, Remainder
    <2> HIDE DEF left
    <2>2. all_blocks \in Nat
      BY <1>1, <2>1, Division
    <2> HIDE DEF all_blocks
    <2>3. all_blocks % COUNTS \in Nat
      BY <1>1, <2>2, Remainder
    <2> QED BY <2>3 DEF left, all_blocks
  <1> HIDE DEF blocks
  <1>5. mapped \in Nat
    BY <1>1, <1>3, <1>4
  <1> HIDE DEF mapped
  <1>6. rest \in Nat
    BY <1>1, <1>5, Remainder
  <1> HIDE DEF rest
  <1>7. /\ first \in Seq(Calls) /\ Len(first) <= 1
        /\ second \in Seq(Calls) /\ Len(second) <= 1
        /\ third \in Seq(Calls) /\ Len(third) <= 1
        /\ all \in Seq(Calls) /\ Len(all) <= 1
    BY <1>3, <1>4, <1>5, <1>6, CallIs
  <1>8. memory_mmu_insert(va, size) = first \o second \o third \/ memory_mmu_insert(va, size) = all
    BY DEF memory_mmu_insert, gap, head, blocks, mapped, rest
  <1> HIDE DEF first, second, third, all
  <1>9. first \o second \in Seq(Calls) /\ Len(first \o second) = Len(first) + Len(second)
    BY <1>7, ConcatProperties
  <1>10. /\ (first \o second) \o third \in Seq(Calls)
         /\ Len((first \o second) \o third) = Len(first \o second) + Len(third)
    BY <1>7, <1>9, ConcatProperties
  <1>11. Len(first) \in Nat /\ Len(second) \in Nat /\ Len(third) \in Nat /\ Len(all) \in Nat
    BY <1>7, LenProperties
  <1>12. Len((first \o second) \o third) <= 3
    BY <1>7, <1>9, <1>10, <1>11
  <1>13. Len(all) <= 3
    BY <1>7, <1>11
  <1> QED BY <1>7, <1>8, <1>10, <1>12, <1>13

-----------------------------------------------------------------------------
(***************************************************************************)
(* A walk, and the loop over units at its end, stay within their table.    *)
(***************************************************************************)
LEMMA WalkIs ==
  ASSUME TypeOK, NEW lev \in [DOMAIN tables -> Levels], Tree(lev), InCall
  PROVE  /\ TheCall \in Calls
         /\ walk.level \in Levels /\ walk.rest \in Nat
         /\ walk.table \in DOMAIN tables /\ lev[walk.table] = walk.level
         /\ Idx \in Indices(walk.level)
         /\ Entry \in EntryType
         /\ unit_count \in Nat /\ unit_count <= TheCall.count
         /\ EndUnit \in Nat /\ Idx <= EndUnit /\ EndUnit <= ENTRIES[walk.level]
         /\ level0_table # NULL
         /\ ~Destroying
PROOF
  <1>1. /\ walk \in [table : Pages, level : Levels, rest : Nat]
        /\ todo \in Seq(Calls) /\ todo # <<>>
        /\ walk.table \in DOMAIN tables /\ lev[walk.table] = walk.level
        /\ walk.rest < ENTRIES[walk.level] * SIZE[walk.level]
    BY DEF TypeOK, Tree, Walking
  <1>2. TheCall \in Calls
    BY <1>1 DEF TheCall
  <1>3. Idx \in Indices(walk.level)
    BY <1>1, IndexIs DEF Idx
  <1>4. Entry \in EntryType
    BY <1>1, <1>3 DEF Entry, Tree, Shaped
  <1>5. ENTRIES[walk.level] \in Nat /\ Idx \in Nat /\ Idx < ENTRIES[walk.level] /\ TheCall.count \in Nat
    BY <1>1, <1>2, <1>3, EntriesAre, MmuAssumption DEF Indices, Calls
  <1>6. /\ unit_count \in Nat /\ unit_count <= TheCall.count
        /\ unit_count <= ENTRIES[walk.level] - Idx
    BY <1>5 DEF unit_count, Least
  <1>7. level0_table # NULL /\ ~Destroying
    BY DEF InCall, Destroying, Tree, Rooted
  <1> QED BY <1>1, <1>2, <1>3, <1>4, <1>5, <1>6, <1>7 DEF EndUnit

LEMMA CursorStays ==
  ASSUME UNCHANGED <<todo, walk>>
  PROVE  TheCall' = TheCall /\ Idx' = Idx /\ unit_count' = unit_count /\ EndUnit' = EndUnit
  BY DEF TheCall, Idx, unit_count, EndUnit

LEMMA TablesStay ==
  ASSUME NEW lev, Tree(lev), UNCHANGED <<memory, down>>, level0_table # NULL,
         ~Destroying, ~Destroying'
  PROVE  Shaped(lev)' /\ Linked(lev)' /\ Rooted(lev)' /\ Destruction(lev)'
PROOF
  <1>1. tables' = tables /\ level0_table' = level0_table /\ bitmap' = bitmap
    BY DEF memory
  <1>2. Shaped(lev)'
    BY <1>1 DEF Tree, Shaped
  <1> QED BY <1>1, <1>2, TreeStays

-----------------------------------------------------------------------------
\* A step of the kernel.
Step == Start \/ Continue

(***************************************************************************)
(* The steps of a mapping that leave memory alone.                         *)
(***************************************************************************)
PCs == {"idle", "insert", "traverse", "split", "units", "pages", "destroy", "entry"}
Walks == [table : Pages, level : Levels, rest : Nat]
FaultType == Faults \cup {"none"}

LEMMA CursorType ==
  ASSUME TypeOK, UNCHANGED <<reserved, memory, block, down>>,
         region' \in REGIONS \cup {NO_REGION},
         todo' \in Seq(Calls), Len(todo') <= 3,
         walk' \in Walks,
         unit' \in 0 .. ENTRIES[walk'.level],
         pc' = "units" => EndUnit' <= ENTRIES[walk'.level],
         l3_idx' \in Indices(3),
         pc' \in PCs, fault' \in FaultType
  PROVE  TypeOK'
  BY DEF TypeOK, memory, down, PCs, Walks, FaultType, Faults

LEMMA MapRegionStep ==
  ASSUME TypeOK, fault = "none", NEW lev \in [DOMAIN tables -> Levels], Tree(lev),
         UNCHANGED reserved, NEW r \in REGIONS, memory_map_region(r)
  PROVE  IInv'
PROOF
  <1>1. /\ region' = r /\ todo' = memory_mmu_insert(r.va, r.size) /\ pc = "idle" /\ pc' = "insert"
        /\ UNCHANGED <<memory, walk, unit, l3_idx, block, down, fault>> /\ level0_table # NULL
    BY DEF memory_map_region, cursor
  <1>2. r.va \in Nat /\ r.size \in Nat
    BY MmuAssumption
  <1>3. todo' \in Seq(Calls) /\ Len(todo') <= 3
    BY <1>1, <1>2, InsertIs
  <1>4. TypeOK'
    <2>1. /\ walk' \in Walks /\ unit' \in 0 .. ENTRIES[walk'.level] /\ l3_idx' \in Indices(3)
          /\ region' \in REGIONS \cup {NO_REGION} /\ pc' \in PCs /\ fault' \in FaultType
      BY <1>1 DEF TypeOK, Walks, PCs, FaultType, Faults
    <2> QED BY <1>1, <1>3, <2>1, CursorType
  <1>5. Shaped(lev)' /\ Linked(lev)' /\ Rooted(lev)' /\ Destruction(lev)'
    BY <1>1, TablesStay DEF Destroying
  <1>6. Walking(lev)'
    BY <1>1 DEF Tree, Walking, InCall
  <1> QED BY <1>1, <1>4, <1>5, <1>6 DEF IInv, Tree, memory

LEMMA InsertReturnsStep ==
  ASSUME TypeOK, fault = "none", NEW lev \in [DOMAIN tables -> Levels], Tree(lev),
         UNCHANGED reserved, InsertReturns
  PROVE  IInv'
PROOF
  <1>1. /\ region' = NO_REGION /\ pc = "insert" /\ pc' = "idle"
        /\ UNCHANGED <<memory, todo, walk, unit, l3_idx, block, down, fault>>
    BY DEF InsertReturns, cursor
  <1>2. level0_table # NULL
    BY <1>1 DEF Tree, Rooted
  <1>4. TypeOK'
    <2>1. /\ walk' \in Walks /\ unit' \in 0 .. ENTRIES[walk'.level] /\ l3_idx' \in Indices(3)
          /\ region' \in REGIONS \cup {NO_REGION} /\ pc' \in PCs /\ fault' \in FaultType
          /\ todo' \in Seq(Calls) /\ Len(todo') <= 3
      BY <1>1 DEF TypeOK, Walks, PCs, FaultType, Faults
    <2> QED BY <1>1, <2>1, CursorType
  <1>5. Shaped(lev)' /\ Linked(lev)' /\ Rooted(lev)' /\ Destruction(lev)'
    BY <1>1, <1>2, TablesStay DEF Destroying
  <1>6. Walking(lev)'
    BY <1>1 DEF Tree, Walking, InCall
  <1> QED BY <1>1, <1>4, <1>5, <1>6 DEF IInv, Tree, memory

LEMMA TraverseStartsStep ==
  ASSUME TypeOK, fault = "none", NEW lev \in [DOMAIN tables -> Levels], Tree(lev),
         UNCHANGED reserved, TraverseStarts
  PROVE  IInv'
PROOF
  <1>1. /\ pc = "insert" /\ pc' = "traverse" /\ todo # <<>>
        /\ walk' = [table |-> level0_table, level |-> 0, rest |-> TheCall.address]
        /\ fault' = IF TheCall.address \in VAS THEN "none" ELSE "beyond_table"
        /\ UNCHANGED <<memory, region, todo, unit, l3_idx, block, down>>
    BY DEF TraverseStarts, request
  <1>2. level0_table # NULL /\ level0_table \in DOMAIN tables /\ lev[level0_table] = 0 /\ unit = 0
    BY <1>1 DEF Tree, Rooted, Walking
  <1>3. TheCall' = TheCall /\ TheCall \in Calls
    BY <1>1 DEF TheCall, TypeOK
  <1>4. TypeOK'
    <2>1. ENTRIES[0] \in Nat
      BY EntriesAre DEF Levels
    <2>2. walk' \in Walks /\ walk'.level = 0
      BY <1>1, <1>3, MmuAssumption DEF TypeOK, Walks, Levels, Calls
    <2>3. /\ unit' \in 0 .. ENTRIES[walk'.level] /\ l3_idx' \in Indices(3)
          /\ region' \in REGIONS \cup {NO_REGION} /\ pc' \in PCs /\ fault' \in FaultType
          /\ todo' \in Seq(Calls) /\ Len(todo') <= 3
      BY <1>1, <1>2, <2>1, <2>2 DEF TypeOK, PCs, FaultType, Faults
    <2> QED BY <1>1, <2>2, <2>3, CursorType
  <1>5. Shaped(lev)' /\ Linked(lev)' /\ Rooted(lev)' /\ Destruction(lev)'
    BY <1>1, <1>2, TablesStay DEF Destroying
  <1>6. fault' = "none" => Walking(lev)'
    <2> SUFFICES ASSUME fault' = "none" PROVE Walking(lev)'
      OBVIOUS
    <2>1. TheCall.address \in Nat /\ TheCall.address < ENTRIES[0] * SIZE[0]
      <3>1. ENTRIES[0] * SIZE[0] \in Nat
        BY EntriesAre, SizeIs DEF Levels
      <3> QED BY <1>1, <3>1 DEF VAS
    <2>2. 0 <= TheCall.level
      BY <1>3 DEF Calls
    <2> QED BY <1>1, <1>2, <1>3, <2>1, <2>2 DEF Walking, InCall, memory
  <1> QED BY <1>1, <1>4, <1>5, <1>6 DEF IInv, Tree, memory

LEMMA TraverseTableStep ==
  ASSUME TypeOK, fault = "none", NEW lev \in [DOMAIN tables -> Levels], Tree(lev),
         UNCHANGED reserved, TraverseTable
  PROVE  IInv'
PROOF
  <1>1. /\ pc = "traverse" /\ pc' = pc /\ walk.level < TheCall.level /\ Entry.bits = TABLE
        /\ walk' = [table |-> Entry.page, level |-> walk.level + 1,
                    rest |-> walk.rest % SIZE[walk.level]]
        /\ UNCHANGED <<memory, region, todo, unit, l3_idx, block, down, fault>>
    BY DEF TraverseTable, Traversing, Enter, request
  <1>2. /\ level0_table # NULL /\ unit = 0 /\ TheCall \in Calls /\ TheCall' = TheCall
        /\ walk.level \in Levels /\ walk.rest \in Nat
        /\ walk.table \in DOMAIN tables /\ lev[walk.table] = walk.level
        /\ walk.rest < ENTRIES[walk.level] * SIZE[walk.level]
        /\ Idx \in Indices(walk.level) /\ todo # <<>>
    BY <1>1, WalkIs DEF Tree, Walking, TheCall, InCall
  <1>3. walk.level \in 0 .. 2 /\ walk.level + 1 <= TheCall.level /\ walk.level + 1 \in Levels
    BY <1>1, <1>2 DEF Calls, Levels
  <1>4. table_stack = <<>> /\ pc # "entry"
    BY <1>1 DEF Tree, Destruction
  <1>5. Link(lev, walk.table, Idx)
    BY <1>1, <1>2, <1>3, <1>4 DEF Link, Live, Entry
  <1>6. Entry.page \in DOMAIN tables /\ lev[Entry.page] = walk.level + 1
    BY <1>2, <1>5 DEF Tree, Linked, Entry
  <1>7. /\ walk.rest % SIZE[walk.level] \in Nat
        /\ walk.rest % SIZE[walk.level] < ENTRIES[walk.level + 1] * SIZE[walk.level + 1]
    BY <1>2, <1>3, IndexIs
  <1>8. TypeOK'
    <2>1. ENTRIES[walk.level + 1] \in Nat
      BY <1>3, EntriesAre
    <2>2. walk' \in Walks /\ walk'.level = walk.level + 1
      BY <1>1, <1>3, <1>6, <1>7 DEF Walks, Tree, Shaped
    <2>3. /\ unit' \in 0 .. ENTRIES[walk'.level] /\ l3_idx' \in Indices(3)
          /\ region' \in REGIONS \cup {NO_REGION} /\ pc' \in PCs /\ fault' \in FaultType
          /\ todo' \in Seq(Calls) /\ Len(todo') <= 3
      BY <1>1, <1>2, <2>1, <2>2 DEF TypeOK, PCs, FaultType, Faults
    <2> QED BY <1>1, <2>2, <2>3, CursorType
  <1>9. Shaped(lev)' /\ Linked(lev)' /\ Rooted(lev)' /\ Destruction(lev)'
    BY <1>1, <1>2, TablesStay DEF Destroying
  <1>10. Walking(lev)'
    BY <1>1, <1>2, <1>3, <1>6, <1>7 DEF Walking, InCall, memory
  <1> QED BY <1>1, <1>8, <1>9, <1>10 DEF IInv, Tree, memory

LEMMA UnitsStartStep ==
  ASSUME TypeOK, fault = "none", NEW lev \in [DOMAIN tables -> Levels], Tree(lev),
         UNCHANGED reserved, UnitsStart
  PROVE  IInv'
PROOF
  <1>1. /\ pc = "traverse" /\ pc' = "units" /\ walk.level = TheCall.level /\ unit' = Idx
        /\ UNCHANGED <<memory, region, todo, walk, l3_idx, block, down, fault>>
    BY DEF UnitsStart, request
  <1>2. /\ level0_table # NULL /\ Idx \in Nat /\ Idx <= EndUnit /\ EndUnit <= ENTRIES[walk.level]
        /\ ENTRIES[walk.level] \in Nat /\ EndUnit \in Nat
    BY <1>1, WalkIs, EntriesAre DEF InCall, Indices
  <1>3. TheCall' = TheCall /\ Idx' = Idx /\ EndUnit' = EndUnit
    BY <1>1, CursorStays
  <1>4. TypeOK'
    <2>1. /\ unit' \in 0 .. ENTRIES[walk'.level] /\ l3_idx' \in Indices(3) /\ walk' \in Walks
          /\ EndUnit' <= ENTRIES[walk'.level]
          /\ region' \in REGIONS \cup {NO_REGION} /\ pc' \in PCs /\ fault' \in FaultType
          /\ todo' \in Seq(Calls) /\ Len(todo') <= 3
      BY <1>1, <1>2, <1>3 DEF TypeOK, PCs, FaultType, Faults, Walks
    <2> QED BY <1>1, <2>1, CursorType
  <1>5. Shaped(lev)' /\ Linked(lev)' /\ Rooted(lev)' /\ Destruction(lev)'
    BY <1>1, <1>2, TablesStay DEF Destroying
  <1>6. Walking(lev)'
    BY <1>1, <1>2, <1>3 DEF Tree, Walking, InCall, memory
  <1> QED BY <1>1, <1>4, <1>5, <1>6 DEF IInv, Tree, memory

LEMMA UnitIsTableStep ==
  ASSUME TypeOK, fault = "none", NEW lev \in [DOMAIN tables -> Levels], Tree(lev),
         UNCHANGED reserved, UnitIsTable
  PROVE  IInv'
PROOF
  <1>1. /\ pc = "units" /\ pc' = "pages" /\ unit < EndUnit /\ walk.level # 3 /\ l3_idx' = 0
        /\ fault' \in FaultType /\ (fault' = "none" => TableOfFirst.bits = TABLE)
        /\ UNCHANGED <<memory, region, todo, walk, unit, block, down>>
    BY DEF UnitIsTable, InUnits, TableInTheWay, request, FaultType, Faults
  <1>2. /\ level0_table # NULL /\ Idx <= unit /\ walk.level = TheCall.level /\ walk.level = 2
    BY <1>1, WalkIs DEF InCall, Tree, Walking, Calls
  <1>3. TheCall' = TheCall /\ Idx' = Idx /\ EndUnit' = EndUnit /\ TableOfFirst' = TableOfFirst
    BY <1>1, CursorStays DEF TableOfFirst, memory
  <1>4. TypeOK'
    <2>1. 0 \in Indices(3)
      BY EntriesAre DEF Indices, Levels
    <2>2. /\ unit' \in 0 .. ENTRIES[walk'.level] /\ l3_idx' \in Indices(3) /\ walk' \in Walks
          /\ region' \in REGIONS \cup {NO_REGION} /\ pc' \in PCs /\ fault' \in FaultType
          /\ todo' \in Seq(Calls) /\ Len(todo') <= 3
      BY <1>1, <2>1 DEF TypeOK, PCs, FaultType, Faults, Walks
    <2> QED BY <1>1, <2>2, CursorType
  <1>5. Shaped(lev)' /\ Linked(lev)' /\ Rooted(lev)' /\ Destruction(lev)'
    BY <1>1, <1>2, TablesStay DEF Destroying
  <1>6. fault' = "none" => Walking(lev)'
    BY <1>1, <1>2, <1>3 DEF Tree, Walking, InCall, memory
  <1> QED BY <1>1, <1>4, <1>5, <1>6 DEF IInv, Tree, memory

LEMMA UnitsDoneStep ==
  ASSUME TypeOK, fault = "none", NEW lev \in [DOMAIN tables -> Levels], Tree(lev),
         UNCHANGED reserved, UnitsDone
  PROVE  IInv'
PROOF
  <1>1. /\ pc = "units" /\ pc' = "insert" /\ walk' = NOWHERE /\ unit' = 0
        /\ todo' = IF TheCall.count = unit_count
                     THEN Tail(todo)
                     ELSE [todo EXCEPT ![1] = Rest(TheCall, unit_count)]
        /\ UNCHANGED <<memory, region, l3_idx, block, down, fault>>
    BY DEF UnitsDone
  <1>2. /\ level0_table # NULL /\ TheCall \in Calls
        /\ unit_count \in Nat /\ unit_count <= TheCall.count
    BY <1>1, WalkIs DEF InCall
  <1>3. todo \in Seq(Calls) /\ Len(todo) <= 3 /\ todo # <<>>
    BY <1>1 DEF TypeOK, Tree, Walking, InCall
  <1>4. Rest(TheCall, unit_count) \in Calls
    <2>1. TheCall.address \in Nat /\ TheCall.level \in Levels /\ TheCall.count \in 0 .. (COUNTS - 1)
      BY <1>2, MmuAssumption DEF Calls, Levels
    <2>2. unit_count * SIZE[TheCall.level] \in Nat
      BY <1>2, <2>1, SizeIs
    <2>a. TheCall.address + unit_count * SIZE[TheCall.level] \in Int /\ ADDRESSES \in Nat \ {0}
      BY <2>1, <2>2, MmuAssumption
    <2>3. (TheCall.address + unit_count * SIZE[TheCall.level]) % ADDRESSES \in 0 .. (ADDRESSES - 1)
      BY <2>a, Remainder
    <2>4. TheCall.count - unit_count \in 0 .. (COUNTS - 1)
      BY <1>2, <2>1, MmuAssumption
    <2> QED BY <1>2, <2>3, <2>4 DEF Rest, Calls
  <1>5. todo' \in Seq(Calls) /\ Len(todo') <= 3
    <2>1. CASE TheCall.count = unit_count
      <3>1. Tail(todo) \in Seq(Calls) /\ Len(Tail(todo)) = Len(todo) - 1 /\ Len(todo) \in Nat
        BY <1>3, HeadTailProperties, LenProperties
      <3> QED BY <1>1, <1>3, <2>1, <3>1
    <2>2. CASE TheCall.count # unit_count
      <3>1. 1 \in 1 .. Len(todo)
        BY <1>3, EmptySeq, LenProperties
      <3> QED BY <1>1, <1>3, <1>4, <2>2, <3>1, ExceptSeq
    <2> QED BY <2>1, <2>2
  <1>6. TypeOK'
    <2>1. walk' \in Walks /\ walk'.level = 0
      <3>1. NULL \in Pages
        BY PageCountPositive DEF Pages, NULL
      <3> QED BY <1>1, <3>1 DEF NOWHERE, Walks, Levels
    <2>2. ENTRIES[0] \in Nat
      BY EntriesAre DEF Levels
    <2>3. /\ unit' \in 0 .. ENTRIES[walk'.level] /\ l3_idx' \in Indices(3)
          /\ region' \in REGIONS \cup {NO_REGION} /\ pc' \in PCs /\ fault' \in FaultType
      BY <1>1, <2>1, <2>2 DEF TypeOK, PCs, FaultType, Faults
    <2> QED BY <1>1, <1>5, <2>1, <2>3, CursorType
  <1>7. Shaped(lev)' /\ Linked(lev)' /\ Rooted(lev)' /\ Destruction(lev)'
    BY <1>1, <1>2, TablesStay DEF Destroying
  <1>8. Walking(lev)'
    BY <1>1 DEF Walking, InCall
  <1> QED BY <1>1, <1>6, <1>7, <1>8 DEF IInv, Tree, memory

-----------------------------------------------------------------------------
(***************************************************************************)
(* The steps of a mapping that write pages and blocks.                     *)
(***************************************************************************)
LEMMA DataType ==
  ASSUME TypeOK, NEW lev \in [DOMAIN tables -> Levels],
         DOMAIN tables' = DOMAIN tables, Shaped(lev)',
         UNCHANGED <<reserved, level0_table, region, todo, walk, down>>,
         bitmap' \in SUBSET Pages,
         unit' \in 0 .. ENTRIES[walk.level],
         pc' = "units" => EndUnit' <= ENTRIES[walk.level],
         l3_idx' \in Indices(3), block' \in EntryType,
         pc' \in PCs, fault' \in FaultType
  PROVE  TypeOK'
PROOF
  <1>1. \A t \in DOMAIN tables' : \E level \in Levels : tables'[t] \in [Indices(level) -> EntryType]
    BY DEF Shaped
  <1> QED BY <1>1 DEF TypeOK, down, PCs, FaultType, Faults

LEMMA CutToBlock ==
  ASSUME NEW p \in Nat, NEW w \in Nat \ {0}
  PROVE  p - (p % w) \in Nat
PROOF
  <1> DEFINE q == p \div w
             r == p % w
  <1>1. q \in Nat /\ r \in 0 .. (w - 1) /\ p = q * w + r
    BY Division
  <1> HIDE DEF q, r
  <1>2. q * w \in Nat
    BY <1>1
  <1>3. p - r \in Nat
    BY <1>1, <1>2
  <1> QED BY <1>3 DEF r

LEMMA PieceIs ==
  ASSUME NEW level \in {2, 3}, NEW page \in Nat, NEW type \in TYPES
  PROVE  /\ Piece(level, page, type) \in EntryType
         /\ Piece(level, page, type).bits = IF level = 3 THEN TABLE ELSE BLOCK
PROOF
  <1>1. page - (page % SIZE[level]) \in Nat
    <2>1. SIZE[level] \in Nat \ {0}
      BY SizeIs DEF Levels
    <2> QED BY <2>1, CutToBlock
  <1> QED BY <1>1 DEF Piece, mmu_create_page_entry, mmu_create_block_entry, EntryType, TABLE, BLOCK

LEMMA RegionType ==
  ASSUME TypeOK
  PROVE  region.type \in TYPES
  BY MmuAssumption DEF TypeOK, NO_REGION

LEMMA RequestedIs ==
  ASSUME TypeOK, NEW lev \in [DOMAIN tables -> Levels], Tree(lev), pc \in {"units", "pages"}
  PROVE  /\ requested_addr \in Nat
         /\ walk.level \in {2, 3} /\ walk.level = TheCall.level
         /\ Idx \in Nat /\ unit \in Nat
PROOF
  <1>1. /\ TheCall \in Calls /\ walk.level = TheCall.level /\ Idx \in Indices(walk.level)
        /\ walk.level \in Levels /\ Idx <= unit /\ unit \in 0 .. ENTRIES[walk.level]
    BY WalkIs DEF InCall, Tree, Walking, TypeOK
  <1>2. /\ walk.level \in {2, 3} /\ TheCall.address \in Nat /\ Idx \in Nat /\ unit \in Nat
        /\ SIZE[walk.level] \in Nat
    BY <1>1, SizeIs, EntriesAre, MmuAssumption DEF Calls, Indices
  <1>3. (unit - Idx) * SIZE[walk.level] \in Nat
    <2>1. unit - Idx \in Nat
      BY <1>1, <1>2
    <2> QED BY <1>2, <2>1
  <1>4. requested_addr \in Nat
    BY <1>2, <1>3, Remainder, MmuAssumption DEF requested_addr
  <1> QED BY <1>1, <1>2, <1>4

LEMMA UnitsType ==
  ASSUME TypeOK, NEW lev \in [DOMAIN tables -> Levels], Tree(lev), InUnits
  PROVE  /\ pc = "units" /\ InCall /\ level0_table # NULL /\ ~Destroying
         /\ unit \in Indices(walk.level) /\ unit < EndUnit
         /\ walk.table \in DOMAIN tables /\ lev[walk.table] = walk.level
         /\ UnitEntry \in EntryType
         /\ unit + 1 \in 0 .. ENTRIES[walk.level] /\ unit + 1 <= EndUnit
         /\ Idx <= unit + 1 /\ EndUnit <= ENTRIES[walk.level]
PROOF
  <1>1. pc = "units" /\ InCall /\ unit < EndUnit
    BY DEF InUnits, InCall
  <1>2. /\ EndUnit \in Nat /\ EndUnit <= ENTRIES[walk.level] /\ level0_table # NULL /\ ~Destroying
        /\ walk.table \in DOMAIN tables /\ lev[walk.table] = walk.level /\ walk.level \in Levels
        /\ Idx \in Indices(walk.level)
    BY <1>1, WalkIs
  <1>3. ENTRIES[walk.level] \in Nat
    BY <1>2, EntriesAre
  <1>4. unit \in Nat /\ Idx <= unit /\ Idx \in Nat
    BY <1>1, <1>2, <1>3 DEF TypeOK, Tree, Walking, Indices
  <1>5. unit \in Indices(walk.level)
    BY <1>1, <1>2, <1>3, <1>4 DEF Indices
  <1>6. UnitEntry \in EntryType
    BY <1>2, <1>5 DEF UnitEntry, Tree, Shaped
  <1> QED BY <1>1, <1>2, <1>3, <1>4, <1>5, <1>6

\* A unit is done: the entry now holds e, which is no table.
LEMMA UnitStep ==
  ASSUME TypeOK, fault = "none", NEW lev \in [DOMAIN tables -> Levels], Tree(lev),
         UNCHANGED reserved, InUnits, NextUnit,
         NEW e \in EntryType, e.bits = IF walk.level = 3 THEN TABLE ELSE BLOCK,
         walk.level = 2 => UnitEntry.bits # TABLE,
         Put(walk.table, unit, e),
         bitmap' \in SUBSET Pages, bitmap \subseteq bitmap', fault' \in FaultType
  PROVE  IInv'
PROOF
  <1>1. /\ unit' = unit + 1
        /\ UNCHANGED <<level0_table, pc, region, todo, walk, l3_idx, block, down>>
    BY DEF NextUnit, request
  <1>2. /\ pc = "units" /\ level0_table # NULL /\ ~Destroying
        /\ unit \in Indices(walk.level)
        /\ walk.table \in DOMAIN tables /\ lev[walk.table] = walk.level
        /\ unit + 1 \in 0 .. ENTRIES[walk.level] /\ unit + 1 <= EndUnit
        /\ Idx <= unit + 1 /\ EndUnit <= ENTRIES[walk.level]
    BY UnitsType
  <1>3. walk.level \in {2, 3}
    BY <1>2, RequestedIs
  <1>4. /\ DOMAIN tables' = DOMAIN tables
        /\ Shaped(lev)'
        /\ tables'[walk.table][unit] = e
        /\ \A u \in DOMAIN tables : \A j \in Indices(lev[u]) :
             u # walk.table \/ j # unit => tables'[u][j] = tables[u][j]
    <2>1. Shaped(lev) /\ (e.bits = 0 => e = EMPTY_ENTRY) /\ (e.bits = BLOCK => lev[walk.table] = 2)
      BY <1>2, <1>3 DEF Tree, TABLE, BLOCK
    <2>2. unit \in Indices(lev[walk.table])
      BY <1>2
    <2> QED BY <1>2, <2>1, <2>2, PutIs
  <1>5. /\ TheCall' = TheCall /\ Idx' = Idx /\ EndUnit' = EndUnit
        /\ ~Destroying'
    BY <1>1, <1>2, CursorStays DEF Destroying
  <1>6. TypeOK'
    <2>1. /\ unit' \in 0 .. ENTRIES[walk.level] /\ EndUnit' <= ENTRIES[walk.level]
          /\ pc' \in PCs /\ l3_idx' \in Indices(3) /\ block' \in EntryType
      BY <1>1, <1>2, <1>5 DEF TypeOK, PCs
    <2> QED BY <1>1, <1>4, <2>1, DataType
  <1>7. Linked(lev)' /\ Rooted(lev)' /\ Destruction(lev)'
    <2>1. ASSUME NEW t \in DOMAIN tables, NEW i \in Indices(lev[t]), lev[t] < 3
          PROVE  /\ tables'[t][i].bits = TABLE <=> tables[t][i].bits = TABLE
                 /\ tables[t][i].bits = TABLE => tables'[t][i].page = tables[t][i].page
      <3>1. CASE t # walk.table \/ i # unit
        BY <1>4, <3>1
      <3>2. CASE t = walk.table /\ i = unit
        BY <1>2, <1>3, <1>4, <2>1, <3>2 DEF UnitEntry, TABLE, BLOCK
      <3> QED BY <3>1, <3>2
    <2> QED BY <1>1, <1>2, <1>4, <1>5, <2>1, TreeStays
  <1>8. Walking(lev)'
    BY <1>1, <1>2, <1>4, <1>5 DEF Tree, Walking, InCall
  <1>9. lev \in [DOMAIN tables' -> Levels]
    BY <1>4
  <1> QED BY <1>4, <1>6, <1>7, <1>8, <1>9 DEF IInv, Tree

LEMMA UnitCreatedStep ==
  ASSUME TypeOK, fault = "none", NEW lev \in [DOMAIN tables -> Levels], Tree(lev),
         UNCHANGED reserved, UnitCreated
  PROVE  IInv'
PROOF
  <1> DEFINE e == Piece(walk.level, UnitSpace.page, region.type)
  <1>1. /\ InUnits /\ NextUnit /\ UnitEntry = EMPTY_ENTRY
        /\ bitmap' = UnitSpace.bitmap /\ fault' = Got(UnitSpace, SIZE[walk.level])
        /\ Put(walk.table, unit, e)
    BY DEF UnitCreated, Put
  <1>2. requested_addr \in Nat /\ walk.level \in {2, 3}
    BY <1>1, RequestedIs DEF InUnits
  <1>3. SIZE[walk.level] \in Nat \ {0}
    BY <1>2, SizeIs DEF Levels
  <1>4. UnitSpace.page \in Nat /\ UnitSpace.bitmap \in SUBSET Pages /\ bitmap \subseteq UnitSpace.bitmap
    BY <1>2, <1>3, SpaceIs DEF UnitSpace, TypeOK
  <1>5. e \in EntryType /\ e.bits = IF walk.level = 3 THEN TABLE ELSE BLOCK
    BY <1>2, <1>4, PieceIs, RegionType
  <1>6. fault' \in FaultType
    BY <1>1 DEF Got, FaultType, Faults
  <1>7. UnitEntry.bits # TABLE
    BY <1>1 DEF EMPTY_ENTRY, TABLE
  <1> HIDE DEF e
  <1> QED BY <1>1, <1>4, <1>5, <1>6, <1>7, UnitStep

LEMMA UnitOverriddenStep ==
  ASSUME TypeOK, fault = "none", NEW lev \in [DOMAIN tables -> Levels], Tree(lev),
         UNCHANGED reserved, UnitOverridden
  PROVE  IInv'
PROOF
  <1> DEFINE e == [UnitEntry EXCEPT !.type = region.type]
  <1>1. /\ InUnits /\ NextUnit /\ UnitEntry # EMPTY_ENTRY /\ ~TableInTheWay
        /\ UNCHANGED <<bitmap, fault>>
        /\ tables' = [tables EXCEPT ![walk.table][unit].type = region.type]
    BY DEF UnitOverridden
  <1>2. /\ walk.table \in DOMAIN tables /\ lev[walk.table] = walk.level
        /\ unit \in Indices(walk.level) /\ UnitEntry \in EntryType /\ walk.level \in {2, 3}
    BY <1>1, UnitsType, RequestedIs DEF InUnits
  <1>3. Put(walk.table, unit, e)
    BY <1>1 DEF UnitEntry, Put
  <1>4. UnitEntry.bits \in {TABLE, BLOCK} /\ (UnitEntry.bits = BLOCK => walk.level = 2)
    <2>1. UnitEntry.bits # 0
      BY <1>1, <1>2 DEF UnitEntry, Tree, Shaped
    <2> QED BY <1>2, <2>1 DEF EntryType, UnitEntry, Tree, Shaped, BLOCK, TABLE
  <1>5. walk.level = 2 => UnitEntry.bits = BLOCK
    BY <1>1, <1>4 DEF TableInTheWay
  <1>6. e \in EntryType /\ e.bits = IF walk.level = 3 THEN TABLE ELSE BLOCK
    BY <1>2, <1>4, <1>5, RegionType DEF EntryType
  <1>7. bitmap' \in SUBSET Pages /\ bitmap \subseteq bitmap' /\ fault' \in FaultType
    BY <1>1 DEF TypeOK, FaultType, Faults
  <1>8. walk.level = 2 => UnitEntry.bits # TABLE
    BY <1>5 DEF TABLE, BLOCK
  <1> HIDE DEF e
  <1> QED BY <1>1, <1>3, <1>6, <1>7, <1>8, UnitStep

\* The table of pages that is in the way of a block.
LEMMA PagesType ==
  ASSUME TypeOK, NEW lev \in [DOMAIN tables -> Levels], Tree(lev), pc = "pages"
  PROVE  /\ pages \in DOMAIN tables /\ lev[pages] = 3
         /\ l3_idx \in Indices(lev[pages])
         /\ tables[pages][l3_idx] \in EntryType
         /\ walk.level = 2 /\ walk.table # pages
PROOF
  <1>1. /\ walk.level = 2 /\ TableOfFirst.bits = TABLE
        /\ walk.table \in DOMAIN tables /\ lev[walk.table] = walk.level
        /\ Idx \in Indices(walk.level)
    BY WalkIs DEF Tree, Walking, InCall
  <1>2. table_stack = <<>>
    BY DEF Tree, Destruction
  <1>3. Link(lev, walk.table, Idx)
    BY <1>1, <1>2 DEF Link, Live, TableOfFirst
  <1>4. pages \in DOMAIN tables /\ lev[pages] = 3
    BY <1>1, <1>3 DEF pages, TableOfFirst, Tree, Linked
  <1> QED BY <1>1, <1>4 DEF TypeOK, Tree, Shaped

\* A page of that table is done: its entry now holds e.
LEMMA PageStep ==
  ASSUME TypeOK, fault = "none", NEW lev \in [DOMAIN tables -> Levels], Tree(lev),
         UNCHANGED reserved, pc = "pages", NextPage,
         NEW e \in EntryType, e.bits = TABLE,
         Put(pages, l3_idx, e),
         bitmap' \in SUBSET Pages, bitmap \subseteq bitmap', fault' \in FaultType
  PROVE  IInv'
PROOF
  <1>1. /\ \/ l3_idx + 1 < ENTRIES[3] /\ l3_idx' = l3_idx + 1 /\ pc' = "pages" /\ unit' = unit
           \/ l3_idx' = 0 /\ pc' = "units" /\ unit' = unit + 1
        /\ UNCHANGED <<level0_table, region, todo, walk, block, down>>
    BY DEF NextPage, request
  <1>2. /\ pages \in DOMAIN tables /\ lev[pages] = 3 /\ l3_idx \in Indices(lev[pages])
        /\ walk.level = 2 /\ walk.table # pages
    BY PagesType
  <1>3. /\ level0_table # NULL /\ ~Destroying
        /\ walk.table \in DOMAIN tables /\ lev[walk.table] = walk.level
        /\ Idx \in Indices(walk.level)
        /\ EndUnit \in Nat /\ EndUnit <= ENTRIES[walk.level]
    BY WalkIs DEF InCall
  <1>4. unit < EndUnit /\ Idx <= unit /\ unit \in Nat /\ Idx \in Nat /\ ENTRIES[walk.level] \in Nat
    BY <1>2, RequestedIs, EntriesAre DEF Tree, Walking, Levels
  <1>5. /\ DOMAIN tables' = DOMAIN tables
        /\ Shaped(lev)'
        /\ \A u \in DOMAIN tables : \A j \in Indices(lev[u]) :
             u # pages \/ j # l3_idx => tables'[u][j] = tables[u][j]
    <2>1. Shaped(lev) /\ (e.bits = 0 => e = EMPTY_ENTRY) /\ (e.bits = BLOCK => lev[pages] = 2)
      BY DEF Tree, TABLE, BLOCK
    <2>2. pages \in DOMAIN tables /\ l3_idx \in Indices(lev[pages])
      BY <1>2
    <2> QED BY <2>1, <2>2, PutIs
  <1>6. /\ TheCall' = TheCall /\ Idx' = Idx /\ EndUnit' = EndUnit
        /\ ~Destroying' /\ TableOfFirst' = TableOfFirst
    <2>1. TheCall' = TheCall /\ Idx' = Idx /\ EndUnit' = EndUnit
      BY <1>1, CursorStays
    <2>2. tables'[walk.table][Idx] = tables[walk.table][Idx]
      BY <1>2, <1>3, <1>5
    <2> QED BY <1>1, <2>1, <2>2 DEF Destroying, TableOfFirst
  <1>7. TypeOK'
    <2>1. 0 \in Indices(3) /\ (l3_idx + 1 < ENTRIES[3] => l3_idx + 1 \in Indices(3))
      BY <1>2, EntriesAre DEF Indices, Levels
    <2>2. /\ unit' \in 0 .. ENTRIES[walk.level] /\ EndUnit' <= ENTRIES[walk.level]
          /\ pc' \in PCs /\ l3_idx' \in Indices(3) /\ block' \in EntryType
      <3>1. unit' = unit \/ unit' = unit + 1
        BY <1>1
      <3>2. unit' \in 0 .. ENTRIES[walk.level] /\ EndUnit' <= ENTRIES[walk.level]
        BY <1>3, <1>4, <1>6, <3>1
      <3>3. pc' \in PCs /\ l3_idx' \in Indices(3) /\ block' \in EntryType
        BY <1>1, <2>1 DEF TypeOK, PCs
      <3> QED BY <3>2, <3>3
    <2>3. /\ UNCHANGED <<level0_table, request, walk, down>> /\ bitmap' \in SUBSET Pages
          /\ fault' \in FaultType
      BY <1>1 DEF request, down
    <2> QED BY <1>5, <2>2, <2>3, DataType DEF request, down
  <1>8. Linked(lev)' /\ Rooted(lev)' /\ Destruction(lev)'
    <2>1. \A t \in DOMAIN tables : \A i \in Indices(lev[t]) : lev[t] < 3 =>
             tables'[t][i] = tables[t][i]
      BY <1>2, <1>5
    <2> QED BY <1>1, <1>3, <1>5, <1>6, <2>1, TreeStays
  <1>9. Walking(lev)'
    BY <1>1, <1>2, <1>3, <1>4, <1>5, <1>6 DEF Tree, Walking, InCall
  <1>10. lev \in [DOMAIN tables' -> Levels]
    BY <1>5
  <1> QED BY <1>5, <1>7, <1>8, <1>9, <1>10 DEF IInv, Tree

LEMMA PageCreatedStep ==
  ASSUME TypeOK, fault = "none", NEW lev \in [DOMAIN tables -> Levels], Tree(lev),
         UNCHANGED reserved, PageCreated
  PROVE  IInv'
PROOF
  <1> DEFINE e == mmu_create_page_entry(PageSpace.page, region.type)
  <1>1. /\ pc = "pages" /\ NextPage
        /\ bitmap' = PageSpace.bitmap /\ fault' = Got(PageSpace, 1)
        /\ Put(pages, l3_idx, e)
    BY DEF PageCreated, Put
  <1>2. requested_addr + l3_idx \in Nat
    <2>1. requested_addr \in Nat
      BY <1>1, RequestedIs
    <2>2. l3_idx \in Nat
      BY EntriesAre DEF TypeOK, Indices, Levels
    <2> QED BY <2>1, <2>2
  <1>3. PageSpace.page \in Nat /\ PageSpace.bitmap \in SUBSET Pages /\ bitmap \subseteq PageSpace.bitmap
    <2> DEFINE at == requested_addr + l3_idx
    <2>1. PageSpace = get_phys_space(at, 1, 1) /\ bitmap \in SUBSET Pages /\ 1 \in Nat \ {0} /\ 1 \in Nat
      BY DEF PageSpace, TypeOK
    <2> HIDE DEF at
    <2>2. at \in Nat
      BY <1>2 DEF at
    <2> QED BY <2>1, <2>2, SpaceIs
  <1>4. e \in EntryType /\ e.bits = TABLE
    BY <1>3, RegionType DEF mmu_create_page_entry, EntryType, TABLE
  <1>5. fault' \in FaultType
    BY <1>1 DEF Got, FaultType, Faults
  <1> HIDE DEF e
  <1> QED BY <1>1, <1>3, <1>4, <1>5, PageStep

LEMMA PageOverriddenStep ==
  ASSUME TypeOK, fault = "none", NEW lev \in [DOMAIN tables -> Levels], Tree(lev),
         UNCHANGED reserved, PageOverridden
  PROVE  IInv'
PROOF
  <1> DEFINE old == tables[pages][l3_idx]
             e == [old EXCEPT !.type = region.type]
  <1>1. /\ pc = "pages" /\ NextPage /\ old.bits # 0
        /\ UNCHANGED <<bitmap, fault>>
        /\ tables' = [tables EXCEPT ![pages][l3_idx].type = region.type]
    BY DEF PageOverridden
  <1>2. /\ pages \in DOMAIN tables /\ lev[pages] = 3 /\ l3_idx \in Indices(lev[pages])
        /\ old \in EntryType
    BY <1>1, PagesType
  <1>3. old.bits = TABLE
    BY <1>1, <1>2 DEF Tree, Shaped, EntryType
  <1>4. e \in EntryType /\ e.bits = TABLE
    BY <1>2, <1>3, RegionType DEF EntryType
  <1>5. Put(pages, l3_idx, e)
    BY <1>1 DEF Put
  <1>6. bitmap' \in SUBSET Pages /\ bitmap \subseteq bitmap' /\ fault' \in FaultType
    BY <1>1 DEF TypeOK, FaultType, Faults
  <1> HIDE DEF e, old
  <1> QED BY <1>1, <1>4, <1>5, <1>6, PageStep

\* What an int makes of the address of a block.
LEMMA BaseIs ==
  ASSUME TypeOK
  PROVE  new_table_base \in Nat
PROOF
  <1> DEFINE low == block.page % (2 * INT_PAGES)
  <1>1. block.page \in Nat /\ INT_PAGES \in Nat \ {0} /\ FRAMES \in Nat /\ FRAMES >= 2 * INT_PAGES
    BY SplitAssumption DEF TypeOK, EntryType
  <1>2. low \in Nat
    <2>1. 2 * INT_PAGES \in Nat \ {0}
      BY <1>1
    <2> QED BY <1>1, <2>1, Division
  <1>3. new_table_base = IF low < INT_PAGES THEN low ELSE FRAMES - 2 * INT_PAGES + low
    BY DEF new_table_base
  <1> HIDE DEF low
  <1> QED BY <1>1, <1>2, <1>3

\* A split fills a table of pages.
LEMMA SplitFillsStep ==
  ASSUME TypeOK, fault = "none", NEW lev \in [DOMAIN tables -> Levels], Tree(lev),
         UNCHANGED reserved, SplitFills
  PROVE  IInv'
PROOF
  <1> DEFINE piece(i) == Piece(walk.level, new_table_base + i * SIZE[walk.level], block.type)
             filled == [i \in Indices(walk.level) |-> piece(i)]
  <1>1. /\ pc = "split" /\ pc' = "traverse" /\ block' = EMPTY_ENTRY
        /\ tables' = [tables EXCEPT ![walk.table] = filled]
        /\ UNCHANGED <<bitmap, level0_table, region, todo, walk, unit, l3_idx, down>>
        /\ fault' \in FaultType
    BY DEF SplitFills, request, FaultType, Faults
  <1>2. /\ walk.table \in DOMAIN tables /\ lev[walk.table] = walk.level /\ walk.level = 3
        /\ level0_table # NULL /\ ~Destroying /\ ~Destroying' /\ unit = 0
    BY <1>1, WalkIs DEF InCall, Tree, Walking, Destroying
  <1>3. ASSUME NEW i \in Indices(walk.level)
        PROVE  piece(i) \in EntryType /\ piece(i).bits = TABLE
    <2>1. new_table_base + i * SIZE[walk.level] \in Nat
      <3>1. SIZE[walk.level] = 1 /\ i \in Nat /\ new_table_base \in Nat
        BY <1>2, SizeIs, EntriesAre, BaseIs DEF Indices, Levels
      <3> QED BY <3>1
    <2>2. block.type \in TYPES
      BY DEF TypeOK, EntryType
    <2> QED BY <1>2, <2>1, <2>2, PieceIs
  <1> HIDE DEF piece
  <1>4. /\ DOMAIN tables' = DOMAIN tables
        /\ \A u \in DOMAIN tables : u # walk.table => tables'[u] = tables[u]
        /\ tables'[walk.table] = filled
    BY <1>1, <1>2
  <1>5. Shaped(lev)'
    <2>1. ASSUME NEW u \in DOMAIN tables
          PROVE  /\ tables'[u] \in [Indices(lev[u]) -> EntryType]
                 /\ \A j \in Indices(lev[u]) :
                      /\ tables'[u][j].bits = 0 => tables'[u][j] = EMPTY_ENTRY
                      /\ tables'[u][j].bits = BLOCK => lev[u] = 2
      <3>1. CASE u = walk.table
        BY <1>2, <1>3, <1>4, <3>1 DEF TABLE, BLOCK
      <3>2. CASE u # walk.table
        BY <1>4, <3>2 DEF Tree, Shaped
      <3> QED BY <3>1, <3>2
    <2> QED BY <1>4, <2>1 DEF Tree, Shaped
  <1>6. Linked(lev)' /\ Rooted(lev)' /\ Destruction(lev)'
    <2>1. \A t \in DOMAIN tables : \A i \in Indices(lev[t]) : lev[t] < 3 =>
             tables'[t][i] = tables[t][i]
      BY <1>2, <1>4
    <2> HIDE DEF filled
    <2> QED BY <1>1, <1>2, <1>4, <1>5, <2>1, TreeStays
  <1>7. TypeOK'
    <2>1. EMPTY_ENTRY \in EntryType
      BY MmuAssumption DEF EMPTY_ENTRY, EntryType, NULL
    <2>2. /\ unit' \in 0 .. ENTRIES[walk.level] /\ bitmap' \in SUBSET Pages
          /\ pc' \in PCs /\ l3_idx' \in Indices(3) /\ block' \in EntryType /\ fault' \in FaultType
      BY <1>1, <2>1 DEF TypeOK, PCs, FaultType, Faults
    <2> HIDE DEF filled
    <2> QED BY <1>1, <1>4, <1>5, <2>2, DataType
  <1>8. Walking(lev)'
    <2>1. TheCall' = TheCall
      BY <1>1 DEF TheCall
    <2> HIDE DEF filled
    <2> QED BY <1>1, <1>2, <1>4, <2>1 DEF Tree, Walking, InCall
  <1> HIDE DEF filled
  <1>9. lev \in [DOMAIN tables' -> Levels]
    BY <1>4
  <1> QED BY <1>5, <1>6, <1>7, <1>8, <1>9 DEF IInv, Tree

-----------------------------------------------------------------------------
(***************************************************************************)
(* The steps of a mapping that add a table.                                *)
(***************************************************************************)
LEMMA EmptyIs == EMPTY_ENTRY \in EntryType /\ EMPTY_ENTRY.bits = 0
  BY MmuAssumption DEF EMPTY_ENTRY, EntryType, NULL

\* The levels with a new table.
With(lev, page, level) == [t \in DOMAIN tables \cup {page} |-> IF t = page THEN level ELSE lev[t]]

\* What a walk finds where it stands.
LEMMA TraversingIs ==
  ASSUME TypeOK, NEW lev \in [DOMAIN tables -> Levels], Tree(lev), Traversing
  PROVE  /\ pc = "traverse" /\ InCall /\ ~Destroying /\ level0_table # NULL /\ unit = 0
         /\ todo # <<>> /\ TheCall \in Calls
         /\ walk.level \in 0 .. 2 /\ walk.level + 1 \in Levels /\ walk.level + 1 <= TheCall.level
         /\ walk.table \in DOMAIN tables /\ lev[walk.table] = walk.level
         /\ Idx \in Indices(walk.level) /\ Entry \in EntryType
         /\ walk.rest % SIZE[walk.level] \in Nat
         /\ walk.rest % SIZE[walk.level] < ENTRIES[walk.level + 1] * SIZE[walk.level + 1]
         /\ table_stack = <<>>
PROOF
  <1>1. pc = "traverse" /\ InCall /\ walk.level < TheCall.level
    BY DEF Traversing, InCall
  <1>2. /\ ~Destroying /\ level0_table # NULL /\ TheCall \in Calls
        /\ walk.table \in DOMAIN tables /\ lev[walk.table] = walk.level
        /\ walk.level \in Levels /\ walk.rest \in Nat
        /\ Idx \in Indices(walk.level) /\ Entry \in EntryType
    BY <1>1, WalkIs
  <1>3. unit = 0 /\ todo # <<>> /\ walk.rest < ENTRIES[walk.level] * SIZE[walk.level]
    BY <1>1 DEF Tree, Walking
  <1>4. walk.level \in 0 .. 2 /\ walk.level + 1 \in Levels /\ walk.level + 1 <= TheCall.level
    BY <1>1, <1>2 DEF Calls, Levels
  <1>5. table_stack = <<>>
    BY <1>1 DEF Tree, Destruction
  <1> QED BY <1>1, <1>2, <1>3, <1>4, <1>5, IndexIs

LEMMA NewTableIs ==
  ASSUME TypeOK, NEW lev \in [DOMAIN tables -> Levels], Tree(lev), Traversing, LinkNewTable
  PROVE  LET new == NewPage.page
             l2  == With(lev, new, walk.level + 1)
         IN  /\ new \in Pages /\ new \notin DOMAIN tables
             /\ DOMAIN tables' = DOMAIN tables \cup {new}
             /\ l2 \in [DOMAIN tables' -> Levels]
             /\ tables'[new] = Zeroed(walk.level + 1)
             /\ tables'[walk.table][Idx] = mmu_create_table_entry(new)
             /\ \A u \in DOMAIN tables : \A j \in Indices(lev[u]) :
                  u # walk.table \/ j # Idx => tables'[u][j] = tables[u][j]
             /\ \A u \in DOMAIN tables' : tables'[u] \in [Indices(l2[u]) -> EntryType]
PROOF
  <1> DEFINE new == NewPage.page
             l2 == With(lev, new, walk.level + 1)
             grown == WithTable(new, Zeroed(walk.level + 1))
             link == mmu_create_table_entry(new)
  <1>1. tables' = [grown EXCEPT ![walk.table][Idx] = link]
    BY DEF LinkNewTable
  <1>2. new \in Pages /\ new \notin DOMAIN tables
    BY NewPageIs, TraversingIs DEF TypeOK, Tree, Shaped, Rooted
  <1>3. /\ walk.table \in DOMAIN tables /\ lev[walk.table] = walk.level
        /\ walk.level + 1 \in Levels /\ Idx \in Indices(walk.level)
    BY TraversingIs
  <1>4. /\ DOMAIN grown = DOMAIN tables \cup {new}
        /\ grown[new] = Zeroed(walk.level + 1)
        /\ \A u \in DOMAIN tables : grown[u] = tables[u]
    BY <1>2 DEF WithTable
  <1>5. link \in EntryType
    BY <1>2, PageCountType, MmuAssumption DEF mmu_create_table_entry, EntryType, TABLE, Pages
  <1> HIDE DEF new, grown, link
  <1>6. /\ DOMAIN tables' = DOMAIN tables \cup {new}
        /\ tables'[new] = Zeroed(walk.level + 1)
        /\ \A u \in DOMAIN tables : u # walk.table => tables'[u] = tables[u]
        /\ tables'[walk.table] = [tables[walk.table] EXCEPT ![Idx] = link]
    BY <1>1, <1>2, <1>3, <1>4
  <1>7. \A u \in DOMAIN tables : tables[u] \in [Indices(lev[u]) -> EntryType]
    BY DEF Tree, Shaped
  <1>8. /\ tables'[walk.table][Idx] = link
        /\ tables'[walk.table] \in [Indices(lev[walk.table]) -> EntryType]
        /\ \A j \in Indices(lev[walk.table]) : j # Idx => tables'[walk.table][j] = tables[walk.table][j]
    BY <1>3, <1>5, <1>6, <1>7
  <1>9. \A u \in DOMAIN tables : \A j \in Indices(lev[u]) :
          u # walk.table \/ j # Idx => tables'[u][j] = tables[u][j]
    BY <1>6, <1>8
  <1>10. l2 \in [DOMAIN tables' -> Levels]
    BY <1>3, <1>6 DEF With
  <1>11. ASSUME NEW u \in DOMAIN tables' PROVE tables'[u] \in [Indices(l2[u]) -> EntryType]
    <2>1. CASE u = new
      <3>1. l2[u] = walk.level + 1
        BY <1>6, <2>1 DEF With
      <3> QED BY <1>6, <2>1, <3>1, EmptyIs DEF Zeroed
    <2>2. CASE u # new
      <3>1. l2[u] = lev[u] /\ u \in DOMAIN tables
        BY <1>6, <2>2 DEF With
      <3> QED BY <1>6, <1>7, <1>8, <3>1
    <2> QED BY <2>1, <2>2
  <1> HIDE DEF l2
  <1> QED BY <1>2, <1>6, <1>8, <1>9, <1>10, <1>11 DEF new, link, l2

LEMMA NewTableType ==
  ASSUME TypeOK, NEW lev \in [DOMAIN tables -> Levels], Tree(lev), Traversing, LinkNewTable,
         UNCHANGED <<reserved, level0_table, region, todo, unit, l3_idx, down>>,
         block' \in EntryType, pc' \in {"traverse", "split"}
  PROVE  TypeOK'
PROOF
  <1>1. /\ bitmap' = NewPage.bitmap /\ fault' = Claimed(NewPage.page)
        /\ walk' = [table |-> NewPage.page, level |-> walk.level + 1,
                    rest |-> walk.rest % SIZE[walk.level]]
    BY DEF LinkNewTable, Enter
  <1>2. bitmap' \in SUBSET Pages
    BY <1>1, NewPageIs DEF TypeOK
  <1>3. \A t \in DOMAIN tables' : \E level \in Levels : tables'[t] \in [Indices(level) -> EntryType]
    BY NewTableIs
  <1>4. walk' \in Walks /\ walk'.level = walk.level + 1 /\ walk'.level \in Levels
    BY <1>1, NewPageIs, TraversingIs DEF Walks, TypeOK
  <1>5. unit' \in 0 .. ENTRIES[walk'.level] /\ fault' \in FaultType
    BY <1>1, <1>4, TraversingIs, EntriesAre DEF Claimed, FaultType, Faults
  <1> QED BY <1>2, <1>3, <1>4, <1>5 DEF TypeOK, down, PCs, FaultType, Faults, Walks

LEMMA NewTableTree ==
  ASSUME TypeOK, NEW lev \in [DOMAIN tables -> Levels], Tree(lev), Traversing, LinkNewTable,
         UNCHANGED <<reserved, level0_table, region, todo, unit, l3_idx, down>>,
         NewPage.page # NULL, Entry.bits # TABLE,
         pc' = "traverse" \/ (pc' = "split" /\ walk.level = 2)
  PROVE  \E l \in [DOMAIN tables' -> Levels] : Tree(l)'
PROOF
  <1>0. PICK new \in Pages, l2 \in [DOMAIN tables' -> Levels] :
          new = NewPage.page /\ l2 = With(lev, new, walk.level + 1)
    BY NewTableIs
  <1>1. /\ new \in Pages /\ new \notin DOMAIN tables
        /\ DOMAIN tables' = DOMAIN tables \cup {new}
        /\ l2 \in [DOMAIN tables' -> Levels]
        /\ tables'[new] = Zeroed(walk.level + 1)
        /\ tables'[walk.table][Idx] = mmu_create_table_entry(new)
        /\ \A u \in DOMAIN tables : \A j \in Indices(lev[u]) :
             u # walk.table \/ j # Idx => tables'[u][j] = tables[u][j]
        /\ \A u \in DOMAIN tables' : tables'[u] \in [Indices(l2[u]) -> EntryType]
    BY <1>0, NewTableIs
  <1>2. /\ bitmap' = bitmap \cup {new} /\ new # NULL
        /\ walk' = [table |-> new, level |-> walk.level + 1, rest |-> walk.rest % SIZE[walk.level]]
    BY <1>0, NewPageIs DEF LinkNewTable, Enter, TypeOK
  <1>3. /\ pc = "traverse" /\ ~Destroying /\ level0_table # NULL /\ unit = 0
        /\ todo # <<>> /\ TheCall \in Calls
        /\ walk.level \in 0 .. 2 /\ walk.level + 1 \in Levels /\ walk.level + 1 <= TheCall.level
        /\ walk.table \in DOMAIN tables /\ lev[walk.table] = walk.level
        /\ Idx \in Indices(walk.level)
        /\ walk.rest % SIZE[walk.level] \in Nat
        /\ walk.rest % SIZE[walk.level] < ENTRIES[walk.level + 1] * SIZE[walk.level + 1]
        /\ table_stack = <<>>
    BY TraversingIs
  <1>4. /\ l2[new] = walk.level + 1 /\ \A u \in DOMAIN tables : l2[u] = lev[u]
    BY <1>0, <1>1 DEF With
  <1>5. /\ \A t, i : Live(t, i) /\ Live(t, i)'
        /\ Places = {} /\ Places' = {} /\ table_stack' = <<>> /\ pc' # "entry" /\ ~Destroying'
    BY <1>3 DEF Live, Places, down, Destroying
  <1>6. /\ mmu_create_table_entry(new).bits = TABLE /\ mmu_create_table_entry(new).page = new
        /\ \A i \in Indices(walk.level + 1) : tables'[new][i] = EMPTY_ENTRY
    BY <1>1 DEF mmu_create_table_entry, Zeroed
  <1>7. Shaped(l2)'
    <2>1. DOMAIN tables' \subseteq Pages \ {NULL}
      BY <1>1, <1>2 DEF Tree, Shaped
    <2>2. ASSUME NEW u \in DOMAIN tables', NEW j \in Indices(l2[u])
          PROVE  /\ tables'[u][j].bits = 0 => tables'[u][j] = EMPTY_ENTRY
                 /\ tables'[u][j].bits = BLOCK => l2[u] = 2
      <3>1. CASE u = new
        BY <1>4, <1>6, <3>1, EmptyIs DEF BLOCK
      <3>2. CASE u = walk.table /\ j = Idx
        BY <1>1, <1>6, <3>2 DEF BLOCK, TABLE
      <3>3. CASE u # new /\ ~(u = walk.table /\ j = Idx)
        <4>1. u \in DOMAIN tables /\ l2[u] = lev[u] /\ tables'[u][j] = tables[u][j]
          BY <1>1, <1>4, <3>3
        <4> QED BY <4>1 DEF Tree, Shaped
      <3> QED BY <3>1, <3>2, <3>3
    <2> QED BY <1>1, <2>1, <2>2 DEF Shaped
  <1>8. ~Link(lev, walk.table, Idx)
    BY DEF Link, Entry
  <1>9. ASSUME NEW t \in DOMAIN tables', NEW i \in Indices(l2[t])
        PROVE  Link(l2, t, i)' <=> \/ t \in DOMAIN tables /\ Link(lev, t, i)
                                   \/ t = walk.table /\ i = Idx
    <2>1. CASE t = new
      BY <1>1, <1>3, <1>4, <1>6, <2>1, EmptyIs DEF Link, TABLE
    <2>2. CASE t = walk.table /\ i = Idx
      BY <1>1, <1>3, <1>4, <1>5, <1>6, <2>2 DEF Link
    <2>3. CASE t # new /\ ~(t = walk.table /\ i = Idx)
      <3>1. t \in DOMAIN tables /\ l2[t] = lev[t] /\ tables'[t][i] = tables[t][i]
        BY <1>1, <1>4, <2>3
      <3> QED BY <1>1, <1>5, <2>3, <3>1 DEF Link
    <2> QED BY <2>1, <2>2, <2>3
  <1>10. ASSUME NEW t \in DOMAIN tables, NEW i \in Indices(lev[t]), Link(lev, t, i)
         PROVE  /\ tables'[t][i] = tables[t][i]
                /\ tables[t][i].page \in DOMAIN tables
                /\ lev[tables[t][i].page] = lev[t] + 1
    <2>1. t # walk.table \/ i # Idx
      BY <1>8, <1>10
    <2> QED BY <1>1, <1>10, <2>1 DEF Tree, Linked
  <1>11. Linked(l2)'
    <2>1. ASSUME NEW t \in DOMAIN tables', NEW i \in Indices(l2[t]), Link(l2, t, i)'
          PROVE  /\ tables'[t][i].page \in DOMAIN tables' \ Places'
                 /\ l2[tables'[t][i].page] = l2[t] + 1
      <3>1. CASE t = walk.table /\ i = Idx
        BY <1>1, <1>3, <1>4, <1>5, <1>6, <3>1
      <3>2. CASE t \in DOMAIN tables /\ Link(lev, t, i)
        BY <1>1, <1>4, <1>5, <1>10, <3>2
      <3> QED BY <1>9, <2>1, <3>1, <3>2
    <2>2. ASSUME NEW t \in DOMAIN tables', NEW u \in DOMAIN tables',
                 NEW i \in Indices(l2[t]), NEW j \in Indices(l2[u]),
                 Link(l2, t, i)', Link(l2, u, j)', tables'[t][i].page = tables'[u][j].page
          PROVE  t = u /\ i = j
      <3>1. CASE t = walk.table /\ i = Idx
        <4>1. tables'[u][j].page = new
          BY <1>1, <1>6, <2>2, <3>1
        <4>2. ~(u \in DOMAIN tables /\ Link(lev, u, j))
          BY <1>1, <1>4, <1>10, <4>1
        <4> QED BY <1>9, <2>2, <3>1, <4>2
      <3>2. CASE u = walk.table /\ j = Idx
        <4>1. tables'[t][i].page = new
          BY <1>1, <1>6, <2>2, <3>2
        <4>2. ~(t \in DOMAIN tables /\ Link(lev, t, i))
          BY <1>1, <1>4, <1>10, <4>1
        <4> QED BY <1>9, <2>2, <3>2, <4>2
      <3>3. CASE t \in DOMAIN tables /\ Link(lev, t, i) /\ u \in DOMAIN tables /\ Link(lev, u, j)
        <4>1. i \in Indices(lev[t]) /\ j \in Indices(lev[u])
          BY <1>4, <3>3
        <4>2. tables[t][i].page = tables[u][j].page
          BY <1>10, <2>2, <3>3, <4>1
        <4> QED BY <3>3, <4>1, <4>2 DEF Tree, Linked
      <3> QED BY <1>9, <2>2, <3>1, <3>2, <3>3
    <2>3. ASSUME NEW t \in DOMAIN tables', l2[t] # 0
          PROVE  \E u \in DOMAIN tables' : \E i \in Indices(l2[u]) :
                   Link(l2, u, i)' /\ tables'[u][i].page = t
      <3>1. CASE t = new
        <4>1. walk.table \in DOMAIN tables' /\ Idx \in Indices(l2[walk.table])
          BY <1>1, <1>3, <1>4
        <4> QED BY <1>1, <1>6, <1>9, <3>1, <4>1
      <3>2. CASE t # new
        <4>1. t \in DOMAIN tables /\ lev[t] # 0 /\ t \notin Places
          BY <1>1, <1>4, <1>5, <2>3, <3>2
        <4>2. PICK u \in DOMAIN tables : \E i \in Indices(lev[u]) : Link(lev, u, i) /\ tables[u][i].page = t
          BY <4>1 DEF Tree, Linked
        <4>3. PICK i \in Indices(lev[u]) : Link(lev, u, i) /\ tables[u][i].page = t
          BY <4>2
        <4>4. u \in DOMAIN tables' /\ i \in Indices(l2[u]) /\ tables'[u][i].page = t
          BY <1>1, <1>4, <1>10, <4>3
        <4> QED BY <1>9, <4>3, <4>4
      <3> QED BY <3>1, <3>2
    <2> QED BY <2>1, <2>2, <2>3 DEF Linked
  <1>12. Rooted(l2)'
    <2>1. \A t \in DOMAIN tables' : l2[t] = 0 => t = level0_table
      BY <1>1, <1>3, <1>4 DEF Tree, Rooted
    <2> QED BY <1>1, <1>2, <1>3, <1>4, <1>5, <2>1 DEF Tree, Rooted
  <1>13. Walking(l2)'
    <2>1. TheCall' = TheCall
      BY DEF TheCall
    <2> QED BY <1>1, <1>2, <1>3, <1>4, <2>1 DEF Walking, InCall
  <1>14. Destruction(l2)'
    BY <1>5 DEF Destruction
  <1>15. Tree(l2)'
    BY <1>7, <1>11, <1>12, <1>13, <1>14 DEF Tree
  <1> QED BY <1>1, <1>15

LEMMA TraverseEmptyStep ==
  ASSUME TypeOK, fault = "none", NEW lev \in [DOMAIN tables -> Levels], Tree(lev),
         UNCHANGED reserved, TraverseEmpty
  PROVE  IInv'
PROOF
  <1>1. /\ Traversing /\ Entry.bits = 0 /\ LinkNewTable
        /\ UNCHANGED <<level0_table, pc, region, todo, unit, l3_idx, block, down>>
    BY DEF TraverseEmpty, request
  <1>2. pc' = "traverse" /\ block' \in EntryType
    BY <1>1 DEF Traversing, TypeOK
  <1>3. TypeOK'
    BY <1>1, <1>2, NewTableType
  <1>4. fault' = "none" => NewPage.page # NULL
    BY <1>1 DEF LinkNewTable, Claimed
  <1>5. Entry.bits # TABLE
    BY <1>1 DEF TABLE
  <1>a. UNCHANGED <<reserved, level0_table, region, todo, unit, l3_idx, down>>
    BY <1>1
  <1>6. ASSUME fault' = "none" PROVE \E l \in [DOMAIN tables' -> Levels] : Tree(l)'
    <2>1. NewPage.page # NULL /\ (pc' = "traverse" \/ (pc' = "split" /\ walk.level = 2))
      BY <1>2, <1>4, <1>6
    <2>2. Traversing /\ LinkNewTable
      BY <1>1
    <2> QED BY <1>5, <1>a, <2>1, <2>2, NewTableTree
  <1> QED BY <1>3, <1>6 DEF IInv

LEMMA SplitLinksStep ==
  ASSUME TypeOK, fault = "none", NEW lev \in [DOMAIN tables -> Levels], Tree(lev),
         UNCHANGED reserved, SplitLinks
  PROVE  IInv'
PROOF
  <1>1. /\ Traversing /\ Entry.bits = BLOCK /\ LinkNewTable /\ block' = Entry /\ pc' = "split"
        /\ UNCHANGED <<level0_table, region, todo, unit, l3_idx, down>>
    BY DEF SplitLinks, request
  <1>2. block' \in EntryType
    BY <1>1, TraversingIs
  <1>3. TypeOK'
    BY <1>1, <1>2, NewTableType
  <1>4. fault' = "none" => NewPage.page # NULL
    BY <1>1 DEF LinkNewTable, Claimed
  <1>5. Entry.bits # TABLE
    BY <1>1 DEF TABLE, BLOCK
  <1>6. walk.level = 2
    BY <1>1, TraversingIs DEF Tree, Shaped, Entry
  <1>7. ASSUME fault' = "none" PROVE \E l \in [DOMAIN tables' -> Levels] : Tree(l)'
    <2>1. NewPage.page # NULL /\ (pc' = "traverse" \/ (pc' = "split" /\ walk.level = 2))
      BY <1>1, <1>4, <1>6, <1>7
    <2> QED BY <1>1, <1>5, <2>1, NewTableTree
  <1> QED BY <1>3, <1>7 DEF IInv

LEMMA CreateStep ==
  ASSUME TypeOK, fault = "none", NEW lev \in [DOMAIN tables -> Levels], Tree(lev),
         UNCHANGED reserved, memory_create_context
  PROVE  IInv'
PROOF
  <1>0. PICK new \in Pages : new = NewPage.page
    BY NewPageIs DEF TypeOK
  <1>l. PICK l2 \in [{new} -> Levels] : l2[new] = 0
    <2>1. [t \in {new} |-> 0] \in [{new} -> Levels]
      BY DEF Levels
    <2> QED BY <2>1
  <1>1. /\ pc = "idle" /\ level0_table = NULL
        /\ bitmap' = NewPage.bitmap /\ tables' = WithTable(new, Zeroed(0))
        /\ level0_table' = new /\ fault' = Claimed(new)
        /\ UNCHANGED <<pc, region, todo, walk, unit, l3_idx, block, down>>
    BY <1>0 DEF memory_create_context, request, cursor
  <1>2. DOMAIN tables = {} /\ table_stack = <<>> /\ unit = 0
    BY <1>1 DEF Tree, Rooted, Destruction, Walking
  <1>3. /\ DOMAIN tables' = {new} /\ tables'[new] = Zeroed(0)
        /\ tables'[new] \in [Indices(0) -> EntryType]
        /\ \A i \in Indices(0) : tables'[new][i] = EMPTY_ENTRY
    BY <1>1, <1>2, EmptyIs DEF WithTable, Zeroed
  <1>4. l2 \in [DOMAIN tables' -> Levels] /\ l2[new] = 0
    BY <1>l, <1>3
  <1>5. TypeOK'
    <2>1. bitmap' \in SUBSET Pages /\ fault' \in FaultType
      BY <1>1, NewPageIs DEF TypeOK, Claimed, FaultType, Faults
    <2>2. \A t \in DOMAIN tables' : \E level \in Levels : tables'[t] \in [Indices(level) -> EntryType]
      BY <1>3 DEF Levels
    <2>3. pc' # "units"
      BY <1>1
    <2> QED BY <1>1, <2>1, <2>2, <2>3 DEF TypeOK, down, FaultType, Faults
  <1>6. ASSUME fault' = "none" PROVE Tree(l2)'
    <2>1. new # NULL
      BY <1>1, <1>6 DEF Claimed
    <2>2. bitmap' = bitmap \cup {new}
      BY <1>0, <1>1, <2>1, NewPageIs DEF TypeOK
    <2>3. Shaped(l2)'
      BY <1>3, <1>4, <2>1, EmptyIs DEF Shaped, BLOCK
    <2>4. \A t \in DOMAIN tables' : \A i : ~Link(l2, t, i)'
      BY <1>3, <1>4, EmptyIs DEF Link, TABLE
    <2>5. Linked(l2)'
      BY <1>3, <1>4, <2>4 DEF Linked
    <2>6. Rooted(l2)'
      BY <1>1, <1>3, <1>4, <2>1, <2>2 DEF Rooted
    <2>7. Walking(l2)'
      BY <1>1, <1>2 DEF Walking, InCall
    <2>8. Destruction(l2)'
      BY <1>1, <1>2 DEF Destruction, Destroying, down
    <2> QED BY <2>3, <2>5, <2>6, <2>7, <2>8 DEF Tree
  <1> QED BY <1>4, <1>5, <1>6 DEF IInv

-----------------------------------------------------------------------------
(***************************************************************************)
(* Destruction.                                                            *)
(***************************************************************************)
PlaceType == [table : Pages, idx : Nat, level : Levels]

LEMMA DownType ==
  ASSUME TypeOK, UNCHANGED <<reserved, region, todo, walk, unit, l3_idx, block>>,
         bitmap' \in SUBSET Pages,
         \A t \in DOMAIN tables' : \E level \in Levels : tables'[t] \in [Indices(level) -> EntryType],
         level0_table' \in Pages, pc' \in PCs \ {"units"}, slot' \in 0 .. ENTRIES[0],
         table_stack' \in Seq(PlaceType), Len(table_stack') <= 3,
         \A i \in DOMAIN table_stack' : table_stack'[i].level = i,
         fault' \in FaultType
  PROVE  TypeOK'
  BY DEF TypeOK, PCs, FaultType, Faults, PlaceType

\* A link whose table becomes the place of the destruction.
LEMMA LinkTaken ==
  ASSUME NEW lev, Linked(lev), tables' = tables,
         NEW T \in DOMAIN tables, NEW n \in Indices(lev[T]), Link(lev, T, n),
         Places' = Places \cup {tables[T][n].page},
         \A t \in DOMAIN tables : \A i \in Indices(lev[t]) :
           Link(lev, t, i)' <=> Link(lev, t, i) /\ ~(t = T /\ i = n)
  PROVE  Linked(lev)'
PROOF
  <1>1. ASSUME NEW t \in DOMAIN tables, NEW i \in Indices(lev[t]), Link(lev, t, i)'
        PROVE  /\ tables[t][i].page \in DOMAIN tables \ Places'
               /\ lev[tables[t][i].page] = lev[t] + 1
    BY <1>1 DEF Linked
  <1>2. \A t, u \in DOMAIN tables : \A i \in Indices(lev[t]), j \in Indices(lev[u]) :
          Link(lev, t, i)' /\ Link(lev, u, j)' /\ tables[t][i].page = tables[u][j].page
            => t = u /\ i = j
    BY DEF Linked
  <1>3. ASSUME NEW t \in DOMAIN tables, lev[t] # 0, t \notin Places'
        PROVE  \E u \in DOMAIN tables : \E i \in Indices(lev[u]) :
                 Link(lev, u, i)' /\ tables[u][i].page = t
    BY <1>3 DEF Linked
  <1> QED BY <1>1, <1>2, <1>3 DEF Linked

\* What holds during a destruction.
LEMMA DestroyingIs ==
  ASSUME TypeOK, NEW lev \in [DOMAIN tables -> Levels], Tree(lev), Destroying
  PROVE  /\ ~InCall /\ unit = 0 /\ bitmap \in SUBSET Pages
         /\ level0_table # NULL /\ level0_table \in DOMAIN tables /\ lev[level0_table] = 0
         /\ \A t \in DOMAIN tables : \E level \in Levels : tables[t] \in [Indices(level) -> EntryType]
         /\ slot \in 0 .. ENTRIES[0] /\ ENTRIES[0] \in Nat \ {0}
         /\ level0_table \in Pages
  BY EntriesAre DEF Destroying, InCall, TypeOK, Tree, Walking, Rooted, Levels

LEMMA DestroyStartStep ==
  ASSUME TypeOK, fault = "none", NEW lev \in [DOMAIN tables -> Levels], Tree(lev),
         UNCHANGED reserved, memory_destroy_context
  PROVE  IInv'
PROOF
  <1>1. /\ pc = "idle" /\ pc' = "destroy" /\ slot' = 0 /\ level0_table # NULL /\ MAP_TYPE = "ALLOC"
        /\ UNCHANGED <<bitmap, tables, level0_table, region, todo, walk, unit, l3_idx, block,
                       table_stack, fault>>
    BY DEF memory_destroy_context, memory, request, cursor
  <1>2. table_stack = <<>> /\ unit = 0
    BY <1>1 DEF Tree, Destruction, Walking
  <1>3. TypeOK'
    <2>1. 0 \in 0 .. ENTRIES[0]
      BY EntriesAre DEF Levels
    <2> QED BY <1>1, <2>1 DEF TypeOK
  <1>4. Shaped(lev)'
    BY <1>1 DEF Tree, Shaped
  <1>5. Linked(lev)'
    <2>1. \A t, i : Live(t, i)' <=> Live(t, i)
      BY <1>1, <1>2 DEF Live
    <2>2. Places' = Places
      BY <1>1 DEF Places
    <2>3. \A t \in DOMAIN tables : \A i \in Indices(lev[t]) : Link(lev, t, i)' <=> Link(lev, t, i)
      BY <1>1, <2>1 DEF Link
    <2> QED BY <1>1, <2>2, <2>3, LinkedStays DEF Tree
  <1>6. Rooted(lev)'
    BY <1>1 DEF Tree, Rooted, Destroying
  <1>7. Walking(lev)'
    BY <1>1, <1>2 DEF Walking, InCall
  <1>8. Destruction(lev)'
    BY <1>1, <1>2 DEF Destruction, Destroying, Indices
  <1> QED BY <1>1, <1>3, <1>4, <1>5, <1>6, <1>7, <1>8 DEF IInv, Tree

LEMMA SlotEmptyStep ==
  ASSUME TypeOK, fault = "none", NEW lev \in [DOMAIN tables -> Levels], Tree(lev),
         UNCHANGED reserved, SlotEmpty
  PROVE  IInv'
PROOF
  <1>1. /\ pc = "destroy" /\ pc' = "destroy" /\ slot < ENTRIES[0] /\ Slot = EMPTY_ENTRY
        /\ slot' = slot + 1
        /\ UNCHANGED <<bitmap, tables, level0_table, region, todo, walk, unit, l3_idx, block,
                       table_stack, fault>>
    BY DEF SlotEmpty, memory, request, cursor
  <1>2. Destroying /\ table_stack = <<>>
    BY <1>1 DEF Tree, Destruction, Destroying
  <1>a. slot \in 0 .. ENTRIES[0] /\ ENTRIES[0] \in Nat \ {0} /\ unit = 0 /\ level0_table # NULL
    BY <1>2, DestroyingIs
  <1>3. TypeOK'
    <2>1. slot + 1 \in 0 .. ENTRIES[0]
      BY <1>1, <1>a
    <2> QED BY <1>1, <2>1 DEF TypeOK
  <1>4. Shaped(lev)'
    BY <1>1 DEF Tree, Shaped
  <1>5. Linked(lev)'
    <2>1. \A t, i : Live(t, i)' <=> Live(t, i)
      BY <1>1, <1>2 DEF Live
    <2>2. Places' = Places
      BY <1>1 DEF Places
    <2>3. \A t \in DOMAIN tables : \A i \in Indices(lev[t]) : Link(lev, t, i)' <=> Link(lev, t, i)
      BY <1>1, <2>1 DEF Link
    <2> QED BY <1>1, <2>2, <2>3, LinkedStays DEF Tree
  <1>6. Rooted(lev)'
    BY <1>1 DEF Tree, Rooted, Destroying
  <1>7. Walking(lev)'
    BY <1>1, <1>a DEF Walking, InCall
  <1>8. Destruction(lev)'
    <2>1. \A i \in Indices(0) : i < slot + 1 => tables[level0_table][i] = EMPTY_ENTRY
      <3> SUFFICES ASSUME NEW i \in Indices(0), i < slot + 1
                   PROVE  tables[level0_table][i] = EMPTY_ENTRY
        OBVIOUS
      <3>1. i < slot \/ i = slot
        BY <1>a DEF Indices
      <3> QED BY <1>1, <1>2, <3>1 DEF Tree, Destruction, Slot
    <2> QED BY <1>1, <1>2, <1>a, <2>1 DEF Tree, Destruction, Destroying
  <1> QED BY <1>1, <1>3, <1>4, <1>5, <1>6, <1>7, <1>8 DEF IInv, Tree

LEMMA SlotTakenStep ==
  ASSUME TypeOK, fault = "none", NEW lev \in [DOMAIN tables -> Levels], Tree(lev),
         UNCHANGED reserved, SlotTaken
  PROVE  IInv'
PROOF
  <1>1. /\ pc = "destroy" /\ pc' = "entry" /\ slot < ENTRIES[0] /\ Slot # EMPTY_ENTRY
        /\ table_stack' = <<[table |-> Slot.page, idx |-> 0, level |-> 1]>>
        /\ UNCHANGED <<bitmap, tables, level0_table, region, todo, walk, unit, l3_idx, block,
                       slot, fault>>
    BY DEF SlotTaken, memory, request, cursor
  <1>2. Destroying /\ table_stack = <<>> /\ Places = {}
    BY <1>1 DEF Tree, Destruction, Destroying, Places
  <1>a. /\ slot \in 0 .. ENTRIES[0] /\ ENTRIES[0] \in Nat \ {0} /\ unit = 0 /\ level0_table # NULL
        /\ level0_table \in DOMAIN tables /\ lev[level0_table] = 0
    BY <1>2, DestroyingIs
  <1>b. slot \in Indices(0) /\ ENTRIES[1] \in Nat \ {0}
    BY <1>1, <1>a, EntriesAre DEF Indices, Levels
  <1>c. Link(lev, level0_table, slot)
    <2>1. Slot.bits = TABLE
      BY <1>1, <1>a, <1>b DEF Tree, Shaped, Slot, EntryType
    <2> QED BY <1>1, <1>2, <1>a, <1>b, <2>1 DEF Link, Live, Slot
  <1>d. Slot.page \in DOMAIN tables /\ lev[Slot.page] = 1
    BY <1>a, <1>b, <1>c DEF Tree, Linked, Slot
  <1>e. /\ DOMAIN table_stack' = {1} /\ Len(table_stack') = 1
        /\ table_stack'[1].table = Slot.page /\ table_stack'[1].idx = 0
        /\ table_stack'[1].level = 1
    BY <1>1
  <1>3. TypeOK'
    <2>1. /\ bitmap' \in SUBSET Pages /\ level0_table' \in Pages /\ pc' \in PCs \ {"units"}
          /\ slot' \in 0 .. ENTRIES[0] /\ fault' \in FaultType
          /\ \A t \in DOMAIN tables' : \E level \in Levels : tables'[t] \in [Indices(level) -> EntryType]
      BY <1>1 DEF TypeOK, PCs, FaultType, Faults
    <2>2. [table |-> Slot.page, idx |-> 0, level |-> 1] \in PlaceType
      BY <1>d DEF PlaceType, Tree, Shaped, Levels
    <2>3. table_stack' \in Seq(PlaceType)
      BY <1>1, <2>2
    <2> QED BY <1>1, <1>e, <2>1, <2>3, DownType
  <1>4. Shaped(lev)'
    BY <1>1 DEF Tree, Shaped
  <1>5. Linked(lev)'
    <2>1. \A t \in DOMAIN tables : \A i \in Indices(lev[t]) :
            Live(t, i)' <=> Live(t, i) /\ ~(t = level0_table /\ i = slot)
      <3> SUFFICES ASSUME NEW t \in DOMAIN tables, NEW i \in Indices(lev[t])
                   PROVE  Live(t, i)' <=> Live(t, i) /\ ~(t = level0_table /\ i = slot)
        OBVIOUS
      <3>1. 0 <= i
        BY DEF Indices
      <3>2. Live(t, i)
        BY <1>1, <1>2 DEF Live
      <3>3. Live(t, i)' <=> ~(t = level0_table /\ i = slot)
        BY <1>1, <1>e, <3>1 DEF Live
      <3> QED BY <3>2, <3>3
    <2>2. Places' = Places \cup {tables[level0_table][slot].page}
      BY <1>2, <1>e DEF Places, Slot
    <2>3. \A t \in DOMAIN tables : \A i \in Indices(lev[t]) :
            Link(lev, t, i)' <=> Link(lev, t, i) /\ ~(t = level0_table /\ i = slot)
      BY <1>1, <2>1 DEF Link
    <2> QED BY <1>1, <1>a, <1>b, <1>c, <2>2, <2>3, LinkTaken DEF Tree
  <1>6. Rooted(lev)'
    BY <1>1 DEF Tree, Rooted, Destroying
  <1>7. Walking(lev)'
    BY <1>1, <1>a DEF Walking, InCall
  <1>8. Destruction(lev)'
    <2>1. /\ Destroying' /\ MAP_TYPE = "ALLOC"
          /\ \A i \in Indices(0) : i < slot => tables[level0_table][i] = EMPTY_ENTRY
      BY <1>1, <1>2 DEF Tree, Destruction, Destroying
    <2>2. Top'.idx = 0 /\ Top'.level = 1
      BY <1>e DEF Top
    <2>3. 0 < ENTRIES[1] /\ 0 <= ENTRIES[1]
      BY <1>b
    <2> QED BY <1>1, <1>a, <1>d, <1>e, <2>1, <2>2, <2>3 DEF Destruction
  <1> QED BY <1>1, <1>3, <1>4, <1>5, <1>6, <1>7, <1>8 DEF IInv, Tree

\* In the end the level 0 table alone is left, and it is empty.
LEMMA OnlyRoot ==
  ASSUME TypeOK, NEW lev \in [DOMAIN tables -> Levels], Tree(lev),
         pc = "destroy", slot = ENTRIES[0]
  PROVE  /\ \A t \in DOMAIN tables : t = level0_table
         /\ \A i \in Indices(0) : tables[level0_table][i] = EMPTY_ENTRY
PROOF
  <1>1. pc = "destroy" /\ slot = ENTRIES[0]
    OBVIOUS
  <1>2. Destroying /\ table_stack = <<>> /\ Places = {}
    BY <1>1 DEF Tree, Destruction, Destroying, Places
  <1>a. ENTRIES[0] \in Nat \ {0}
    BY <1>2, DestroyingIs
  <1>3. \A i \in Indices(0) : tables[level0_table][i] = EMPTY_ENTRY
    BY <1>1, <1>2, <1>a DEF Indices, Tree, Destruction
  <1>4. \A t \in DOMAIN tables : lev[t] # 1
    <2> SUFFICES ASSUME NEW t \in DOMAIN tables, lev[t] = 1 PROVE FALSE
      OBVIOUS
    <2>1. PICK u \in DOMAIN tables : \E i \in Indices(lev[u]) : Link(lev, u, i) /\ tables[u][i].page = t
      BY <1>2 DEF Tree, Linked
    <2>2. PICK i \in Indices(lev[u]) : Link(lev, u, i) /\ tables[u][i].page = t
      BY <2>1
    <2>3. lev[t] = lev[u] + 1 /\ lev[u] \in Levels
      BY <2>2 DEF Tree, Linked
    <2>4. lev[u] = 0
      BY <2>3 DEF Levels
    <2>5. u = level0_table
      BY <2>4 DEF Tree, Rooted
    <2> QED BY <1>3, <2>2, <2>4, <2>5, EmptyIs DEF Link, TABLE
  <1>5. \A t \in DOMAIN tables : lev[t] # 2
    <2> SUFFICES ASSUME NEW t \in DOMAIN tables, lev[t] = 2 PROVE FALSE
      OBVIOUS
    <2>1. PICK u \in DOMAIN tables : \E i \in Indices(lev[u]) : Link(lev, u, i) /\ tables[u][i].page = t
      BY <1>2 DEF Tree, Linked
    <2>2. PICK i \in Indices(lev[u]) : Link(lev, u, i) /\ tables[u][i].page = t
      BY <2>1
    <2>3. lev[t] = lev[u] + 1 /\ lev[u] \in Levels
      BY <2>2 DEF Tree, Linked
    <2> QED BY <1>4, <2>3 DEF Levels
  <1>6. \A t \in DOMAIN tables : lev[t] # 3
    <2> SUFFICES ASSUME NEW t \in DOMAIN tables, lev[t] = 3 PROVE FALSE
      OBVIOUS
    <2>1. PICK u \in DOMAIN tables : \E i \in Indices(lev[u]) : Link(lev, u, i) /\ tables[u][i].page = t
      BY <1>2 DEF Tree, Linked
    <2>2. PICK i \in Indices(lev[u]) : Link(lev, u, i) /\ tables[u][i].page = t
      BY <2>1
    <2>3. lev[t] = lev[u] + 1 /\ lev[u] \in Levels
      BY <2>2 DEF Tree, Linked
    <2> QED BY <1>5, <2>3 DEF Levels
  <1>7. \A t \in DOMAIN tables : t = level0_table
    BY <1>4, <1>5, <1>6 DEF Levels, Tree, Rooted
  <1> QED BY <1>3, <1>7

LEMMA DestroyReturnsStep ==
  ASSUME TypeOK, fault = "none", NEW lev \in [DOMAIN tables -> Levels], Tree(lev),
         UNCHANGED reserved, DestroyReturns
  PROVE  IInv'
PROOF
  <1>1. /\ pc = "destroy" /\ pc' = "idle" /\ slot = ENTRIES[0] /\ slot' = 0
        /\ bitmap' = memory_allocator_free_pages(bitmap, level0_table, 1)
        /\ tables' = WithoutTable(level0_table) /\ level0_table' = NULL
        /\ UNCHANGED <<region, todo, walk, unit, l3_idx, block, table_stack, fault>>
    BY DEF DestroyReturns, request, cursor
  <1>2. Destroying /\ table_stack = <<>> /\ Places = {} /\ Places' = {}
    BY <1>1 DEF Tree, Destruction, Destroying, Places
  <1>a. /\ ENTRIES[0] \in Nat \ {0} /\ unit = 0 /\ bitmap \in SUBSET Pages
    BY <1>2, DestroyingIs
  <1>7. \A t \in DOMAIN tables : t = level0_table
    BY <1>1, OnlyRoot
  <1>8. DOMAIN tables' = {}
    BY <1>1, <1>7 DEF WithoutTable
  <1>9. TypeOK'
    <2>1. /\ bitmap' \in SUBSET Pages /\ pc' \in PCs \ {"units"}
          /\ slot' \in 0 .. ENTRIES[0] /\ fault' \in FaultType
          /\ table_stack' \in Seq(PlaceType) /\ Len(table_stack') <= 3
          /\ \A i \in DOMAIN table_stack' : table_stack'[i].level = i
      BY <1>1, <1>a, FreedIs DEF TypeOK, PCs, FaultType, Faults, PlaceType
    <2>2. level0_table' \in Pages
      BY <1>1, PageCountPositive DEF Pages, NULL
    <2> QED BY <1>1, <1>8, <2>1, <2>2, DownType
  <1>10. PICK l2 \in [DOMAIN tables' -> Levels] : TRUE
    <2>1. [t \in {} |-> 0] \in [{} -> Levels]
      OBVIOUS
    <2> QED BY <1>8, <2>1
  <1>11. Tree(l2)'
    <2>1. Shaped(l2)' /\ Linked(l2)' /\ Rooted(l2)'
      BY <1>1, <1>8 DEF Shaped, Linked, Rooted
    <2>2. Walking(l2)'
      BY <1>1, <1>a DEF Walking, InCall
    <2>3. Destruction(l2)'
      BY <1>1, <1>2 DEF Destruction, Destroying
    <2> QED BY <2>1, <2>2, <2>3 DEF Tree
  <1> QED BY <1>9, <1>10, <1>11 DEF IInv

\* The stack of places.
LEMMA StackIs ==
  ASSUME TypeOK, table_stack # <<>>
  PROVE  LET n == Len(table_stack)
         IN  /\ n \in 1 .. 3 /\ DOMAIN table_stack = 1 .. n
             /\ table_stack \in Seq(PlaceType)
             /\ Top = table_stack[n] /\ Top \in PlaceType /\ Top.level = n
             /\ Below \in Seq(PlaceType) /\ Len(Below) = n - 1
             /\ \A k \in 1 .. (n - 1) : Below[k] = table_stack[k]
PROOF
  <1> DEFINE n == Len(table_stack)
  <1>1. table_stack \in Seq(PlaceType) /\ n <= 3 /\ \A i \in DOMAIN table_stack : table_stack[i].level = i
    BY DEF TypeOK, PlaceType
  <1>2. n \in 1 .. 3 /\ DOMAIN table_stack = 1 .. n
    <2>1. n \in Nat /\ DOMAIN table_stack = 1 .. n
      BY <1>1, LenProperties
    <2>2. n # 0
      BY <1>1, EmptySeq
    <2> QED BY <1>1, <2>1, <2>2
  <1>3. Top = table_stack[n] /\ Top \in PlaceType /\ Top.level = n
    BY <1>1, <1>2 DEF Top
  <1>4. /\ Below \in Seq(PlaceType) /\ Len(Below) = n - 1
        /\ \A k \in 1 .. (n - 1) : Below[k] = table_stack[k]
    BY <1>1, <1>2 DEF Below
  <1> QED BY <1>1, <1>2, <1>3, <1>4

LEMMA PassedIs ==
  ASSUME TypeOK, table_stack # <<>>
  PROVE  LET n == Len(table_stack)
         IN  /\ Passed \in Seq(PlaceType) /\ Len(Passed) = n /\ DOMAIN Passed = 1 .. n
             /\ Passed[n] = [Top EXCEPT !.idx = Top.idx + 1]
             /\ \A k \in 1 .. (n - 1) : Passed[k] = table_stack[k]
             /\ SubSeq(Passed, 1, n - 1) = Below
PROOF
  <1> DEFINE n == Len(table_stack)
             last == [Top EXCEPT !.idx = Top.idx + 1]
  <1>1. /\ n \in 1 .. 3 /\ Below \in Seq(PlaceType) /\ Len(Below) = n - 1 /\ Top \in PlaceType
        /\ \A k \in 1 .. (n - 1) : Below[k] = table_stack[k]
    BY StackIs, Zenon
  <1>2. last \in PlaceType
    BY <1>1 DEF PlaceType
  <1>3. Passed = Append(Below, last)
    BY DEF Passed
  <1> HIDE DEF last, n
  <1>4. /\ Passed \in Seq(PlaceType) /\ Len(Passed) = n /\ DOMAIN Passed = 1 .. n
        /\ Passed[n] = last
        /\ \A k \in 1 .. (n - 1) : Passed[k] = Below[k]
    BY <1>1, <1>2, <1>3
  <1>5. /\ SubSeq(Passed, 1, n - 1) \in Seq(PlaceType)
        /\ Len(SubSeq(Passed, 1, n - 1)) = n - 1
        /\ \A k \in 1 .. (n - 1) : SubSeq(Passed, 1, n - 1)[k] = Below[k]
    BY <1>1, <1>4
  <1>6. SubSeq(Passed, 1, n - 1) = Below
    BY <1>1, <1>5, SeqEqual, Zenon
  <1> QED BY <1>1, <1>4, <1>6, Zenon DEF n, last

\* Where mmu_destroy_entry stands.
LEMMA AtEntryIs ==
  ASSUME TypeOK, NEW lev \in [DOMAIN tables -> Levels], Tree(lev), AtEntry
  PROVE  LET n == Len(table_stack)
         IN  /\ Destroying /\ pc = "entry" /\ n \in 1 .. 3 /\ DOMAIN table_stack = 1 .. n
             /\ Top = table_stack[n] /\ Top \in PlaceType /\ Top.level = n
             /\ Top.table \in DOMAIN tables /\ lev[Top.table] = n /\ Top.table # level0_table
             /\ Top.idx \in Indices(n) /\ TopEntry \in EntryType
             /\ \A k \in 1 .. n : table_stack[k].table = Top.table => k = n
             /\ ENTRIES[n] \in Nat \ {0} /\ slot < ENTRIES[0]
PROOF
  <1> DEFINE n == Len(table_stack)
  <1>1. pc = "entry" /\ table_stack # <<>> /\ Destroying /\ slot < ENTRIES[0]
    BY DEF AtEntry, Destroying, Tree, Destruction
  <1>2. /\ n \in 1 .. 3 /\ DOMAIN table_stack = 1 .. n
        /\ Top = table_stack[n] /\ Top \in PlaceType /\ Top.level = n
    BY <1>1, StackIs
  <1>3. \A k \in 1 .. n : table_stack[k].table \in DOMAIN tables /\ lev[table_stack[k].table] = k
    BY <1>2 DEF Tree, Destruction
  <1>4. Top.table \in DOMAIN tables /\ lev[Top.table] = n
    BY <1>2, <1>3
  <1>5. \A k \in 1 .. n : table_stack[k].table = Top.table => k = n
    BY <1>3, <1>4
  <1>6. Top.table # level0_table
    BY <1>1, <1>2, <1>4, DestroyingIs
  <1>7. ENTRIES[n] \in Nat \ {0}
    BY <1>2, EntriesAre DEF Levels
  <1>8. Top.idx \in Indices(n)
    BY <1>1, <1>2, <1>7 DEF Tree, Destruction, Indices, PlaceType
  <1>9. TopEntry \in EntryType
    BY <1>4, <1>8 DEF Tree, Shaped, TopEntry
  <1> QED BY <1>1, <1>2, <1>4, <1>5, <1>6, <1>7, <1>8, <1>9, Zenon

\* The end of a turn that has passed an entry.
LEMMA TurnIs ==
  ASSUME TypeOK, NEW lev \in [DOMAIN tables -> Levels], Tree(lev), AtEntry,
         NEW claimed \in SUBSET Pages, EndTurn(Passed, claimed)
  PROVE  LET n == Len(table_stack)
         IN  /\ bitmap' \in SUBSET Pages /\ fault' \in FaultType
             /\ \/ /\ Top.idx + 1 # ENTRIES[n]
                   /\ table_stack' = Passed /\ tables' = tables /\ bitmap' = claimed
                \/ /\ Top.idx + 1 = ENTRIES[n]
                   /\ table_stack' = Below /\ tables' = WithoutTable(Top.table)
                   /\ bitmap' = memory_allocator_free_pages(claimed, Top.table, 1)
                   /\ fault' = "none" /\ n > 1 => table_stack[n - 1].idx \in Indices(n - 1)
PROOF
  <1> DEFINE n == Len(table_stack)
             last == Passed[Len(Passed)]
  <1>1. /\ n \in 1 .. 3 /\ table_stack # <<>> /\ Top \in PlaceType /\ Top.level = n
    BY AtEntryIs DEF AtEntry
  <1>2. /\ Len(Passed) = n /\ last = [Top EXCEPT !.idx = Top.idx + 1]
        /\ SubSeq(Passed, 1, n - 1) = Below
    BY <1>1, PassedIs
  <1>3. last.table = Top.table /\ last.level = n /\ last.idx = Top.idx + 1
    BY <1>1, <1>2 DEF PlaceType
  <1>4. fault' \in FaultType
    BY DEF EndTurn, FaultType, Faults
  <1>5. CASE Top.idx + 1 # ENTRIES[n]
    <2>1. ~AtEnd(last)
      BY <1>3, <1>5 DEF AtEnd
    <2>2. table_stack' = Passed /\ tables' = tables /\ bitmap' = claimed
      BY <2>1 DEF EndTurn
    <2> QED BY <1>4, <1>5, <2>2
  <1>6. CASE Top.idx + 1 = ENTRIES[n]
    <2>1. AtEnd(last)
      BY <1>3, <1>6 DEF AtEnd
    <2>2. /\ table_stack' = SubSeq(Passed, 1, Len(Passed) - 1)
          /\ tables' = WithoutTable(last.table)
          /\ bitmap' = memory_allocator_free_pages(claimed, last.table, 1)
          /\ fault' = "none" => \/ table_stack' = <<>>
                                \/ table_stack'[Len(table_stack')].idx
                                     \in Indices(table_stack'[Len(table_stack')].level)
      BY <2>1 DEF EndTurn
    <2>3. /\ table_stack' = Below /\ tables' = WithoutTable(Top.table) /\ bitmap' \in SUBSET Pages
          /\ bitmap' = memory_allocator_free_pages(claimed, Top.table, 1)
      BY <1>2, <1>3, <2>2, FreedIs
    <2>4. /\ Below \in Seq(PlaceType) /\ Len(Below) = n - 1
          /\ \A k \in 1 .. (n - 1) : Below[k] = table_stack[k] /\ table_stack[k].level = k
      <3>1. \A k \in 1 .. n : table_stack[k].level = k
        BY <1>1, StackIs DEF TypeOK
      <3>2. \A k \in 1 .. (n - 1) : k \in 1 .. n
        BY <1>1
      <3>3. /\ Below \in Seq(PlaceType) /\ Len(Below) = n - 1
            /\ \A k \in 1 .. (n - 1) : Below[k] = table_stack[k]
        BY <1>1, StackIs, Zenon
      <3> QED BY <3>1, <3>2, <3>3
    <2>5. ASSUME fault' = "none", n > 1 PROVE table_stack[n - 1].idx \in Indices(n - 1)
      <3>1. Below # <<>> /\ n - 1 \in 1 .. (n - 1)
        BY <1>1, <2>4, <2>5
      <3>2. Below[n - 1].idx \in Indices(Below[n - 1].level)
        BY <2>2, <2>3, <2>4, <2>5, <3>1
      <3> QED BY <2>4, <3>1, <3>2
    <2> QED BY <1>4, <1>6, <2>3, <2>5
  <1> QED BY <1>5, <1>6

\* What is left to destroy once an entry has been passed.
LEMMA PassedLive ==
  ASSUME TypeOK, NEW lev \in [DOMAIN tables -> Levels], Tree(lev), AtEntry, table_stack' = Passed
  PROVE  /\ Places' = Places
         /\ \A t : \A i \in Nat : Live(t, i)' <=> Live(t, i) /\ ~(t = Top.table /\ i = Top.idx)
PROOF
  <1>0. PICK n \in 1 .. 3, T \in DOMAIN tables, m \in Nat :
          n = Len(table_stack) /\ T = Top.table /\ m = Top.idx
    BY AtEntryIs DEF Indices
  <1>1. /\ pc = "entry" /\ DOMAIN table_stack = 1 .. n /\ table_stack # <<>>
        /\ Top = table_stack[n] /\ Top \in PlaceType /\ T # level0_table
        /\ \A k \in 1 .. n : table_stack[k].table = T => k = n
    BY <1>0, AtEntryIs DEF AtEntry
  <1>2. /\ DOMAIN table_stack' = 1 .. n
        /\ \A k \in 1 .. (n - 1) : table_stack'[k] = table_stack[k]
        /\ table_stack'[n].table = T /\ table_stack'[n].idx = m + 1
        /\ table_stack[n].table = T /\ table_stack[n].idx = m
    BY <1>0, <1>1, PassedIs DEF PlaceType
  <1>3. UNCHANGED <<level0_table, pc, slot>>
    BY DEF AtEntry
  <1>4. Places' = Places
    <2>1. \A k \in 1 .. n : table_stack'[k].table = table_stack[k].table
      BY <1>2
    <2> QED BY <1>1, <1>2, <2>1 DEF Places
  <1>5. ASSUME NEW t, NEW i \in Nat
        PROVE  Live(t, i)' <=> Live(t, i) /\ ~(t = T /\ i = m)
    <2>1. CASE t # T
      <3>1. \A k \in 1 .. n : table_stack'[k].table = t <=> k < n /\ table_stack[k].table = t
        BY <1>2, <2>1
      <3>2. \A k \in 1 .. n : table_stack[k].table = t => k < n
        BY <1>2, <2>1
      <3>3. Live(t, i)' <=> Live(t, i)
        BY <1>1, <1>2, <1>3, <3>1, <3>2 DEF Live
      <3> QED BY <2>1, <3>3
    <2>2. CASE t = T
      <3>1. Live(t, i) <=> m <= i
        BY <1>1, <1>2, <2>2 DEF Live
      <3>2. \A k \in 1 .. n : table_stack'[k].table = T => k = n
        BY <1>1, <1>2
      <3>3. Live(t, i)' <=> m + 1 <= i
        BY <1>1, <1>2, <1>3, <2>2, <3>2 DEF Live
      <3>4. m + 1 <= i <=> m <= i /\ i # m
        OBVIOUS
      <3> QED BY <2>2, <3>1, <3>3, <3>4
    <2> QED BY <2>1, <2>2
  <1> QED BY <1>0, <1>4, <1>5

\* ... the last of its table: the table holds nothing else.
LEMMA BelowLive ==
  ASSUME TypeOK, NEW lev \in [DOMAIN tables -> Levels], Tree(lev), AtEntry, table_stack' = Below,
         Top.idx + 1 = ENTRIES[Len(table_stack)]
  PROVE  /\ Places' = Places \ {Top.table} /\ Top.table \in Places
         /\ \A t, i : t # Top.table => (Live(t, i)' <=> Live(t, i))
         /\ \A i \in Indices(lev[Top.table]) : Live(Top.table, i) => i = Top.idx
PROOF
  <1>0. PICK n \in 1 .. 3, T \in DOMAIN tables, m \in Nat :
          n = Len(table_stack) /\ T = Top.table /\ m = Top.idx
    BY AtEntryIs DEF Indices
  <1>1. /\ pc = "entry" /\ DOMAIN table_stack = 1 .. n /\ table_stack # <<>>
        /\ Top = table_stack[n] /\ lev[T] = n /\ T # level0_table /\ ENTRIES[n] \in Nat
        /\ \A k \in 1 .. n : table_stack[k].table = T => k = n
        /\ m + 1 = ENTRIES[n] /\ table_stack[n].table = T /\ table_stack[n].idx = m
    BY <1>0, AtEntryIs DEF AtEntry
  <1>2. /\ DOMAIN table_stack' = 1 .. (n - 1)
        /\ \A k \in 1 .. (n - 1) : table_stack'[k] = table_stack[k] /\ table_stack[k].table # T
    BY <1>0, <1>1, StackIs
  <1>3. UNCHANGED <<level0_table, pc, slot>>
    BY DEF AtEntry
  <1>4. Places' = Places \ {T}
    <2>1. /\ \A k \in 1 .. n : k = n \/ k \in 1 .. (n - 1)
          /\ \A k \in 1 .. (n - 1) : k \in 1 .. n
      OBVIOUS
    <2>2. Places = {table_stack[k].table : k \in 1 .. n}
      BY <1>1 DEF Places
    <2>3. Places' = {table_stack[k].table : k \in 1 .. (n - 1)}
      BY <1>2 DEF Places
    <2>4. Places \ {T} \subseteq Places'
      BY <1>1, <2>1, <2>2, <2>3
    <2>5. Places' \subseteq Places \ {T}
      BY <1>2, <2>1, <2>2, <2>3
    <2> QED BY <2>4, <2>5
  <1>5. T \in Places
    BY <1>1 DEF Places
  <1>6. ASSUME NEW t, NEW i, t # T PROVE Live(t, i)' <=> Live(t, i)
    <2>1. \A k \in 1 .. n : table_stack[k].table = t => k \in 1 .. (n - 1)
      BY <1>1, <1>6
    <2> QED BY <1>1, <1>2, <1>3, <2>1 DEF Live
  <1>7. ASSUME NEW i \in Indices(lev[T]), Live(T, i) PROVE i = m
    <2>1. i \in Nat /\ i < m + 1
      BY <1>1 DEF Indices
    <2>2. m <= i
      BY <1>1, <1>7 DEF Live
    <2> QED BY <2>1, <2>2
  <1> QED BY <1>0, <1>4, <1>5, <1>6, <1>7

\* The entry passed is the last of its table, or not.
LEMMA PassedStep ==
  ASSUME TypeOK, NEW lev \in [DOMAIN tables -> Levels], Tree(lev), AtEntry, UNCHANGED reserved,
         ~Link(lev, Top.table, Top.idx), fault' \in FaultType, bitmap' \in SUBSET Pages,
         table_stack' = Passed, tables' = tables, Top.idx + 1 # ENTRIES[Len(table_stack)]
  PROVE  IInv'
PROOF
  <1>0. PICK n \in 1 .. 3, T \in DOMAIN tables, m \in Nat :
          n = Len(table_stack) /\ T = Top.table /\ m = Top.idx
    BY AtEntryIs DEF Indices
  <1>1. /\ Destroying /\ pc = "entry" /\ DOMAIN table_stack = 1 .. n /\ table_stack # <<>>
        /\ Top = table_stack[n] /\ Top \in PlaceType /\ Top.level = n /\ lev[T] = n
        /\ T # level0_table /\ m \in Indices(n) /\ ENTRIES[n] \in Nat \ {0} /\ slot < ENTRIES[0]
        /\ \A k \in 1 .. n : table_stack[k].table = T => k = n
    BY <1>0, AtEntryIs DEF AtEntry
  <1>2. /\ table_stack' \in Seq(PlaceType) /\ Len(table_stack') = n /\ DOMAIN table_stack' = 1 .. n
        /\ \A k \in 1 .. (n - 1) : table_stack'[k] = table_stack[k]
        /\ table_stack'[n].table = T /\ table_stack'[n].idx = m + 1 /\ table_stack'[n].level = n
        /\ table_stack[n].table = T /\ table_stack[n].idx = m
    BY <1>0, <1>1, PassedIs DEF PlaceType
  <1>3. /\ UNCHANGED <<level0_table, pc, region, todo, walk, unit, l3_idx, block, slot>>
        /\ level0_table # NULL /\ unit = 0 /\ m + 1 < ENTRIES[n]
    BY <1>0, <1>1, DestroyingIs DEF AtEntry, request, cursor, Indices
  <1>4. TypeOK'
    <2>1. /\ level0_table' \in Pages /\ pc' \in PCs \ {"units"} /\ slot' \in 0 .. ENTRIES[0]
          /\ \A t \in DOMAIN tables' : \E level \in Levels : tables'[t] \in [Indices(level) -> EntryType]
      BY <1>1, <1>3 DEF TypeOK, PCs
    <2>2. \A k \in DOMAIN table_stack' : table_stack'[k].level = k
      BY <1>1, <1>2 DEF TypeOK
    <2>3. Len(table_stack') <= 3
      BY <1>2
    <2> QED BY <1>2, <1>3, <2>1, <2>2, <2>3, DownType
  <1>5. Shaped(lev)'
    BY DEF Tree, Shaped
  <1>6. Linked(lev)'
    <2>1. Places' = Places
      BY PassedLive
    <2>2. ASSUME NEW t \in DOMAIN tables, NEW i \in Indices(lev[t])
          PROVE  Link(lev, t, i)' <=> Link(lev, t, i)
      <3>1. Live(t, i)' <=> Live(t, i) /\ ~(t = T /\ i = m)
        BY <1>0, PassedLive DEF Indices
      <3> QED BY <1>0, <3>1 DEF Link
    <2> QED BY <2>1, <2>2, LinkedStays DEF Tree
  <1>7. Rooted(lev)'
    BY <1>1, <1>3 DEF Tree, Rooted, Destroying
  <1>8. Walking(lev)'
    BY <1>1, <1>3 DEF Walking, InCall
  <1>9. Destruction(lev)'
    <2>1. /\ Destroying' /\ MAP_TYPE = "ALLOC"
          /\ \A i \in Indices(0) : i < slot => tables[level0_table][i] = EMPTY_ENTRY
          /\ \A k \in 1 .. n : /\ table_stack[k].table \in DOMAIN tables
                               /\ lev[table_stack[k].table] = k /\ table_stack[k].idx <= ENTRIES[k]
      BY <1>1, <1>3 DEF Tree, Destruction, Destroying
    <2>2. Top'.idx = m + 1 /\ Top'.level = n
      BY <1>2 DEF Top
    <2>3. \A k \in 1 .. n : /\ table_stack'[k].table \in DOMAIN tables
                            /\ lev[table_stack'[k].table] = k /\ table_stack'[k].idx <= ENTRIES[k]
      BY <1>1, <1>2, <1>3, <2>1
    <2> QED BY <1>1, <1>2, <1>3, <2>1, <2>2, <2>3 DEF Destruction
  <1> QED BY <1>4, <1>5, <1>6, <1>7, <1>8, <1>9 DEF IInv, Tree

LEMMA LastPassedStep ==
  ASSUME TypeOK, NEW lev \in [DOMAIN tables -> Levels], Tree(lev), AtEntry, UNCHANGED reserved,
         ~Link(lev, Top.table, Top.idx), fault' \in FaultType, bitmap' \in SUBSET Pages,
         table_stack' = Below, tables' = WithoutTable(Top.table),
         Top.idx + 1 = ENTRIES[Len(table_stack)],
         fault' = "none" /\ Len(table_stack) > 1 =>
           table_stack[Len(table_stack) - 1].idx \in Indices(Len(table_stack) - 1)
  PROVE  IInv'
PROOF
  <1>0. PICK n \in 1 .. 3, T \in DOMAIN tables, m \in Nat :
          n = Len(table_stack) /\ T = Top.table /\ m = Top.idx
    BY AtEntryIs DEF Indices
  <1>1. /\ Destroying /\ pc = "entry" /\ DOMAIN table_stack = 1 .. n /\ table_stack # <<>>
        /\ Top = table_stack[n] /\ lev[T] = n /\ T # level0_table /\ slot < ENTRIES[0]
        /\ \A k \in 1 .. n : table_stack[k].table = T => k = n
        /\ m + 1 = ENTRIES[n] /\ table_stack[n].table = T /\ table_stack[n].idx = m
    BY <1>0, AtEntryIs DEF AtEntry
  <1>2. /\ table_stack' \in Seq(PlaceType) /\ Len(table_stack') = n - 1
        /\ DOMAIN table_stack' = 1 .. (n - 1)
        /\ \A k \in 1 .. (n - 1) : table_stack'[k] = table_stack[k] /\ table_stack[k].table # T
    BY <1>0, <1>1, StackIs
  <1>3. /\ UNCHANGED <<level0_table, pc, region, todo, walk, unit, l3_idx, block, slot>>
        /\ level0_table # NULL /\ level0_table \in DOMAIN tables /\ unit = 0
    BY <1>1, DestroyingIs DEF AtEntry, request, cursor
  <1>4. DOMAIN tables' = DOMAIN tables \ {T} /\ \A t \in DOMAIN tables' : tables'[t] = tables[t]
    BY <1>0 DEF WithoutTable
  <1>l. PICK l2 \in [DOMAIN tables' -> Levels] : \A t \in DOMAIN tables' : l2[t] = lev[t]
    <2>1. [t \in DOMAIN tables' |-> lev[t]] \in [DOMAIN tables' -> Levels]
      BY <1>4
    <2> QED BY <2>1
  <1>5. TypeOK'
    <2>1. /\ level0_table' \in Pages /\ pc' \in PCs \ {"units"} /\ slot' \in 0 .. ENTRIES[0]
      BY <1>1, <1>3 DEF TypeOK, PCs
    <2>2. \A t \in DOMAIN tables' : \E level \in Levels : tables'[t] \in [Indices(level) -> EntryType]
      BY <1>4 DEF TypeOK
    <2>3. \A k \in DOMAIN table_stack' : table_stack'[k].level = k
      <3>1. \A k \in 1 .. n : table_stack[k].level = k
        BY <1>1 DEF TypeOK
      <3>2. \A k \in 1 .. (n - 1) : k \in 1 .. n
        OBVIOUS
      <3> QED BY <1>2, <3>1, <3>2
    <2>4. Len(table_stack') <= 3
      BY <1>2
    <2> QED BY <1>2, <1>3, <2>1, <2>2, <2>3, <2>4, DownType
  <1>6. Shaped(l2)'
    BY <1>4, <1>l DEF Tree, Shaped
  <1>7. ASSUME NEW i \in Indices(lev[T]) PROVE ~Link(lev, T, i)
    BY <1>0, BelowLive DEF Link
  <1>8. ASSUME NEW t \in DOMAIN tables', NEW i \in Indices(lev[t])
        PROVE  Link(l2, t, i)' <=> Link(lev, t, i)
    <2>1. t \in DOMAIN tables /\ t # T /\ l2[t] = lev[t] /\ tables'[t] = tables[t]
      BY <1>4, <1>l
    <2>2. Live(t, i)' <=> Live(t, i)
      BY <1>0, <2>1, BelowLive
    <2> QED BY <2>1, <2>2 DEF Link
  <1>9. Places' = Places \ {T}
    BY <1>0, BelowLive
  <1>10. T \in Places
    BY <1>0, BelowLive
  <1>11. Linked(l2)'
    <2>1. ASSUME NEW t \in DOMAIN tables', NEW i \in Indices(l2[t]), Link(l2, t, i)'
          PROVE  /\ tables'[t][i].page \in DOMAIN tables' \ Places'
                 /\ l2[tables'[t][i].page] = l2[t] + 1
      <3>1. t \in DOMAIN tables /\ l2[t] = lev[t] /\ tables'[t] = tables[t] /\ Link(lev, t, i)
        BY <1>4, <1>8, <1>l, <2>1
      <3>2. tables[t][i].page \in DOMAIN tables \ Places /\ lev[tables[t][i].page] = lev[t] + 1
        BY <3>1 DEF Tree, Linked
      <3> QED BY <1>4, <1>9, <1>10, <1>l, <3>1, <3>2
    <2>2. ASSUME NEW t \in DOMAIN tables', NEW u \in DOMAIN tables',
                 NEW i \in Indices(l2[t]), NEW j \in Indices(l2[u]),
                 Link(l2, t, i)', Link(l2, u, j)', tables'[t][i].page = tables'[u][j].page
          PROVE  t = u /\ i = j
      <3>1. /\ t \in DOMAIN tables /\ l2[t] = lev[t] /\ tables'[t] = tables[t] /\ Link(lev, t, i)
            /\ u \in DOMAIN tables /\ l2[u] = lev[u] /\ tables'[u] = tables[u] /\ Link(lev, u, j)
        BY <1>4, <1>8, <1>l, <2>2
      <3> QED BY <2>2, <3>1 DEF Tree, Linked
    <2>3. ASSUME NEW t \in DOMAIN tables', l2[t] # 0, t \notin Places'
          PROVE  \E u \in DOMAIN tables' : \E i \in Indices(l2[u]) :
                   Link(l2, u, i)' /\ tables'[u][i].page = t
      <3>1. t \in DOMAIN tables /\ lev[t] # 0 /\ t \notin Places
        BY <1>4, <1>9, <1>l, <2>3
      <3>2. PICK u \in DOMAIN tables : \E i \in Indices(lev[u]) : Link(lev, u, i) /\ tables[u][i].page = t
        BY <3>1 DEF Tree, Linked
      <3>3. PICK i \in Indices(lev[u]) : Link(lev, u, i) /\ tables[u][i].page = t
        BY <3>2
      <3>4. u # T
        BY <1>7, <3>3
      <3>5. u \in DOMAIN tables' /\ l2[u] = lev[u] /\ tables'[u] = tables[u]
        BY <1>4, <1>l, <3>4
      <3> QED BY <1>8, <3>3, <3>5
    <2> QED BY <2>1, <2>2, <2>3 DEF Linked
  <1>12. Rooted(l2)'
    <2>1. \A t \in DOMAIN tables' : l2[t] = 0 => t = level0_table
      BY <1>4, <1>l DEF Tree, Rooted
    <2>2. level0_table \in DOMAIN tables' /\ l2[level0_table] = 0
      BY <1>1, <1>3, <1>4, <1>l DEF Tree, Rooted
    <2> QED BY <1>1, <1>3, <2>1, <2>2 DEF Rooted, Destroying
  <1>13. Walking(l2)'
    BY <1>1, <1>3 DEF Walking, InCall
  <1>14. fault' = "none" => Destruction(l2)'
    <2> SUFFICES ASSUME fault' = "none" PROVE Destruction(l2)'
      OBVIOUS
    <2>1. /\ Destroying' /\ MAP_TYPE = "ALLOC"
          /\ \A i \in Indices(0) : i < slot => tables[level0_table][i] = EMPTY_ENTRY
          /\ \A k \in 1 .. n : /\ table_stack[k].table \in DOMAIN tables
                               /\ lev[table_stack[k].table] = k /\ table_stack[k].idx <= ENTRIES[k]
      BY <1>1, <1>3 DEF Tree, Destruction, Destroying
    <2>2. level0_table \in DOMAIN tables' /\ tables'[level0_table] = tables[level0_table]
      BY <1>1, <1>3, <1>4
    <2>3. \A k \in 1 .. (n - 1) : /\ table_stack'[k].table \in DOMAIN tables'
                                  /\ l2[table_stack'[k].table] = k /\ table_stack'[k].idx <= ENTRIES[k]
      BY <1>2, <1>4, <1>l, <2>1
    <2>4. table_stack' # <<>> => Top'.idx < ENTRIES[Top'.level]
      <3> SUFFICES ASSUME table_stack' # <<>> PROVE Top'.idx < ENTRIES[Top'.level]
        OBVIOUS
      <3>1. n - 1 \in 1 .. (n - 1)
        BY <1>2, EmptySeq
      <3>a. Top' = table_stack'[n - 1] /\ table_stack'[n - 1] = table_stack[n - 1]
        BY <1>2, <3>1 DEF Top
      <3>b. table_stack[n - 1].level = n - 1
        <4>1. n - 1 \in DOMAIN table_stack
          BY <1>1, <3>1
        <4>2. \A k \in DOMAIN table_stack : table_stack[k].level = k
          BY DEF TypeOK
        <4> QED BY <4>1, <4>2
      <3>2. Top' = table_stack[n - 1] /\ Top'.level = n - 1
        BY <3>a, <3>b
      <3>3. table_stack[n - 1].idx \in Indices(n - 1)
        BY <1>0, <3>1
      <3>4. ENTRIES[n - 1] \in Nat
        BY <3>1, EntriesAre DEF Levels
      <3> QED BY <3>2, <3>3, <3>4 DEF Indices
    <2> QED BY <1>1, <1>2, <1>3, <2>1, <2>2, <2>3, <2>4 DEF Destruction
  <1> QED BY <1>5, <1>6, <1>11, <1>12, <1>13, <1>14 DEF IInv, Tree

\* Any entry but one that leads to a table.
LEMMA LeafStep ==
  ASSUME TypeOK, NEW lev \in [DOMAIN tables -> Levels], Tree(lev), AtEntry, UNCHANGED reserved,
         TopEntry.bits # TABLE \/ Top.level = 3,
         NEW claimed \in SUBSET Pages, EndTurn(Passed, claimed)
  PROVE  IInv'
PROOF
  <1>1. ~Link(lev, Top.table, Top.idx)
    BY AtEntryIs DEF Link, TopEntry
  <1>2. bitmap' \in SUBSET Pages /\ fault' \in FaultType
    BY TurnIs
  <1>3. CASE /\ Top.idx + 1 # ENTRIES[Len(table_stack)]
             /\ table_stack' = Passed /\ tables' = tables
    BY <1>1, <1>2, <1>3, PassedStep
  <1>4. CASE /\ Top.idx + 1 = ENTRIES[Len(table_stack)]
             /\ table_stack' = Below /\ tables' = WithoutTable(Top.table)
             /\ (fault' = "none" /\ Len(table_stack) > 1 =>
                   table_stack[Len(table_stack) - 1].idx \in Indices(Len(table_stack) - 1))
    BY <1>1, <1>2, <1>4, LastPassedStep
  <1> QED BY <1>3, <1>4, TurnIs

LEMMA EntryLeavesStep ==
  ASSUME TypeOK, NEW lev \in [DOMAIN tables -> Levels], Tree(lev), UNCHANGED reserved,
         EntrySkipped \/ EntryIsPage \/ EntryIsBlock
  PROVE  IInv'
PROOF
  <1>1. bitmap \in SUBSET Pages
    BY DEF TypeOK
  <1>2. CASE EntrySkipped
    BY <1>1, <1>2, LeafStep DEF EntrySkipped, TABLE
  <1>3. CASE EntryIsPage
    <2>1. /\ AtEntry /\ Top.level = 3
          /\ EndTurn(Passed, memory_allocator_free_pages(bitmap, TopEntry.page, 1))
      BY <1>3 DEF EntryIsPage
    <2>2. memory_allocator_free_pages(bitmap, TopEntry.page, 1) \in SUBSET Pages
      BY <1>1, FreedIs
    <2> QED BY <2>1, <2>2, LeafStep
  <1>4. CASE EntryIsBlock
    <2>1. /\ AtEntry /\ TopEntry.bits # TABLE
          /\ EndTurn(Passed, mmu_destroy_block_entry(TopEntry, Top.level))
      BY <1>4 DEF EntryIsBlock, TABLE, BLOCK
    <2>2. mmu_destroy_block_entry(TopEntry, Top.level) \in SUBSET Pages
      BY <1>1, FreedIs DEF mmu_destroy_block_entry
    <2> QED BY <2>1, <2>2, LeafStep
  <1> QED BY <1>2, <1>3, <1>4

\* ... and once the table of an entry has been entered.
LEMMA EnteredLive ==
  ASSUME TypeOK, NEW lev \in [DOMAIN tables -> Levels], Tree(lev), AtEntry,
         NEW place \in PlaceType, place.idx = 0, table_stack' = Append(Passed, place)
  PROVE  /\ Places' = Places \cup {place.table}
         /\ \A t : \A i \in Nat : Live(t, i)' <=> Live(t, i) /\ ~(t = Top.table /\ i = Top.idx)
PROOF
  <1>0. PICK n \in 1 .. 3, T \in DOMAIN tables, m \in Nat :
          n = Len(table_stack) /\ T = Top.table /\ m = Top.idx
    BY AtEntryIs DEF Indices
  <1>1. /\ pc = "entry" /\ DOMAIN table_stack = 1 .. n /\ table_stack # <<>>
        /\ Top = table_stack[n] /\ Top \in PlaceType /\ T # level0_table
        /\ \A k \in 1 .. n : table_stack[k].table = T => k = n
    BY <1>0, AtEntryIs DEF AtEntry
  <1>2. /\ Passed \in Seq(PlaceType) /\ Len(Passed) = n /\ DOMAIN Passed = 1 .. n
        /\ \A k \in 1 .. (n - 1) : Passed[k] = table_stack[k]
        /\ Passed[n].table = T /\ Passed[n].idx = m + 1
        /\ table_stack[n].table = T /\ table_stack[n].idx = m
    BY <1>0, <1>1, PassedIs DEF PlaceType
  <1>h. /\ DOMAIN table_stack' = 1 .. (n + 1)
        /\ \A k \in 1 .. (n - 1) : table_stack'[k] = table_stack[k]
        /\ table_stack'[n].table = T /\ table_stack'[n].idx = m + 1
        /\ table_stack'[n + 1] = place
    BY <1>2
  <1>i. \A k \in 1 .. (n + 1) : k \in 1 .. (n - 1) \/ k = n \/ k = n + 1
    OBVIOUS
  <1>j. \A k \in 1 .. n : k \in 1 .. (n - 1) \/ k = n
    OBVIOUS
  <1>3. UNCHANGED <<level0_table, pc, slot>>
    BY DEF AtEntry
  <1>4. Places' = Places \cup {place.table}
    <2>1. \A k \in 1 .. n : table_stack'[k].table = table_stack[k].table
      BY <1>2, <1>h, <1>j
    <2> QED BY <1>1, <1>h, <2>1 DEF Places
  <1>5. ASSUME NEW t, NEW i \in Nat
        PROVE  Live(t, i)' <=> Live(t, i) /\ ~(t = T /\ i = m)
    <2>1. CASE t # T
      <3>1. \A k \in 1 .. n : table_stack[k].table = t => k \in 1 .. (n - 1)
        BY <1>2, <1>j, <2>1
      <3>a. \A k \in 1 .. (n + 1) :
              table_stack'[k].table = t => k \in 1 .. (n - 1) \/ table_stack'[k].idx = 0
        BY <1>h, <1>i, <2>1
      <3>b. 0 <= i /\ \A k \in 1 .. (n - 1) : k \in 1 .. (n + 1)
        BY <1>5
      <3>2. (\A k \in 1 .. (n + 1) : table_stack'[k].table = t => table_stack'[k].idx <= i)
              <=> \A k \in 1 .. (n - 1) : table_stack[k].table = t => table_stack[k].idx <= i
        BY <1>h, <3>a, <3>b
      <3>3. Live(t, i)' <=> /\ \A k \in 1 .. (n - 1) : table_stack[k].table = t => table_stack[k].idx <= i
                            /\ ~(t = level0_table /\ i = slot)
        BY <1>1, <1>3, <1>h, <3>2 DEF Live
      <3>4. Live(t, i) <=> /\ \A k \in 1 .. (n - 1) : table_stack[k].table = t => table_stack[k].idx <= i
                           /\ ~(t = level0_table /\ i = slot)
        BY <1>1, <3>1 DEF Live
      <3> QED BY <2>1, <3>3, <3>4
    <2>2. CASE t = T
      <3>1. Live(t, i) <=> m <= i
        BY <1>1, <1>2, <2>2 DEF Live
      <3>2. \A k \in 1 .. (n + 1) : table_stack'[k].table = T /\ table_stack'[k].idx # 0 => k = n
        BY <1>1, <1>h, <1>i
      <3>3. Live(t, i)' <=> m + 1 <= i
        BY <1>1, <1>3, <1>h, <2>2, <3>2 DEF Live
      <3>4. m + 1 <= i <=> m <= i /\ i # m
        OBVIOUS
      <3> QED BY <2>2, <3>1, <3>3, <3>4
    <2> QED BY <2>1, <2>2
  <1> QED BY <1>0, <1>4, <1>5

LEMMA EntryIsTableStep ==
  ASSUME TypeOK, fault = "none", NEW lev \in [DOMAIN tables -> Levels], Tree(lev),
         UNCHANGED reserved, EntryIsTable
  PROVE  IInv'
PROOF
  <1>a. AtEntry
    BY DEF EntryIsTable
  <1>n. PICK n \in 1 .. 3 : n = Len(table_stack)
    BY <1>a, AtEntryIs
  <1>0. PICK T \in DOMAIN tables, m \in Indices(n), p \in Nat :
          n = Len(table_stack) /\ T = Top.table /\ m = Top.idx /\ p = TopEntry.page
    BY <1>a, <1>n, AtEntryIs DEF EntryType
  <1>1. /\ Destroying /\ pc = "entry" /\ DOMAIN table_stack = 1 .. n /\ table_stack # <<>>
        /\ Top = table_stack[n] /\ Top \in PlaceType /\ Top.level = n /\ lev[T] = n
        /\ T # level0_table /\ ENTRIES[n] \in Nat \ {0} /\ slot < ENTRIES[0]
        /\ \A k \in 1 .. n : table_stack[k].table = T => k = n
    BY <1>0, <1>a, AtEntryIs DEF AtEntry
  <1>b. n \in 1 .. 2 /\ TopEntry.bits = TABLE /\ tables[T][m].page = p /\ tables[T][m].bits = TABLE
    BY <1>0, <1>1 DEF EntryIsTable, TopEntry
  <1>c. m \in Nat /\ m + 1 <= ENTRIES[n] /\ ENTRIES[n + 1] \in Nat \ {0}
    BY <1>1, <1>b, EntriesAre DEF Indices, Levels
  <1>2. /\ Passed \in Seq(PlaceType) /\ Len(Passed) = n /\ DOMAIN Passed = 1 .. n
        /\ \A k \in 1 .. (n - 1) : Passed[k] = table_stack[k]
        /\ Passed[n].table = T /\ Passed[n].idx = m + 1 /\ Passed[n].level = n
        /\ table_stack[n].table = T /\ table_stack[n].idx = m
    BY <1>0, <1>1, PassedIs DEF PlaceType
  <1>d. Link(lev, T, m)
    <2>1. Live(T, m)
      BY <1>1, <1>2, <1>c DEF Live
    <2> QED BY <1>1, <1>b, <2>1 DEF Link
  <1>e. p \in DOMAIN tables \ Places /\ lev[p] = n + 1 /\ p \in Pages
    BY <1>1, <1>b, <1>d DEF Tree, Linked, Shaped
  <1>f. PICK place \in PlaceType : place = [table |-> p, idx |-> 0, level |-> n + 1]
    BY <1>b, <1>e DEF PlaceType, Levels
  <1>g. /\ table_stack' = Append(Passed, place) /\ bitmap' = bitmap /\ tables' = tables
        /\ fault' \in FaultType
    <2> DEFINE stack == Append(Passed, place)
    <2>1. EndTurn(stack, bitmap)
      BY <1>0, <1>1, <1>f DEF EntryIsTable
    <2>2. stack[Len(stack)] = place
      BY <1>2
    <2>3. ~AtEnd(place)
      BY <1>c, <1>f DEF AtEnd
    <2> HIDE DEF stack
    <2>4. table_stack' = stack /\ bitmap' = bitmap /\ tables' = tables /\ fault' \in FaultType
      BY <2>1, <2>2, <2>3 DEF EndTurn, FaultType, Faults
    <2> QED BY <2>4 DEF stack
  <1>h. /\ table_stack' \in Seq(PlaceType) /\ Len(table_stack') = n + 1
        /\ DOMAIN table_stack' = 1 .. (n + 1)
        /\ \A k \in 1 .. (n - 1) : table_stack'[k] = table_stack[k]
        /\ table_stack'[n].table = T /\ table_stack'[n].idx = m + 1 /\ table_stack'[n].level = n
        /\ table_stack'[n + 1].table = p /\ table_stack'[n + 1].idx = 0
        /\ table_stack'[n + 1].level = n + 1
    BY <1>2, <1>f, <1>g
  <1>i. \A k \in 1 .. (n + 1) : k \in 1 .. (n - 1) \/ k = n \/ k = n + 1
    OBVIOUS
  <1>j. \A k \in 1 .. n : k \in 1 .. (n - 1) \/ k = n
    OBVIOUS
  <1>3. /\ UNCHANGED <<level0_table, pc, region, todo, walk, unit, l3_idx, block, slot>>
        /\ level0_table # NULL /\ unit = 0
    BY <1>1, <1>a, DestroyingIs DEF AtEntry, request, cursor
  <1>4. TypeOK'
    <2>1. /\ level0_table' \in Pages /\ pc' \in PCs \ {"units"} /\ slot' \in 0 .. ENTRIES[0]
          /\ \A t \in DOMAIN tables' : \E level \in Levels : tables'[t] \in [Indices(level) -> EntryType]
          /\ bitmap' \in SUBSET Pages
      BY <1>1, <1>3, <1>g DEF TypeOK, PCs
    <2>2. \A k \in DOMAIN table_stack' : table_stack'[k].level = k
      <3>1. \A k \in 1 .. n : table_stack[k].level = k
        BY <1>1 DEF TypeOK
      <3>2. \A k \in 1 .. (n - 1) : k \in 1 .. n
        BY <1>b
      <3>3. ASSUME NEW k \in 1 .. (n + 1) PROVE table_stack'[k].level = k
        <4>1. CASE k \in 1 .. (n - 1)
          BY <1>h, <3>1, <3>2, <4>1
        <4>2. CASE k = n \/ k = n + 1
          BY <1>h, <4>2
        <4> QED BY <1>i, <4>1, <4>2
      <3> QED BY <1>h, <3>3
    <2>3. Len(table_stack') <= 3
      BY <1>b, <1>h
    <2> QED BY <1>3, <1>g, <1>h, <2>1, <2>2, <2>3, DownType
  <1>5. Shaped(lev)'
    BY <1>g DEF Tree, Shaped
  <1>6. Linked(lev)'
    <2>0. place.idx = 0 /\ place.table = p
      BY <1>f
    <2>1. Places' = Places \cup {tables[T][m].page}
      BY <1>a, <1>b, <1>g, <2>0, EnteredLive
    <2>2. ASSUME NEW t \in DOMAIN tables, NEW i \in Indices(lev[t])
          PROVE  Link(lev, t, i)' <=> Link(lev, t, i) /\ ~(t = T /\ i = m)
      <3>1. i \in Nat
        BY DEF Indices
      <3>2. Live(t, i)' <=> Live(t, i) /\ ~(t = T /\ i = m)
        BY <1>0, <1>a, <1>g, <2>0, <3>1, EnteredLive
      <3> QED BY <1>g, <3>2 DEF Link
    <2> QED BY <1>1, <1>d, <1>g, <2>1, <2>2, LinkTaken DEF Tree
  <1>7. Rooted(lev)'
    BY <1>1, <1>3, <1>g DEF Tree, Rooted, Destroying
  <1>8. Walking(lev)'
    BY <1>1, <1>3 DEF Walking, InCall
  <1>9. Destruction(lev)'
    <2>1. /\ Destroying' /\ MAP_TYPE = "ALLOC"
          /\ \A i \in Indices(0) : i < slot => tables[level0_table][i] = EMPTY_ENTRY
          /\ \A k \in 1 .. n : /\ table_stack[k].table \in DOMAIN tables
                               /\ lev[table_stack[k].table] = k /\ table_stack[k].idx <= ENTRIES[k]
      BY <1>1, <1>3 DEF Tree, Destruction, Destroying
    <2>2. Top'.idx = 0 /\ Top'.level = n + 1
      BY <1>h DEF Top
    <2>3. \A k \in 1 .. (n + 1) : /\ table_stack'[k].table \in DOMAIN tables
                                  /\ lev[table_stack'[k].table] = k /\ table_stack'[k].idx <= ENTRIES[k]
      <3>1. \A k \in 1 .. (n - 1) : k \in 1 .. n
        OBVIOUS
      <3>2. 0 <= ENTRIES[n + 1]
        BY <1>c
      <3>3. ASSUME NEW k \in 1 .. (n - 1)
            PROVE  /\ table_stack'[k].table \in DOMAIN tables
                   /\ lev[table_stack'[k].table] = k /\ table_stack'[k].idx <= ENTRIES[k]
        <4>1. table_stack'[k] = table_stack[k] /\ k \in 1 .. n
          BY <1>h, <3>1
        <4> QED BY <2>1, <4>1
      <3>4. /\ table_stack'[n].table \in DOMAIN tables
            /\ lev[table_stack'[n].table] = n /\ table_stack'[n].idx <= ENTRIES[n]
        BY <1>1, <1>c, <1>h
      <3>5. /\ table_stack'[n + 1].table \in DOMAIN tables
            /\ lev[table_stack'[n + 1].table] = n + 1 /\ table_stack'[n + 1].idx <= ENTRIES[n + 1]
        BY <1>e, <1>h, <3>2
      <3> QED BY <1>i, <3>3, <3>4, <3>5
    <2> QED BY <1>1, <1>3, <1>c, <1>g, <1>h, <2>1, <2>2, <2>3 DEF Destruction
  <1> QED BY <1>4, <1>5, <1>6, <1>7, <1>8, <1>9, <1>g DEF IInv, Tree

LEMMA EntryDoneStep ==
  ASSUME TypeOK, fault = "none", NEW lev \in [DOMAIN tables -> Levels], Tree(lev),
         UNCHANGED reserved, EntryDone
  PROVE  IInv'
PROOF
  <1>1. /\ pc = "entry" /\ table_stack = <<>> /\ pc' = "destroy" /\ slot' = slot + 1
        /\ Put(level0_table, slot, EMPTY_ENTRY)
        /\ UNCHANGED <<bitmap, level0_table, region, todo, walk, unit, l3_idx, block, table_stack, fault>>
    BY DEF EntryDone, request, cursor, Put
  <1>2. /\ Destroying /\ unit = 0 /\ level0_table # NULL /\ MAP_TYPE = "ALLOC"
        /\ level0_table \in DOMAIN tables /\ lev[level0_table] = 0
        /\ slot \in Indices(0) /\ slot + 1 \in 0 .. ENTRIES[0] /\ slot < ENTRIES[0]
        /\ \A i \in Indices(0) : i < slot => tables[level0_table][i] = EMPTY_ENTRY
    <2>1. Destroying /\ slot < ENTRIES[0]
      BY <1>1 DEF Destroying, Tree, Destruction
    <2>2. /\ unit = 0 /\ level0_table # NULL /\ level0_table \in DOMAIN tables
          /\ lev[level0_table] = 0 /\ slot \in 0 .. ENTRIES[0] /\ ENTRIES[0] \in Nat \ {0}
      BY <2>1, DestroyingIs
    <2>3. slot \in Indices(0) /\ slot + 1 \in 0 .. ENTRIES[0]
      BY <2>1, <2>2 DEF Indices
    <2> QED BY <2>1, <2>2, <2>3 DEF Tree, Destruction
  <1>3. /\ DOMAIN tables' = DOMAIN tables /\ Shaped(lev)'
        /\ tables'[level0_table][slot] = EMPTY_ENTRY
        /\ \A u \in DOMAIN tables : \A j \in Indices(lev[u]) :
             u # level0_table \/ j # slot => tables'[u][j] = tables[u][j]
    <2>1. Shaped(lev) /\ EMPTY_ENTRY.bits # BLOCK /\ EMPTY_ENTRY \in EntryType
      BY EmptyIs DEF Tree, BLOCK
    <2> QED BY <1>1, <1>2, <2>1, PutIs
  <1>4. TypeOK'
    <2>1. /\ bitmap' \in SUBSET Pages /\ level0_table' \in Pages /\ pc' \in PCs \ {"units"}
          /\ slot' \in 0 .. ENTRIES[0] /\ fault' \in FaultType
          /\ table_stack' \in Seq(PlaceType) /\ Len(table_stack') <= 3
          /\ \A i \in DOMAIN table_stack' : table_stack'[i].level = i
      BY <1>1, <1>2 DEF TypeOK, PCs, FaultType, Faults, PlaceType
    <2>2. \A t \in DOMAIN tables' : \E level \in Levels : tables'[t] \in [Indices(level) -> EntryType]
      BY <1>3 DEF Shaped
    <2> QED BY <1>1, <2>1, <2>2, DownType
  <1>5. Linked(lev)'
    <2>1. Places = {} /\ Places' = {}
      BY <1>1 DEF Places
    <2>2. ASSUME NEW t \in DOMAIN tables, NEW i \in Indices(lev[t])
          PROVE  /\ Link(lev, t, i)' <=> Link(lev, t, i)
                 /\ Link(lev, t, i) => tables'[t][i].page = tables[t][i].page
      <3>1. CASE t = level0_table /\ i = slot
        <4>1. ~Link(lev, t, i)
          BY <1>1, <3>1 DEF Link, Live
        <4>2. ~Link(lev, t, i)'
          BY <1>3, <3>1, EmptyIs DEF Link, TABLE
        <4> QED BY <4>1, <4>2
      <3>2. CASE ~(t = level0_table /\ i = slot)
        <4>1. tables'[t][i] = tables[t][i]
          BY <1>3, <3>2
        <4>2. Live(t, i) /\ Live(t, i)'
          BY <1>1, <3>2 DEF Live
        <4> QED BY <1>3, <4>1, <4>2 DEF Link
      <3> QED BY <3>1, <3>2
    <2> QED BY <1>3, <2>1, <2>2, LinkedStays DEF Tree
  <1>6. Rooted(lev)'
    BY <1>1, <1>2, <1>3 DEF Tree, Rooted, Destroying
  <1>7. Walking(lev)'
    BY <1>1, <1>2 DEF Walking, InCall
  <1>8. Destruction(lev)'
    <2>1. ASSUME NEW i \in Indices(0), i < slot + 1 PROVE tables'[level0_table][i] = EMPTY_ENTRY
      <3>1. i = slot \/ (i # slot /\ i < slot)
        BY <1>2, <2>1 DEF Indices
      <3> QED BY <1>2, <1>3, <3>1
    <2> QED BY <1>1, <1>2, <2>1 DEF Destruction, Destroying
  <1> QED BY <1>1, <1>3, <1>4, <1>5, <1>6, <1>7, <1>8 DEF IInv, Tree

-----------------------------------------------------------------------------
LEMMA InitIInv == Init => IInv
PROOF
  <1> SUFFICES ASSUME Init PROVE IInv
    OBVIOUS
  <1>1. /\ NULL \in reserved /\ reserved \subseteq Pages /\ NULL \in Pages
        /\ bitmap = reserved /\ DOMAIN tables = {}
        /\ level0_table = NULL /\ pc = "idle" /\ region = NO_REGION
        /\ todo = <<>> /\ walk = NOWHERE /\ unit = 0 /\ l3_idx = 0
        /\ block = EMPTY_ENTRY /\ slot = 0 /\ table_stack = <<>> /\ fault = "none"
    BY MmuAssumption DEF Init
  <1>2. TypeOK
    <2>1. walk \in Walks /\ walk.level = 0
      BY <1>1 DEF NOWHERE, Walks, Levels
    <2>2. 0 \in Indices(3) /\ 0 \in 0 .. ENTRIES[0]
      BY EntriesAre DEF Indices, Levels
    <2>3. <<>> \in Seq(Calls) /\ <<>> \in Seq(PlaceType) /\ Len(<<>>) = 0
      BY EmptySeq
    <2> QED BY <1>1, <2>1, <2>2, <2>3, EmptyIs DEF TypeOK, Walks, PlaceType
  <1>3. PICK l2 \in [DOMAIN tables -> Levels] : TRUE
    <2>1. [t \in {} |-> 0] \in [{} -> Levels]
      OBVIOUS
    <2> QED BY <1>1, <2>1
  <1>4. Tree(l2)
    BY <1>1 DEF Tree, Shaped, Linked, Rooted, Walking, InCall, Destruction, Destroying
  <1> QED BY <1>2, <1>3, <1>4 DEF IInv

LEMMA NextIInv == IInv /\ [Next]_vars => IInv'
PROOF
  <1> SUFFICES ASSUME IInv, [Next]_vars PROVE IInv'
    OBVIOUS
  <1>1. CASE UNCHANGED vars
    <2>1. UNCHANGED <<reserved, bitmap, tables, level0_table, pc, region, todo, walk, unit, l3_idx,
                      block, slot, table_stack, fault>>
      BY <1>1 DEF vars, memory, request, cursor, down
    <2>2. TypeOK'
      BY <2>1 DEF IInv, TypeOK, EndUnit, unit_count, Idx, TheCall
    <2>3. ASSUME NEW lev \in [DOMAIN tables -> Levels], Tree(lev) PROVE Tree(lev)'
      BY <2>1, <2>3 DEF Tree, Shaped, Linked, Rooted, Walking, InCall, Destruction, Destroying,
                        Link, Live, Places, Top, EndUnit, unit_count, Idx, TheCall, TableOfFirst
    <2> QED BY <2>1, <2>2, <2>3 DEF IInv
  <1>2. CASE Step
    <2>1. TypeOK /\ fault = "none" /\ UNCHANGED reserved
      BY <1>2 DEF IInv, Step, Start, Continue
    <2>2. PICK lev \in [DOMAIN tables -> Levels] : Tree(lev)
      BY <2>1 DEF IInv
    <2>3. CASE memory_create_context
      BY <2>1, <2>2, <2>3, CreateStep
    <2>4. ASSUME NEW r \in REGIONS, memory_map_region(r) PROVE IInv'
      BY <2>1, <2>2, <2>4, MapRegionStep
    <2>5. CASE memory_destroy_context
      BY <2>1, <2>2, <2>5, DestroyStartStep
    <2>6. CASE InsertReturns
      BY <2>1, <2>2, <2>6, InsertReturnsStep
    <2>7. CASE mmu_traverse_and_alloc_tables
      BY <2>1, <2>2, <2>7, TraverseStartsStep, TraverseEmptyStep, TraverseTableStep,
         SplitLinksStep, SplitFillsStep DEF mmu_traverse_and_alloc_tables
    <2>8. CASE mmu_map_units
      BY <2>1, <2>2, <2>8, UnitsStartStep, UnitCreatedStep, UnitOverriddenStep, UnitIsTableStep,
         PageCreatedStep, PageOverriddenStep, UnitsDoneStep DEF mmu_map_units
    <2>9. CASE mmu_destroy_entry
      BY <2>1, <2>2, <2>9, EntryLeavesStep, EntryIsTableStep, EntryDoneStep DEF mmu_destroy_entry
    <2>10. CASE memory_mmu_destroy_table
      BY <2>1, <2>2, <2>10, SlotEmptyStep, SlotTakenStep, DestroyReturnsStep
         DEF memory_mmu_destroy_table
    <2> QED BY <1>2, <2>3, <2>4, <2>5, <2>6, <2>7, <2>8, <2>9, <2>10 DEF Step, Start, Continue
  <1> QED BY <1>1, <1>2 DEF Next, AfterFault, Step

\* The inductive invariant: the types, and a tree of tables until a fault.
THEOREM InvariantHolds == Spec => []IInv
PROOF
  <1>1. Init => IInv
    BY InitIInv
  <1>2. IInv /\ [Next]_vars => IInv'
    BY NextIInv
  <1> QED BY <1>1, <1>2, PTL DEF Spec

\* The types of the state of mmu.c, whatever is mapped and destroyed.  The model
\* ends at the first fault, so that a place that is not in its table (line 429)
\* is named by the stack and never read.
THEOREM TypesHold == Spec => []TypeOK
PROOF
  <1>1. IInv => TypeOK
    BY DEF IInv
  <1> QED BY <1>1, InvariantHolds, PTL

-----------------------------------------------------------------------------
(***************************************************************************)
(* Look-ups.                                                               *)
(***************************************************************************)
\* After a fault the kernel is stopped inside its call, or has no tables.
Stopped == fault # "none" => pc # "idle" \/ level0_table = NULL

LEMMA StoppedHolds == Spec => []Stopped
PROOF
  <1>1. Init => Stopped
    BY DEF Init, Stopped
  <1>2. ASSUME Stopped, [Next]_vars PROVE Stopped'
    <2>1. CASE UNCHANGED vars
      BY <1>2, <2>1 DEF Stopped, vars, memory
    <2>2. CASE memory_create_context
      BY <2>2 DEF memory_create_context, Claimed, Stopped
    <2>3. CASE \E r \in REGIONS : memory_map_region(r)
      BY <2>3 DEF memory_map_region, Stopped
    <2>4. CASE memory_destroy_context
      BY <2>4 DEF memory_destroy_context, Stopped
    <2>5. CASE Continue
      <3>1. fault = "none"
        BY <2>5 DEF Continue
      <3>2. CASE InsertReturns
        BY <3>1, <3>2 DEF InsertReturns, Stopped
      <3>3. CASE mmu_traverse_and_alloc_tables
        BY <3>1, <3>3 DEF mmu_traverse_and_alloc_tables, TraverseStarts, TraverseEmpty,
           TraverseTable, SplitLinks, SplitFills, Traversing, Stopped
      <3>4. CASE mmu_map_units
        BY <3>1, <3>4 DEF mmu_map_units, UnitsStart, UnitCreated, UnitOverridden, UnitIsTable,
           PageCreated, PageOverridden, UnitsDone, InUnits, NextUnit, NextPage, Stopped
      <3>5. CASE mmu_destroy_entry
        BY <3>1, <3>5 DEF mmu_destroy_entry, EntrySkipped, EntryIsTable, EntryIsPage,
           EntryIsBlock, EntryDone, AtEntry, Stopped
      <3>6. CASE memory_mmu_destroy_table
        BY <3>1, <3>6 DEF memory_mmu_destroy_table, SlotEmpty, SlotTaken, DestroyReturns, Stopped
      <3> QED BY <2>5, <3>2, <3>3, <3>4, <3>5, <3>6 DEF Continue
    <2> QED BY <1>2, <2>1, <2>2, <2>3, <2>4, <2>5 DEF Next, AfterFault, Start
  <1> QED BY <1>1, <1>2, PTL DEF Spec

\* What remains of an address after a division holds its lower indices.
LEMMA NestedRemainder ==
  ASSUME NEW v \in Nat, NEW n \in Nat \ {0}, NEW w \in Nat \ {0}
  PROVE  /\ (v % (n * w)) \div w = (v \div w) % n
         /\ (v % (n * w)) % w = v % w
PROOF
  <1> DEFINE q == v \div w
             r == v % w
             k == q \div n
             s == q % n
  <1>1. q \in Nat /\ r \in 0 .. (w - 1) /\ v = q * w + r
    BY Division
  <1>2. k \in Nat /\ s \in 0 .. (n - 1) /\ q = k * n + s
    <2> HIDE DEF q
    <2> QED BY <1>1, Division
  <1> HIDE DEF q, r, k, s
  <1>3. n * w \in Nat \ {0}
    BY ProductPositive
  <1> DEFINE low == s * w + r
  <1>4. v = k * (n * w) + low
    <2>1. q * w = k * (n * w) + s * w
      BY <1>2
    <2> QED BY <1>1, <1>2, <2>1
  <1>5. low \in 0 .. (n * w - 1)
    <2>1. s * w <= (n - 1) * w
      BY <1>2, MultipleMonotone
    <2>2. (n - 1) * w = n * w - w /\ s * w \in Nat
      BY <1>2
    <2> QED BY <1>1, <1>3, <2>1, <2>2
  <1>6. v % (n * w) = low
    <2> DEFINE m == n * w
    <2>1. m \in Nat \ {0} /\ v = k * m + low /\ low \in 0 .. (m - 1)
      BY <1>3, <1>4, <1>5
    <2> HIDE DEF m, low
    <2>2. v % m = low
      BY <1>2, <2>1, DivisionUnique
    <2> QED BY <2>2 DEF m
  <1>7. low \div w = s /\ low % w = r
    <2>1. low \in Nat /\ low = s * w + r /\ s \in Nat
      BY <1>2, <1>3, <1>5
    <2> HIDE DEF low
    <2> QED BY <1>1, <2>1, DivisionUnique
  <1> QED BY <1>6, <1>7 DEF q, r, s

LEMMA IndexType ==
  ASSUME NEW va \in Nat, NEW level \in Levels
  PROVE  Index(level, va) \in Indices(level)
PROOF
  <1>1. ENTRIES[level] \in Nat \ {0} /\ SIZE[level] \in Nat \ {0}
    BY EntriesAre, SizeIs
  <1>2. va \div SIZE[level] \in Nat
    BY <1>1, Division
  <1> QED BY <1>1, <1>2, Division DEF Index, Indices

\* A walk stops in a table of its level.
LEMMA StopIs ==
  ASSUME TypeOK, NEW lev \in [DOMAIN tables -> Levels], Tree(lev), table_stack = <<>>, pc # "entry",
         level0_table # NULL, NEW va \in Nat
  PROVE  /\ Stop(tables, va).level \in Levels
         /\ Stop(tables, va).table \in DOMAIN tables
         /\ lev[Stop(tables, va).table] = Stop(tables, va).level
PROOF
  <1>1. level0_table \in DOMAIN tables /\ lev[level0_table] = 0
    BY DEF Tree, Rooted
  <1>2. ASSUME NEW t \in DOMAIN tables, NEW level \in 0 .. 2, lev[t] = level,
               tables[t][Index(level, va)].bits = TABLE
        PROVE  /\ tables[t][Index(level, va)].page \in DOMAIN tables
               /\ lev[tables[t][Index(level, va)].page] = level + 1
    <2>1. Index(level, va) \in Indices(level) /\ level < 3
      BY IndexType DEF Levels
    <2>2. Link(lev, t, Index(level, va))
      BY <1>2, <2>1 DEF Link, Live
    <2> QED BY <1>2, <2>1, <2>2 DEF Tree, Linked
  <1> DEFINE l1 == tables[level0_table][Index(0, va)]
             l2 == tables[l1.page][Index(1, va)]
             l3 == tables[l2.page][Index(2, va)]
  <1>3. Stop(tables, va) =
          IF l1.bits # TABLE THEN [level |-> 0, table |-> level0_table]
          ELSE IF l2.bits # TABLE THEN [level |-> 1, table |-> l1.page]
          ELSE IF l3.bits # TABLE THEN [level |-> 2, table |-> l2.page]
          ELSE [level |-> 3, table |-> l3.page]
    BY DEF Stop
  <1>4. l1.bits = TABLE => l1.page \in DOMAIN tables /\ lev[l1.page] = 1
    BY <1>1, <1>2
  <1>5. l1.bits = TABLE /\ l2.bits = TABLE => l2.page \in DOMAIN tables /\ lev[l2.page] = 2
    BY <1>2, <1>4
  <1>6. ASSUME l1.bits = TABLE, l2.bits = TABLE, l3.bits = TABLE
        PROVE  l3.page \in DOMAIN tables /\ lev[l3.page] = 3
    <2>1. l2.page \in DOMAIN tables /\ lev[l2.page] = 2
      BY <1>5, <1>6
    <2> HIDE DEF l1, l2
    <2>2. 2 \in 0 .. 2 /\ 2 + 1 = 3
      OBVIOUS
    <2> QED BY <1>2, <1>6, <2>1, <2>2
  <1> HIDE DEF l1, l2, l3
  <1> QED BY <1>1, <1>3, <1>4, <1>5, <1>6 DEF Levels

\* Where the loop of mmu_find stops: at the table where the MMU's walk does, and
\* with the index of the MMU only if that is one of level 3.
LEMMA FindIs ==
  ASSUME TypeOK, NEW lev \in [DOMAIN tables -> Levels], Tree(lev), table_stack = <<>>, pc # "entry",
         level0_table # NULL, NEW va \in VAS
  PROVE  LET stop == Stop(tables, va)
         IN  /\ mmu_find(va).table = stop.table
             /\ mmu_find(va).idx = IF stop.level = 3 THEN Index(3, va) ELSE 0
PROOF
  <1>1. va \in Nat /\ va < ENTRIES[0] * SIZE[0]
    <2>1. ENTRIES[0] * SIZE[0] \in Nat
      BY EntriesAre, SizeIs DEF Levels
    <2> QED BY <2>1 DEF VAS
  <1>2. va \div SIZE[0] = Index(0, va)
    <2>1. va \div SIZE[0] \in 0 .. (ENTRIES[0] - 1) /\ ENTRIES[0] \in Nat \ {0}
      BY <1>1, IndexIs, EntriesAre DEF Indices, Levels
    <2> DEFINE n == ENTRIES[0]
               q == va \div SIZE[0]
    <2> HIDE DEF n, q
    <2>2. q \in 0 .. (n - 1) /\ n \in Nat \ {0}
      BY <2>1 DEF n, q
    <2>3. q % n = q
      BY <2>2
    <2> QED BY <2>3 DEF n, q, Index
  <1>3. ASSUME NEW level \in 0 .. 2
        PROVE  /\ (va % SIZE[level]) \div SIZE[level + 1] = Index(level + 1, va)
               /\ (va % SIZE[level]) % SIZE[level + 1] = va % SIZE[level + 1]
    <2>1. level + 1 \in Levels
      BY DEF Levels
    <2>2. SIZE[level] = ENTRIES[level + 1] * SIZE[level + 1]
      BY SizeIs
    <2> DEFINE n == ENTRIES[level + 1]
               w == SIZE[level + 1]
    <2>3. n \in Nat \ {0} /\ w \in Nat \ {0}
      BY <2>1, EntriesAre, SizeIs
    <2> HIDE DEF n, w
    <2>4. (va % (n * w)) \div w = (va \div w) % n /\ (va % (n * w)) % w = va % w
      BY <1>1, <2>3, NestedRemainder
    <2>5. SIZE[level] = n * w /\ Index(level + 1, va) = (va \div w) % n
      BY <2>2 DEF n, w, Index
    <2> QED BY <2>4, <2>5 DEF w
  <1>4. ASSUME NEW level \in Levels PROVE (va % SIZE[level]) \div SIZE[level] = 0
    <2> DEFINE w == SIZE[level]
               r == va % w
    <2>1. w \in Nat \ {0}
      BY SizeIs
    <2> HIDE DEF w
    <2>2. r \in 0 .. (w - 1)
      BY <1>1, <2>1
    <2> HIDE DEF r
    <2>3. r = 0 * w + r /\ r \in Nat
      BY <2>1, <2>2
    <2>4. r \div w = 0
      BY <2>1, <2>2, <2>3, DivisionUnique
    <2> QED BY <2>4 DEF r, w
  <1> DEFINE l1 == tables[level0_table][Index(0, va)]
             l2 == tables[l1.page][Index(1, va)]
             l3 == tables[l2.page][Index(2, va)]
             f1 == FindTurn(FindFrom(va), 0)
             f2 == FindTurn(f1, 1)
             f3 == FindTurn(f2, 2)
  <1>5. f1 = IF l1.bits = TABLE
               THEN [table |-> l1.page, level |-> 1, rest |-> va % SIZE[0]]
               ELSE [table |-> level0_table, level |-> 0, rest |-> va % SIZE[0]]
    BY <1>2 DEF FindTurn, FindFrom
  <1>6. f2 = IF l1.bits # TABLE THEN f1
             ELSE IF l2.bits = TABLE
               THEN [table |-> l2.page, level |-> 2, rest |-> va % SIZE[1]]
               ELSE [table |-> l1.page, level |-> 1, rest |-> va % SIZE[1]]
    <2>1. /\ (va % SIZE[0]) \div SIZE[1] = Index(1, va)
          /\ (va % SIZE[0]) % SIZE[1] = va % SIZE[1]
      BY <1>3, 0 \in 0 .. 2, 0 + 1 = 1
    <2> HIDE DEF f1
    <2>2. CASE l1.bits # TABLE
      BY <1>5, <2>2 DEF FindTurn
    <2>3. CASE l1.bits = TABLE
      BY <1>5, <2>1, <2>3 DEF FindTurn
    <2> QED BY <2>2, <2>3
  <1>7. f3 = IF l1.bits # TABLE \/ l2.bits # TABLE THEN f2
             ELSE IF l3.bits = TABLE
               THEN [table |-> l3.page, level |-> 3, rest |-> va % SIZE[2]]
               ELSE [table |-> l2.page, level |-> 2, rest |-> va % SIZE[2]]
    <2>1. /\ (va % SIZE[1]) \div SIZE[2] = Index(2, va)
          /\ (va % SIZE[1]) % SIZE[2] = va % SIZE[2]
      BY <1>3, 1 \in 0 .. 2, 1 + 1 = 2
    <2> HIDE DEF f1, f2, l1, l2
    <2>2. CASE l1.bits # TABLE \/ l2.bits # TABLE
      <3>1. f2.level # 2
        BY <1>5, <1>6, <2>2
      <3> QED BY <2>2, <3>1 DEF FindTurn
    <2>3. CASE l1.bits = TABLE /\ l2.bits = TABLE
      <3>1. f2 = [table |-> l2.page, level |-> 2, rest |-> va % SIZE[1]]
        BY <1>6, <2>3
      <3> QED BY <2>1, <2>3, <3>1 DEF FindTurn
    <2> QED BY <2>2, <2>3
  <1>8. mmu_find(va) = Found(f3)
    BY DEF mmu_find
  <1>9. (va % SIZE[2]) \div SIZE[3] = Index(3, va)
    BY <1>3, 2 \in 0 .. 2, 2 + 1 = 3
  <1>10. Stop(tables, va) =
          IF l1.bits # TABLE THEN [level |-> 0, table |-> level0_table]
          ELSE IF l2.bits # TABLE THEN [level |-> 1, table |-> l1.page]
          ELSE IF l3.bits # TABLE THEN [level |-> 2, table |-> l2.page]
          ELSE [level |-> 3, table |-> l3.page]
    BY DEF Stop
  <1>11. /\ (va % SIZE[0]) \div SIZE[0] = 0
         /\ (va % SIZE[1]) \div SIZE[1] = 0
         /\ (va % SIZE[2]) \div SIZE[2] = 0
    BY <1>4 DEF Levels
  <1> HIDE DEF l1, l2, l3, f1, f2, f3
  <1>12. CASE l1.bits # TABLE
    BY <1>5, <1>6, <1>7, <1>8, <1>10, <1>11, <1>12 DEF Found
  <1>13. CASE l1.bits = TABLE /\ l2.bits # TABLE
    BY <1>6, <1>7, <1>8, <1>10, <1>11, <1>13 DEF Found
  <1>14. CASE l1.bits = TABLE /\ l2.bits = TABLE /\ l3.bits # TABLE
    BY <1>7, <1>8, <1>10, <1>11, <1>14 DEF Found
  <1>15. CASE l1.bits = TABLE /\ l2.bits = TABLE /\ l3.bits = TABLE
    BY <1>7, <1>8, <1>9, <1>10, <1>15 DEF Found
  <1> QED BY <1>12, <1>13, <1>14, <1>15

\* What memory_mmu_va_to_pa answers for every page of every context: the MMU's
\* answer where the page has a level 3 table, and the first entry of the last
\* table everywhere else (mmu.c:365).
THEOREM LookupsHold == Spec => []Lookups
PROOF
  <1>1. ASSUME IInv, Stopped PROVE Lookups
    <2> DEFINE stop(va) == Stop(tables, va)
    <2> SUFFICES ASSUME pc = "idle", level0_table # NULL, NEW va \in VAS
                 PROVE  memory_mmu_va_to_pa(va) =
                          IF stop(va).level = 3 THEN Translate(tables, va).page
                                                ELSE tables[stop(va).table][0].page
      BY DEF Lookups
    <2>1. PICK lev \in [DOMAIN tables -> Levels] : Tree(lev)
      BY <1>1 DEF IInv, Stopped
    <2>2. table_stack = <<>> /\ TypeOK
      BY <1>1, <2>1 DEF Tree, Destruction, IInv
    <2>3. va \in Nat
      <3>1. ENTRIES[0] * SIZE[0] \in Nat
        BY EntriesAre, SizeIs DEF Levels
      <3> QED BY <3>1 DEF VAS
    <2>4. PICK level \in Levels, t \in DOMAIN tables :
            level = stop(va).level /\ t = stop(va).table /\ lev[t] = level
      BY <2>1, <2>2, <2>3, StopIs
    <2> DEFINE i == IF level = 3 THEN Index(3, va) ELSE 0
               entry == tables[t][i]
    <2>5. i \in Indices(level)
      <3>1. Index(level, va) \in Indices(level)
        BY <2>3, IndexType
      <3>2. 0 \in Indices(level)
        BY EntriesAre DEF Indices
      <3> QED BY <3>1, <3>2
    <2>6. memory_mmu_va_to_pa(va) = IF entry.bits # 0 THEN entry.page ELSE NULL
      <3>1. mmu_find(va).table = t /\ mmu_find(va).idx = i
        BY <2>1, <2>2, <2>4, FindIs
      <3> QED BY <3>1 DEF memory_mmu_va_to_pa
    <2>7. entry \in EntryType /\ (entry.bits = 0 => entry = EMPTY_ENTRY)
      BY <2>1, <2>4, <2>5 DEF Tree, Shaped
    <2>8. CASE level = 3
      <3>1. Translate(tables, va) = IF entry.bits = 0 THEN UNMAPPED
                                    ELSE [page |-> entry.page + (va % SIZE[3]), type |-> entry.type]
        BY <2>4, <2>8 DEF Translate
      <3>2. entry.page \in Nat
        BY <2>7 DEF EntryType
      <3> HIDE DEF entry
      <3>3. va % SIZE[3] = 0
        <4>1. va % 1 = 0
          BY <2>3
        <4> QED BY <4>1, SizeIs
      <3>4. entry.page + (va % SIZE[3]) = entry.page
        BY <3>2, <3>3
      <3> QED BY <2>4, <2>6, <2>8, <3>1, <3>4 DEF UNMAPPED
    <2>9. CASE level # 3
      <3>1. entry = tables[t][0]
        BY <2>9
      <3> HIDE DEF entry
      <3> QED BY <2>4, <2>6, <2>7, <2>9, <3>1 DEF EMPTY_ENTRY
    <2> QED BY <2>8, <2>9
  <1> QED BY <1>1, InvariantHolds, StoppedHolds, PTL

-----------------------------------------------------------------------------
(***************************************************************************)
(* Pages.  A claimed page belongs to exactly one entry, or is kept: by     *)
(* others, as the level 0 table, as a table on the stack of a destruction, *)
(* or as a page of the block that is being split.                          *)
(***************************************************************************)
Uses(t, i) == t \in DOMAIN tables /\ i \in DOMAIN tables[t] /\ tables[t][i].bits # 0 /\ Live(t, i)

Extent(e) == Run(e.page, IF e.bits = BLOCK THEN SIZE[2] ELSE 1)

Owns(t, i, p) == Uses(t, i) /\ p \in Extent(tables[t][i])

Splitting == IF pc = "split" THEN Run(block.page, SIZE[2]) ELSE {}

Kept(p) == p \in reserved \cup {level0_table} \cup Places \cup Splitting

OneOwner(p) ==
  /\ \A t, u, i, j : Owns(t, i, p) /\ Owns(u, j, p) => t = u /\ i = j
  /\ \A t, i : Owns(t, i, p) => ~Kept(p)
  /\ p \in bitmap <=> Kept(p) \/ \E t, i : Owns(t, i, p)

Apart ==
  /\ NULL \in reserved
  /\ level0_table # NULL => level0_table \notin reserved
  /\ Places \cap reserved = {}
  /\ \A p \in Splitting : p \notin reserved /\ p # level0_table
  /\ pc = "split" => \A i \in DOMAIN tables[walk.table] : tables[walk.table][i].bits = 0

Aligned == \A t, i : Uses(t, i) /\ tables[t][i].bits = BLOCK => tables[t][i].page % SIZE[2] = 0

Data == (\A p \in Nat : OneOwner(p)) /\ Apart /\ Aligned

LEMMA OwnerStays ==
  ASSUME NEW p, OneOwner(p), \A t, i : Owns(t, i, p)' <=> Owns(t, i, p),
         Kept(p)' <=> Kept(p), p \in bitmap' <=> p \in bitmap
  PROVE  OneOwner(p)'
  BY DEF OneOwner

LEMMA KeptOnce ==
  ASSUME NEW p, \A t, i : ~Owns(t, i, p)', Kept(p)', p \in bitmap'
  PROVE  OneOwner(p)'
  BY DEF OneOwner

LEMMA FreeOnce ==
  ASSUME NEW p, \A t, i : ~Owns(t, i, p)', ~Kept(p)', p \notin bitmap'
  PROVE  OneOwner(p)'
  BY DEF OneOwner

LEMMA ExtentIs ==
  ASSUME NEW e \in EntryType
  PROVE  Extent(e) \subseteq Nat /\ (e.bits # BLOCK => Extent(e) = {e.page})
  BY SizeIs DEF Extent, Run, EntryType, Levels

\* Nothing but types of entries changes, and how far the kernel is.
LEMMA DataStays ==
  ASSUME Data, UNCHANGED <<reserved, bitmap, level0_table, table_stack>>,
         pc \notin {"split", "entry"}, pc' \notin {"split", "entry"},
         DOMAIN tables' = DOMAIN tables,
         \A t \in DOMAIN tables : DOMAIN tables'[t] = DOMAIN tables[t],
         \A t \in DOMAIN tables : \A i \in DOMAIN tables[t] :
           tables'[t][i].bits = tables[t][i].bits /\ tables'[t][i].page = tables[t][i].page
  PROVE  Data'
PROOF
  <1>1. \A t, i : Uses(t, i)' <=> Uses(t, i)
    BY DEF Uses, Live
  <1>2. \A t, i : Uses(t, i) => Extent(tables'[t][i]) = Extent(tables[t][i])
    BY DEF Uses, Extent
  <1>3. \A t, i, p : Owns(t, i, p)' <=> Owns(t, i, p)
    BY <1>1, <1>2 DEF Owns
  <1>4. \A p : Kept(p)' <=> Kept(p)
    BY DEF Kept, Places, Splitting
  <1>5. \A p \in Nat : OneOwner(p)'
    BY <1>3, <1>4, OwnerStays DEF Data
  <1>6. Apart'
    BY DEF Data, Apart, Places, Splitting
  <1>7. Aligned'
    BY <1>1 DEF Data, Aligned, Uses
  <1> QED BY <1>5, <1>6, <1>7 DEF Data

\* An unused entry gets pages of its own.
LEMMA EntryGains ==
  ASSUME Data, NEW lev \in [DOMAIN tables -> Levels], Shaped(lev),
         UNCHANGED <<reserved, level0_table, table_stack>>, table_stack = <<>>,
         pc \notin {"split", "entry"}, pc' \notin {"split", "entry"},
         NEW T \in DOMAIN tables, NEW n \in Indices(lev[T]), NEW e \in EntryType, Put(T, n, e),
         tables[T][n].bits = 0, e.bits # 0,
         e.bits = BLOCK => lev[T] = 2, e.bits = BLOCK => e.page % SIZE[2] = 0,
         Extent(e) \cap bitmap = {}, bitmap' = bitmap \cup Extent(e)
  PROVE  Data'
PROOF
  <1>1. /\ DOMAIN tables' = DOMAIN tables /\ tables'[T][n] = e
        /\ \A u \in DOMAIN tables : DOMAIN tables[u] = Indices(lev[u]) /\ DOMAIN tables'[u] = Indices(lev[u])
        /\ \A u \in DOMAIN tables : \A j \in Indices(lev[u]) :
             u # T \/ j # n => tables'[u][j] = tables[u][j]
    <2>1. /\ DOMAIN tables' = DOMAIN tables /\ tables'[T][n] = e /\ Shaped(lev)'
          /\ \A u \in DOMAIN tables : \A j \in Indices(lev[u]) :
               u # T \/ j # n => tables'[u][j] = tables[u][j]
      BY PutIs
    <2> QED BY <2>1 DEF Shaped
  <1>2. \A t, i : Live(t, i) /\ Live(t, i)'
    BY DEF Live
  <1>3. \A p : Kept(p)' <=> Kept(p)
    BY DEF Kept, Places, Splitting
  <1>4. ASSUME NEW t, NEW i, ~(t = T /\ i = n)
        PROVE  /\ Uses(t, i)' <=> Uses(t, i)
               /\ Uses(t, i) => tables'[t][i] = tables[t][i]
    BY <1>1, <1>2, <1>4 DEF Uses
  <1>5. Uses(T, n)' /\ ~Uses(T, n)
    BY <1>1, <1>2 DEF Uses
  <1>6. ASSUME NEW p \in Nat PROVE OneOwner(p)'
    <2>1. CASE p \in Extent(e)
      <3>1. p \notin bitmap /\ p \in bitmap'
        BY <2>1
      <3>2. ~Kept(p) /\ \A t, i : ~Owns(t, i, p)
        BY <3>1 DEF Data, OneOwner
      <3>3. \A t, i : Owns(t, i, p)' <=> t = T /\ i = n
        BY <1>1, <1>4, <1>5, <2>1, <3>2 DEF Owns
      <3>4. ~Kept(p)'
        BY <1>3, <3>2
      <3> QED BY <3>1, <3>3, <3>4 DEF OneOwner
    <2>2. CASE p \notin Extent(e)
      <3>1. \A t, i : Owns(t, i, p)' <=> Owns(t, i, p)
        BY <1>1, <1>4, <1>5, <2>2 DEF Owns
      <3>2. (p \in bitmap' <=> p \in bitmap) /\ (Kept(p)' <=> Kept(p)) /\ OneOwner(p)
        BY <1>3, <2>2 DEF Data
      <3> QED BY <3>1, <3>2, OwnerStays
    <2> QED BY <2>1, <2>2
  <1>7. Apart'
    BY DEF Data, Apart, Places, Splitting
  <1>8. Aligned'
    <2> SUFFICES ASSUME NEW t, NEW i, Uses(t, i)', tables'[t][i].bits = BLOCK
                 PROVE  tables'[t][i].page % SIZE[2] = 0
      BY DEF Aligned
    <2>1. CASE t = T /\ i = n
      BY <1>1, <2>1
    <2>2. CASE ~(t = T /\ i = n)
      BY <1>4, <2>2 DEF Data, Aligned
    <2> QED BY <2>1, <2>2
  <1> QED BY <1>6, <1>7, <1>8 DEF Data

\* The steps that claim and free no page.
LEMMA CalmStep ==
  ASSUME TypeOK, NEW lev \in [DOMAIN tables -> Levels], Tree(lev), Data, UNCHANGED reserved,
         \/ \E r \in REGIONS : memory_map_region(r)
         \/ InsertReturns \/ TraverseStarts \/ TraverseTable
         \/ UnitsStart \/ UnitIsTable \/ UnitsDone
         \/ memory_destroy_context \/ SlotEmpty
  PROVE  Data'
PROOF
  <1>1. /\ UNCHANGED <<reserved, bitmap, level0_table, table_stack>> /\ tables' = tables
        /\ pc \notin {"split", "entry"} /\ pc' \notin {"split", "entry"}
    BY DEF memory_map_region, InsertReturns, TraverseStarts, TraverseTable, Traversing,
           UnitsStart, UnitIsTable, InUnits, UnitsDone, memory_destroy_context, SlotEmpty,
           memory, down
  <1> QED BY <1>1, DataStays

LEMMA OverriddenData ==
  ASSUME TypeOK, NEW lev \in [DOMAIN tables -> Levels], Tree(lev), Data, UNCHANGED reserved,
         UnitOverridden \/ PageOverridden
  PROVE  Data'
PROOF
  <1>1. PICK T, n, e :
          /\ T \in DOMAIN tables /\ n \in Indices(lev[T]) /\ e \in EntryType
          /\ Put(T, n, e)
          /\ e.bits = tables[T][n].bits /\ e.page = tables[T][n].page
          /\ tables[T][n].bits # 0 /\ (tables[T][n].bits = BLOCK => lev[T] = 2)
    <2>1. CASE UnitOverridden
      <3> DEFINE e == [UnitEntry EXCEPT !.type = region.type]
      <3>1. /\ InUnits /\ UnitEntry # EMPTY_ENTRY
            /\ tables' = [tables EXCEPT ![walk.table][unit].type = region.type]
        BY <2>1 DEF UnitOverridden
      <3>2. /\ walk.table \in DOMAIN tables /\ lev[walk.table] = walk.level
            /\ unit \in Indices(lev[walk.table]) /\ UnitEntry \in EntryType
        BY <3>1, UnitsType
      <3>3. Put(walk.table, unit, e)
        BY <3>1 DEF UnitEntry, Put
      <3>4. e \in EntryType /\ e.bits = UnitEntry.bits /\ e.page = UnitEntry.page
        BY <3>2, RegionType DEF EntryType
      <3>5. UnitEntry.bits # 0 /\ (UnitEntry.bits = BLOCK => lev[walk.table] = 2)
        BY <3>1, <3>2 DEF UnitEntry, Tree, Shaped
      <3> HIDE DEF e
      <3> QED BY <3>2, <3>3, <3>4, <3>5 DEF UnitEntry
    <2>2. CASE PageOverridden
      <3> DEFINE old == tables[pages][l3_idx]
                 e == [old EXCEPT !.type = region.type]
      <3>1. /\ pc = "pages" /\ old.bits # 0
            /\ tables' = [tables EXCEPT ![pages][l3_idx].type = region.type]
        BY <2>2 DEF PageOverridden
      <3>2. /\ pages \in DOMAIN tables /\ l3_idx \in Indices(lev[pages]) /\ old \in EntryType
        BY <3>1, PagesType
      <3>3. Put(pages, l3_idx, e)
        BY <3>1 DEF Put
      <3>4. e \in EntryType /\ e.bits = old.bits /\ e.page = old.page
        BY <3>2, RegionType DEF EntryType
      <3>5. old.bits = BLOCK => lev[pages] = 2
        BY <3>2 DEF Tree, Shaped
      <3> HIDE DEF e
      <3> QED BY <3>1, <3>2, <3>3, <3>4, <3>5
    <2> QED BY <2>1, <2>2
  <1>2. /\ UNCHANGED <<reserved, bitmap, level0_table, table_stack>>
        /\ pc \notin {"split", "entry"} /\ pc' \notin {"split", "entry"}
    BY DEF UnitOverridden, InUnits, NextUnit, PageOverridden, NextPage, down
  <1>3. Shaped(lev) /\ (e.bits = 0 => e = EMPTY_ENTRY) /\ (e.bits = BLOCK => lev[T] = 2)
    BY <1>1 DEF Tree
  <1>4. /\ DOMAIN tables' = DOMAIN tables /\ tables'[T][n] = e /\ Shaped(lev)'
        /\ \A u \in DOMAIN tables : \A j \in Indices(lev[u]) :
             u # T \/ j # n => tables'[u][j] = tables[u][j]
    <2>1. /\ T \in DOMAIN tables /\ n \in Indices(lev[T]) /\ e \in EntryType /\ Put(T, n, e)
      BY <1>1
    <2> QED BY <1>3, <2>1, PutIs
  <1>5. \A u \in DOMAIN tables : DOMAIN tables[u] = Indices(lev[u]) /\ DOMAIN tables'[u] = Indices(lev[u])
    BY <1>3, <1>4 DEF Shaped
  <1>6. \A u \in DOMAIN tables : \A j \in DOMAIN tables[u] :
           tables'[u][j].bits = tables[u][j].bits /\ tables'[u][j].page = tables[u][j].page
    BY <1>1, <1>4, <1>5
  <1> QED BY <1>2, <1>4, <1>5, <1>6, DataStays

\* A block that is found without a fault.
LEMMA BlockSpaceIs ==
  ASSUME bitmap \in SUBSET Pages, MAP_TYPE = "ALLOC", NEW va,
         Got(get_phys_space(va, SIZE[2], SIZE[2]), SIZE[2]) = "none"
  PROVE  LET space == get_phys_space(va, SIZE[2], SIZE[2])
         IN  /\ space.page \in Nat /\ space.page % SIZE[2] = 0
             /\ Run(space.page, SIZE[2]) \cap bitmap = {}
             /\ space.bitmap = bitmap \cup Run(space.page, SIZE[2])
PROOF
  <1> DEFINE w == SIZE[2]
             space == get_phys_space(va, w, w)
  <1>0. space.page # NULL /\ Run(space.page, w) \cap bitmap = {}
    BY DEF Got
  <1>1. w \in Nat \ {0}
    BY SizeIs DEF Levels
  <1>2. CASE w = 1
    <2>1. space = NewPage
      BY <1>2 DEF get_phys_space, NewPage
    <2>2. /\ space.page \in Pages /\ space.page \notin bitmap
          /\ space.bitmap = bitmap \cup {space.page}
      BY <1>0, <2>1, NewPageIs
    <2>3. space.page \in Nat
      BY <2>2, PageCountType DEF Pages
    <2> HIDE DEF space
    <2>4. Run(space.page, w) = {space.page} /\ space.page % w = 0
      BY <1>2, <2>3 DEF Run
    <2> QED BY <2>2, <2>3, <2>4 DEF space
  <1>3. CASE w # 1
    <2>1. space = FirstFit(bitmap, w, w)
      BY <1>3 DEF get_phys_space, memory_allocator_claim_pages
    <2>2. PICK p \in Fits(bitmap, w, w) : space = [page |-> p, bitmap |-> bitmap \cup Run(p, w)]
      <3>1. space # [page |-> NULL, bitmap |-> bitmap]
        BY <1>0
      <3> HIDE DEF space, w
      <3> QED BY <1>1, <2>1, <3>1, FirstFitIs
    <2>3. space.page = p /\ space.bitmap = bitmap \cup Run(p, w)
      BY <2>2
    <2>4. Run(p, w) \cap bitmap = {}
      BY <1>0, <2>3
    <2>5. p \in Nat /\ p % w = 0
      <3> HIDE DEF w
      <3>1. PICK k \in Nat : p = w * k
        BY <2>2, PageCountType DEF Fits
      <3>2. p = k * w + 0 /\ 0 \in 0 .. (w - 1)
        BY <1>1, <3>1
      <3>3. p \in Nat
        BY <1>1, <3>1
      <3> QED BY <1>1, <3>2, <3>3, DivisionUnique
    <2> HIDE DEF space
    <2> QED BY <2>3, <2>4, <2>5 DEF space
  <1> QED BY <1>2, <1>3

LEMMA UnitCreatedData ==
  ASSUME TypeOK, NEW lev \in [DOMAIN tables -> Levels], Tree(lev), Data, UNCHANGED reserved,
         UnitCreated, fault' = "none", MAP_TYPE = "ALLOC"
  PROVE  Data'
PROOF
  <1> DEFINE e == Piece(walk.level, UnitSpace.page, region.type)
  <1>1. /\ InUnits /\ NextUnit /\ UnitEntry = EMPTY_ENTRY
        /\ bitmap' = UnitSpace.bitmap /\ UnitSpace.page # NULL
        /\ Got(UnitSpace, SIZE[walk.level]) = "none"
        /\ Put(walk.table, unit, e)
    BY DEF UnitCreated, Put, Got
  <1>2. /\ pc = "units" /\ walk.table \in DOMAIN tables /\ lev[walk.table] = walk.level
        /\ unit \in Indices(lev[walk.table]) /\ walk.level \in {2, 3}
        /\ table_stack = <<>> /\ bitmap \in SUBSET Pages
    BY <1>1, UnitsType, RequestedIs DEF InUnits, Tree, Destruction, TypeOK
  <1>3. /\ UNCHANGED <<reserved, level0_table, table_stack>>
        /\ pc \notin {"split", "entry"} /\ pc' \notin {"split", "entry"}
    BY <1>1, <1>2 DEF NextUnit, down
  <1>4. tables[walk.table][unit].bits = 0
    BY <1>1 DEF UnitEntry, EMPTY_ENTRY
  <1>5. CASE walk.level = 3
    <2>1. UnitSpace = NewPage
      BY <1>5, SizeIs DEF UnitSpace, get_phys_space, NewPage
    <2>2. /\ UnitSpace.page \in Nat /\ UnitSpace.page \notin bitmap
          /\ bitmap' = bitmap \cup {UnitSpace.page}
      BY <1>1, <1>2, <2>1, NewPageIs, PageCountType DEF Pages
    <2>3. e \in EntryType /\ e.bits = TABLE /\ e.page = UnitSpace.page
      BY <1>5, <2>2, PieceIs, RegionType DEF Piece, mmu_create_page_entry
    <2> HIDE DEF e
    <2>4. Extent(e) = {UnitSpace.page} /\ e.bits # 0 /\ e.bits # BLOCK
      BY <2>3, ExtentIs DEF TABLE, BLOCK
    <2>5. Extent(e) \cap bitmap = {} /\ bitmap' = bitmap \cup Extent(e)
      BY <2>2, <2>4
    <2> QED BY <1>1, <1>2, <1>3, <1>4, <2>3, <2>4, <2>5, EntryGains DEF Tree
  <1>6. CASE walk.level = 2
    <2>1. UnitSpace = get_phys_space(requested_addr, SIZE[2], SIZE[2])
      BY <1>6 DEF UnitSpace
    <2>2. /\ UnitSpace.page \in Nat /\ UnitSpace.page % SIZE[2] = 0
          /\ Run(UnitSpace.page, SIZE[2]) \cap bitmap = {}
          /\ bitmap' = bitmap \cup Run(UnitSpace.page, SIZE[2])
      BY <1>1, <1>2, <1>6, <2>1, BlockSpaceIs
    <2>3. e \in EntryType /\ e.bits = BLOCK /\ e.page = UnitSpace.page
      BY <1>6, <2>2, PieceIs, RegionType DEF Piece, mmu_create_block_entry
    <2> HIDE DEF e
    <2>4. Extent(e) = Run(UnitSpace.page, SIZE[2]) /\ e.bits # 0
      BY <2>3 DEF BLOCK, Extent
    <2>5. Extent(e) \cap bitmap = {} /\ bitmap' = bitmap \cup Extent(e) /\ e.page % SIZE[2] = 0
      BY <2>2, <2>3, <2>4
    <2> QED BY <1>1, <1>2, <1>3, <1>4, <1>6, <2>3, <2>4, <2>5, EntryGains DEF Tree
  <1> QED BY <1>2, <1>5, <1>6

LEMMA PageCreatedData ==
  ASSUME TypeOK, NEW lev \in [DOMAIN tables -> Levels], Tree(lev), Data, UNCHANGED reserved,
         PageCreated, fault' = "none", MAP_TYPE = "ALLOC"
  PROVE  Data'
PROOF
  <1> DEFINE e == mmu_create_page_entry(PageSpace.page, region.type)
  <1>1. /\ pc = "pages" /\ NextPage /\ tables[pages][l3_idx].bits = 0
        /\ bitmap' = PageSpace.bitmap /\ PageSpace.page # NULL
        /\ Put(pages, l3_idx, e)
    BY DEF PageCreated, Put, Got
  <1>2. /\ pages \in DOMAIN tables /\ l3_idx \in Indices(lev[pages])
        /\ table_stack = <<>> /\ bitmap \in SUBSET Pages
    BY <1>1, PagesType DEF Tree, Destruction, TypeOK
  <1>3. /\ UNCHANGED <<reserved, level0_table, table_stack>>
        /\ pc \notin {"split", "entry"} /\ pc' \notin {"split", "entry"}
    BY <1>1, <1>2 DEF NextPage, down
  <1>4. PageSpace = NewPage
    BY DEF PageSpace, get_phys_space, NewPage
  <1>5. /\ PageSpace.page \in Nat /\ PageSpace.page \notin bitmap
        /\ bitmap' = bitmap \cup {PageSpace.page}
    BY <1>1, <1>2, <1>4, NewPageIs, PageCountType DEF Pages
  <1>6. e \in EntryType /\ e.bits = TABLE /\ e.page = PageSpace.page
    BY <1>5, RegionType DEF mmu_create_page_entry, EntryType, TABLE
  <1> HIDE DEF e
  <1>7. Extent(e) = {PageSpace.page} /\ e.bits # 0 /\ e.bits # BLOCK
    BY <1>6, ExtentIs DEF TABLE, BLOCK
  <1>8. Extent(e) \cap bitmap = {} /\ bitmap' = bitmap \cup Extent(e)
    BY <1>5, <1>7
  <1> QED BY <1>1, <1>2, <1>3, <1>6, <1>7, <1>8, EntryGains DEF Tree

LEMMA CreateData ==
  ASSUME TypeOK, NEW lev \in [DOMAIN tables -> Levels], Tree(lev), Data, UNCHANGED reserved,
         memory_create_context, fault' = "none"
  PROVE  Data'
PROOF
  <1>1. PICK new \in Nat : /\ new = NewPage.page /\ new # NULL /\ new \notin bitmap
                           /\ bitmap' = bitmap \cup {new}
    <2>1. /\ bitmap' = NewPage.bitmap /\ fault' = Claimed(NewPage.page) /\ bitmap \in SUBSET Pages
      BY DEF memory_create_context, TypeOK
    <2>2. NewPage.page # NULL
      BY <2>1 DEF Claimed
    <2>3. NewPage.page \in Nat
      BY <2>1, NewPageIs, PageCountType DEF Pages
    <2> QED BY <2>1, <2>2, <2>3, NewPageIs
  <1>2. /\ pc = "idle" /\ pc' = "idle" /\ level0_table = NULL /\ level0_table' = new
        /\ tables' = WithTable(new, Zeroed(0)) /\ UNCHANGED <<reserved, table_stack>>
    BY <1>1 DEF memory_create_context, down
  <1>3. DOMAIN tables = {} /\ table_stack = <<>>
    BY <1>2 DEF Tree, Rooted, Destruction
  <1>4. \A t, i : ~Uses(t, i) /\ ~Uses(t, i)'
    BY <1>2, <1>3, EmptyIs DEF Uses, WithTable, Zeroed
  <1>5. \A p \in Nat : p \in bitmap <=> p \in reserved
    BY <1>2, <1>3, <1>4 DEF Data, OneOwner, Owns, Kept, Places, Splitting, Apart
  <1>6. \A p \in Nat : Kept(p)' <=> p \in reserved \/ p = new
    BY <1>2, <1>3 DEF Kept, Places, Splitting
  <1>7. \A p \in Nat : OneOwner(p)'
    BY <1>1, <1>4, <1>5, <1>6 DEF OneOwner, Owns
  <1>8. Apart'
    BY <1>1, <1>2, <1>3, <1>5 DEF Data, Apart, Places, Splitting
  <1> QED BY <1>4, <1>7, <1>8 DEF Data, Aligned

\* A new table belongs to the entry it is linked to.
LEMMA NewTableOwned ==
  ASSUME TypeOK, NEW lev \in [DOMAIN tables -> Levels], Tree(lev), Data, Traversing, LinkNewTable,
         UNCHANGED <<reserved, level0_table, table_stack>>, NewPage.page # NULL, pc' # "entry"
  PROVE  \E new \in Nat : \E T, n :
           /\ new \notin bitmap /\ bitmap' = bitmap \cup {new}
           /\ T = walk.table /\ n = Idx /\ Live(T, n)
           /\ T \in DOMAIN tables /\ n \in DOMAIN tables[T]
           /\ walk'.table = new /\ \A i \in DOMAIN tables'[new] : tables'[new][i].bits = 0
           /\ \A p : Owns(T, n, p)' <=> p = new
           /\ \A t, i, p : t # T \/ i # n => (Owns(t, i, p)' <=> Owns(t, i, p))
           /\ Aligned'
PROOF
  <1>1. PICK new, l2, T, n :
          /\ new \in Nat /\ new = NewPage.page /\ l2 = With(lev, new, walk.level + 1)
          /\ T = walk.table /\ n = Idx
    BY NewPageIs, PageCountType DEF TypeOK, Pages
  <1>2. /\ new \notin DOMAIN tables
        /\ DOMAIN tables' = DOMAIN tables \cup {new}
        /\ tables'[new] = Zeroed(walk.level + 1)
        /\ tables'[T][n] = mmu_create_table_entry(new)
        /\ \A u \in DOMAIN tables : \A j \in Indices(lev[u]) :
             u # T \/ j # n => tables'[u][j] = tables[u][j]
        /\ \A u \in DOMAIN tables' : tables'[u] \in [Indices(l2[u]) -> EntryType]
    BY <1>1, NewTableIs
  <1>3. /\ pc = "traverse" /\ T \in DOMAIN tables /\ n \in Indices(lev[T]) /\ table_stack = <<>>
    BY <1>1, TraversingIs
  <1>4. /\ new \notin bitmap /\ bitmap' = bitmap \cup {new} /\ walk'.table = new
    BY <1>1, NewPageIs DEF LinkNewTable, Enter, TypeOK
  <1>5. \A u \in DOMAIN tables : DOMAIN tables[u] = Indices(lev[u]) /\ DOMAIN tables'[u] = Indices(lev[u])
    <2>1. \A u \in DOMAIN tables : l2[u] = lev[u]
      BY <1>1, <1>2 DEF With
    <2> QED BY <1>2, <2>1 DEF Tree, Shaped
  <1>6. \A i \in DOMAIN tables'[new] : tables'[new][i].bits = 0
    BY <1>2, EmptyIs DEF Zeroed
  <1>7. \A t, i : Live(t, i) /\ Live(t, i)'
    BY <1>3 DEF Live
  <1>8. /\ tables'[T][n].bits = TABLE /\ tables'[T][n].page = new /\ tables'[T][n] \in EntryType
    <2>1. tables'[T][n] \in EntryType
      BY <1>2, <1>3, <1>5
    <2> QED BY <1>2, <2>1 DEF mmu_create_table_entry
  <1>9. Uses(T, n)' /\ Extent(tables'[T][n]) = {new}
    BY <1>2, <1>3, <1>5, <1>7, <1>8, ExtentIs DEF Uses, TABLE, BLOCK
  <1>10. ASSUME NEW t, NEW i, t # T \/ i # n
         PROVE  /\ Uses(t, i)' <=> Uses(t, i)
                /\ Uses(t, i) => tables'[t][i] = tables[t][i]
    <2>1. CASE t = new
      BY <1>2, <1>6, <2>1 DEF Uses
    <2>2. CASE t # new
      BY <1>2, <1>5, <1>7, <1>10, <2>2 DEF Uses
    <2> QED BY <2>1, <2>2
  <1>11. \A p : Owns(T, n, p)' <=> p = new
    BY <1>9 DEF Owns
  <1>12. \A t, i, p : t # T \/ i # n => (Owns(t, i, p)' <=> Owns(t, i, p))
    BY <1>10 DEF Owns
  <1>13. Aligned'
    <2> SUFFICES ASSUME NEW t, NEW i, Uses(t, i)', tables'[t][i].bits = BLOCK
                 PROVE  tables'[t][i].page % SIZE[2] = 0
      BY DEF Aligned
    <2>1. t # T \/ i # n
      BY <1>8 DEF TABLE, BLOCK
    <2> QED BY <1>10, <2>1 DEF Data, Aligned
  <1> QED BY <1>1, <1>3, <1>4, <1>5, <1>6, <1>7, <1>11, <1>12, <1>13

LEMMA TraverseEmptyData ==
  ASSUME TypeOK, NEW lev \in [DOMAIN tables -> Levels], Tree(lev), Data, UNCHANGED reserved,
         TraverseEmpty, fault' = "none"
  PROVE  Data'
PROOF
  <1>1. /\ Traversing /\ LinkNewTable /\ UNCHANGED <<reserved, level0_table, table_stack>>
        /\ NewPage.page # NULL /\ pc = "traverse" /\ pc' = "traverse" /\ Entry.bits = 0
        /\ table_stack = <<>>
    BY TraversingIs DEF TraverseEmpty, Traversing, LinkNewTable, Claimed, down
  <1>2. PICK new, T, n :
           /\ new \in Nat
           /\ new \notin bitmap /\ bitmap' = bitmap \cup {new}
           /\ T = walk.table /\ n = Idx
           /\ \A p : Owns(T, n, p)' <=> p = new
           /\ \A t, i, p : t # T \/ i # n => (Owns(t, i, p)' <=> Owns(t, i, p))
           /\ Aligned'
    <2>1. pc' # "entry"
      BY <1>1
    <2> QED BY <1>1, <2>1, NewTableOwned
  <1>3. \A p : ~Owns(T, n, p)
    BY <1>1, <1>2 DEF Owns, Uses, Entry
  <1>4. \A p : Kept(p)' <=> Kept(p)
    BY <1>1 DEF Kept, Places, Splitting
  <1>5. ASSUME NEW p \in Nat PROVE OneOwner(p)'
    <2>1. CASE p = new
      <3>1. ~Kept(p)' /\ \A t, i : ~Owns(t, i, p)
        BY <1>2, <1>4, <2>1 DEF Data, OneOwner
      <3>2. \A t, i : Owns(t, i, p)' <=> t = T /\ i = n
        BY <1>2, <2>1, <3>1
      <3>3. p \in bitmap'
        BY <1>2, <2>1
      <3> QED BY <3>1, <3>2, <3>3 DEF OneOwner
    <2>2. CASE p # new
      <3>1. \A t, i : Owns(t, i, p)' <=> Owns(t, i, p)
        BY <1>2, <1>3, <2>2
      <3>2. (p \in bitmap' <=> p \in bitmap) /\ (Kept(p)' <=> Kept(p)) /\ OneOwner(p)
        BY <1>2, <1>4, <2>2 DEF Data
      <3> QED BY <3>1, <3>2, OwnerStays
    <2> QED BY <2>1, <2>2
  <1>6. Apart'
    BY <1>1 DEF Data, Apart, Places, Splitting
  <1> QED BY <1>2, <1>5, <1>6 DEF Data

LEMMA SplitLinksData ==
  ASSUME TypeOK, NEW lev \in [DOMAIN tables -> Levels], Tree(lev), Data, UNCHANGED reserved,
         SplitLinks, fault' = "none"
  PROVE  Data'
PROOF
  <1>1. /\ Traversing /\ LinkNewTable /\ UNCHANGED <<reserved, level0_table, table_stack>>
        /\ NewPage.page # NULL /\ pc = "traverse" /\ pc' = "split" /\ Entry.bits = BLOCK
        /\ table_stack = <<>> /\ block' = Entry
    BY TraversingIs DEF SplitLinks, Traversing, LinkNewTable, Claimed, down
  <1>2. PICK new, T, n :
           /\ new \in Nat
           /\ new \notin bitmap /\ bitmap' = bitmap \cup {new}
           /\ T = walk.table /\ n = Idx /\ Live(T, n)
           /\ T \in DOMAIN tables /\ n \in DOMAIN tables[T]
           /\ walk'.table = new /\ \A i \in DOMAIN tables'[new] : tables'[new][i].bits = 0
           /\ \A p : Owns(T, n, p)' <=> p = new
           /\ \A t, i, p : t # T \/ i # n => (Owns(t, i, p)' <=> Owns(t, i, p))
           /\ Aligned'
    <2>1. pc' # "entry"
      BY <1>1
    <2> QED BY <1>1, <2>1, NewTableOwned
  <1>3. \A p : Owns(T, n, p) <=> p \in Splitting'
    BY <1>1, <1>2 DEF Owns, Uses, Entry, Splitting, Extent, BLOCK
  <1>4. \A p : Kept(p)' <=> Kept(p) \/ Owns(T, n, p)
    BY <1>1, <1>3 DEF Kept, Places, Splitting
  <1>5. ASSUME NEW p \in Nat PROVE OneOwner(p)'
    <2>0. OneOwner(p)
      BY DEF Data
    <2>1. CASE p = new
      <3>1. ~Kept(p)' /\ \A t, i : ~Owns(t, i, p)
        BY <1>2, <1>4, <2>0, <2>1 DEF OneOwner
      <3>2. \A t, i : Owns(t, i, p)' <=> t = T /\ i = n
        BY <1>2, <2>1, <3>1
      <3>3. p \in bitmap'
        BY <1>2, <2>1
      <3> QED BY <3>1, <3>2, <3>3 DEF OneOwner
    <2>2. CASE p # new /\ Owns(T, n, p)
      <3>1. \A t, i : ~Owns(t, i, p)'
        BY <1>2, <2>0, <2>2 DEF OneOwner
      <3>2. p \in bitmap' /\ Kept(p)'
        BY <1>2, <1>4, <2>0, <2>2 DEF OneOwner
      <3> QED BY <3>1, <3>2, KeptOnce
    <2>3. CASE p # new /\ ~Owns(T, n, p)
      <3>1. \A t, i : Owns(t, i, p)' <=> Owns(t, i, p)
        BY <1>2, <2>3
      <3>2. (p \in bitmap' <=> p \in bitmap) /\ (Kept(p)' <=> Kept(p))
        BY <1>2, <1>4, <2>3
      <3> QED BY <2>0, <3>1, <3>2, OwnerStays
    <2> QED BY <2>1, <2>2, <2>3
  <1>6. Apart'
    <2>1. ASSUME NEW p \in Splitting' PROVE p \notin reserved /\ p # level0_table
      <3>1. Owns(T, n, p) /\ p \in Nat
        <4>1. Entry \in EntryType
          BY <1>1, TraversingIs
        <4>2. Extent(Entry) \subseteq Nat
          BY <4>1, ExtentIs
        <4> QED BY <1>2, <1>3, <4>2 DEF Owns, Entry
      <3>2. ~Kept(p)
        BY <3>1 DEF Data, OneOwner
      <3> QED BY <3>2 DEF Kept
    <2> QED BY <1>1, <1>2, <2>1 DEF Data, Apart, Places
  <1> QED BY <1>2, <1>5, <1>6 DEF Data

\* A split leaves the memory of the block to the pages of the new table.
LEMMA SplitFillsData ==
  ASSUME TypeOK, NEW lev \in [DOMAIN tables -> Levels], Tree(lev), Data, UNCHANGED reserved,
         SplitFills, fault' = "none"
  PROVE  Data'
PROOF
  <1> DEFINE piece(i) == Piece(walk.level, new_table_base + i * SIZE[walk.level], block.type)
             filled == [i \in Indices(walk.level) |-> piece(i)]
  <1>1. /\ pc = "split" /\ pc' = "traverse"
        /\ tables' = [tables EXCEPT ![walk.table] = filled]
        /\ UNCHANGED <<reserved, bitmap, level0_table, table_stack>>
    BY DEF SplitFills, down
  <1>2. PICK T \in DOMAIN tables, b \in Nat :
          T = walk.table /\ b = block.page /\ new_table_base = b /\ lev[T] = 3 /\ walk.level = 3 /\ table_stack = <<>>
    BY <1>1 DEF SplitFills, InCall, Tree, Walking, Destruction, TypeOK, EntryType
  <1>3. ASSUME NEW i \in Indices(3)
        PROVE  /\ piece(i) \in EntryType /\ piece(i).bits = TABLE /\ piece(i).page = b + i
               /\ Extent(piece(i)) = {b + i}
    <2>1. new_table_base + i * SIZE[walk.level] = b + i /\ b + i \in Nat
      <3>1. SIZE[walk.level] = 1 /\ i \in Nat /\ new_table_base = b /\ b \in Nat
        BY <1>2, SizeIs DEF Indices
      <3> QED BY <3>1
    <2>2. block.type \in TYPES
      BY DEF TypeOK, EntryType
    <2>3. piece(i) \in EntryType /\ piece(i).bits = TABLE /\ piece(i).page = b + i
      BY <1>2, <2>1, <2>2, PieceIs DEF Piece, mmu_create_page_entry
    <2> HIDE DEF piece
    <2> QED BY <2>3, ExtentIs DEF TABLE, BLOCK
  <1> HIDE DEF piece
  <1>4. /\ DOMAIN tables' = DOMAIN tables
        /\ \A u \in DOMAIN tables : u # T => tables'[u] = tables[u]
        /\ DOMAIN tables'[T] = Indices(3) /\ DOMAIN tables[T] = Indices(3)
        /\ \A i \in Indices(3) : tables'[T][i] = piece(i)
    <2>1. DOMAIN tables[T] = Indices(3)
      BY <1>2 DEF Tree, Shaped
    <2>2. tables'[T] = filled
      BY <1>1, <1>2
    <2>3. DOMAIN filled = Indices(3) /\ \A i \in Indices(3) : filled[i] = piece(i)
      BY <1>2
    <2> HIDE DEF filled
    <2> QED BY <1>1, <1>2, <2>1, <2>2, <2>3
  <1> HIDE DEF filled
  <1>5. \A t, i : Live(t, i) /\ Live(t, i)'
    BY <1>1, <1>2 DEF Live
  <1>6. \A i : ~Uses(T, i) /\ (Uses(T, i)' <=> i \in Indices(3))
    <2>1. \A i \in DOMAIN tables[T] : tables[T][i].bits = 0
      BY <1>1, <1>2 DEF Data, Apart
    <2> QED BY <1>3, <1>4, <1>5, <2>1 DEF Uses, TABLE
  <1>7. \A t, i : t # T => /\ Uses(t, i)' <=> Uses(t, i)
                           /\ Uses(t, i) => tables'[t][i] = tables[t][i]
    BY <1>4, <1>5 DEF Uses
  <1>8. \A i, p : Owns(T, i, p)' <=> i \in Indices(3) /\ p = b + i
    BY <1>3, <1>4, <1>6 DEF Owns
  <1>9. \A t, i, p : t # T => (Owns(t, i, p)' <=> Owns(t, i, p))
    BY <1>7 DEF Owns
  <1>10. \A i, p : ~Owns(T, i, p)
    BY <1>6 DEF Owns
  <1>11. \A p \in Nat : p \in Splitting <=> \E i \in Indices(3) : p = b + i
    <2>1. Splitting = b .. (b + ENTRIES[3] - 1) /\ ENTRIES[3] \in Nat
      BY <1>1, <1>2, SizeIs, EntriesAre DEF Splitting, Run, Levels
    <2>2. \A p \in Nat : p \in Splitting => p - b \in Indices(3) /\ p = b + (p - b)
      BY <2>1 DEF Indices
    <2>3. \A i \in Indices(3) : b + i \in Splitting
      BY <2>1 DEF Indices
    <2> QED BY <2>2, <2>3
  <1>12. \A p : Kept(p)' <=> p \in reserved \cup {level0_table}
    BY <1>1, <1>2 DEF Kept, Places, Splitting
  <1>13. \A p : Kept(p) <=> p \in reserved \cup {level0_table} \/ p \in Splitting
    BY <1>2 DEF Kept, Places
  <1>14. ASSUME NEW p \in Nat PROVE OneOwner(p)'
    <2>0. OneOwner(p)
      BY DEF Data
    <2>1. CASE p \in Splitting
      <3>1. ~Kept(p)'
        BY <1>12, <2>1 DEF Data, Apart
      <3>2. PICK n \in Indices(3) : p = b + n
        BY <1>11, <2>1
      <3>3. \A i \in Indices(3) : p = b + i => i = n
        BY <1>2, <3>2, EntriesAre DEF Indices, Levels
      <3>4. \A t, i : ~Owns(t, i, p)
        BY <1>13, <2>0, <2>1 DEF OneOwner
      <3>5. \A t, i : Owns(t, i, p)' <=> t = T /\ i = n
        BY <1>8, <1>9, <3>2, <3>3, <3>4
      <3>6. p \in bitmap'
        BY <1>1, <1>13, <2>0, <2>1 DEF OneOwner
      <3> QED BY <3>1, <3>5, <3>6 DEF OneOwner
    <2>2. CASE p \notin Splitting
      <3>1. \A t, i : Owns(t, i, p)' <=> Owns(t, i, p)
        BY <1>8, <1>9, <1>10, <1>11, <2>2
      <3>2. Kept(p)' <=> Kept(p)
        BY <1>12, <1>13, <2>2
      <3> QED BY <1>1, <2>0, <3>1, <3>2, OwnerStays
    <2> QED BY <2>1, <2>2
  <1>15. Apart'
    BY <1>1, <1>2 DEF Data, Apart, Places, Splitting
  <1>16. Aligned'
    <2> SUFFICES ASSUME NEW t, NEW i, Uses(t, i)', tables'[t][i].bits = BLOCK
                 PROVE  tables'[t][i].page % SIZE[2] = 0
      BY DEF Aligned
    <2>1. t # T
      BY <1>3, <1>4, <1>6 DEF TABLE, BLOCK
    <2> QED BY <1>7, <2>1 DEF Data, Aligned
  <1> QED BY <1>14, <1>15, <1>16 DEF Data

LEMMA IndexNat ==
  ASSUME NEW lev, Shaped(lev), NEW t \in DOMAIN tables, NEW i \in DOMAIN tables[t]
  PROVE  i \in Nat
PROOF
  <1>1. DOMAIN tables[t] = Indices(lev[t])
    BY DEF Shaped
  <1> QED BY <1>1 DEF Indices

\* A table goes from its entry to the stack of the destruction.
LEMMA HandedOver ==
  ASSUME Data, NEW T, NEW n, Uses(T, n), tables[T][n] \in EntryType, tables[T][n].bits = TABLE,
         UNCHANGED <<reserved, bitmap, tables, level0_table>>, pc # "split", pc' # "split",
         Places' = Places \cup {tables[T][n].page},
         \A t, i : Uses(t, i)' <=> Uses(t, i) /\ ~(t = T /\ i = n)
  PROVE  Data'
PROOF
  <1>1. PICK q \in Nat : q = tables[T][n].page
    BY DEF EntryType
  <1>2. \A p : Owns(T, n, p) <=> p = q
    BY <1>1, ExtentIs DEF Owns, TABLE, BLOCK
  <1>3. \A t, i, p : Owns(t, i, p)' <=> Owns(t, i, p) /\ ~(t = T /\ i = n)
    BY DEF Owns
  <1>4. \A p : Kept(p)' <=> Kept(p) \/ p = q
    BY <1>1 DEF Kept, Splitting
  <1>5. ASSUME NEW p \in Nat PROVE OneOwner(p)'
    <2>0. OneOwner(p) /\ bitmap' = bitmap
      BY DEF Data
    <2>1. CASE p = q
      <3>1. \A t, i : ~Owns(t, i, p)'
        BY <1>2, <1>3, <2>0, <2>1 DEF OneOwner
      <3>2. p \in bitmap' /\ Kept(p)'
        BY <1>2, <1>4, <2>0, <2>1 DEF OneOwner
      <3> QED BY <3>1, <3>2, KeptOnce
    <2>2. CASE p # q
      <3>1. \A t, i : Owns(t, i, p)' <=> Owns(t, i, p)
        BY <1>2, <1>3, <2>2
      <3> QED BY <1>4, <2>0, <2>2, <3>1, OwnerStays
    <2> QED BY <2>1, <2>2
  <1>6. Apart'
    <2>1. ~Kept(q)
      BY <1>1, <1>2 DEF Data, OneOwner
    <2>2. q \notin reserved
      BY <2>1 DEF Kept
    <2> QED BY <1>1, <2>2 DEF Data, Apart, Splitting
  <1>7. Aligned'
    BY DEF Data, Aligned
  <1> QED BY <1>5, <1>6, <1>7 DEF Data

LEMMA SlotTakenData ==
  ASSUME TypeOK, NEW lev \in [DOMAIN tables -> Levels], Tree(lev), Data, UNCHANGED reserved,
         SlotTaken
  PROVE  Data'
PROOF
  <1>1. /\ pc = "destroy" /\ pc' = "entry" /\ slot < ENTRIES[0] /\ Slot # EMPTY_ENTRY
        /\ table_stack' = <<[table |-> Slot.page, idx |-> 0, level |-> 1]>>
        /\ UNCHANGED <<bitmap, tables, level0_table, slot>>
    BY DEF SlotTaken, memory
  <1>2. Destroying /\ table_stack = <<>> /\ Places = {}
    BY <1>1 DEF Tree, Destruction, Destroying, Places
  <1>3. /\ slot \in Indices(0) /\ level0_table \in DOMAIN tables /\ lev[level0_table] = 0
    BY <1>1, <1>2, DestroyingIs DEF Indices
  <1>4. /\ Slot \in EntryType /\ Slot.bits = TABLE /\ slot \in DOMAIN tables[level0_table]
    BY <1>1, <1>3 DEF Tree, Shaped, Slot, EntryType
  <1>5. Uses(level0_table, slot)
    BY <1>1, <1>2, <1>3, <1>4 DEF Uses, Live, Slot, TABLE
  <1>6. DOMAIN table_stack' = {1} /\ table_stack'[1].table = Slot.page /\ table_stack'[1].idx = 0
    BY <1>1
  <1>7. Places' = Places \cup {tables[level0_table][slot].page}
    BY <1>2, <1>6 DEF Places, Slot
  <1>8. ASSUME NEW t, NEW i PROVE Uses(t, i)' <=> Uses(t, i) /\ ~(t = level0_table /\ i = slot)
    <2>1. t \in DOMAIN tables /\ i \in DOMAIN tables[t] => 0 <= i
      BY IndexNat DEF Tree
    <2>2. Live(t, i)
      BY <1>1, <1>2 DEF Live
    <2>3. 0 <= i => (Live(t, i)' <=> ~(t = level0_table /\ i = slot))
      BY <1>1, <1>6 DEF Live
    <2> QED BY <1>1, <2>1, <2>2, <2>3 DEF Uses
  <1> QED BY <1>1, <1>4, <1>5, <1>7, <1>8, HandedOver DEF Slot

LEMMA EntryIsTableData ==
  ASSUME TypeOK, NEW lev \in [DOMAIN tables -> Levels], Tree(lev), Data, UNCHANGED reserved,
         EntryIsTable
  PROVE  Data'
PROOF
  <1>1. AtEntry /\ TopEntry.bits = TABLE /\ Top.level # 3
    BY DEF EntryIsTable
  <1>n. PICK n \in 1 .. 3 : n = Len(table_stack)
    BY <1>1, AtEntryIs
  <1>2. PICK T \in DOMAIN tables, m \in Indices(n), p \in Nat :
          T = Top.table /\ m = Top.idx /\ p = TopEntry.page
    BY <1>1, <1>n, AtEntryIs DEF EntryType
  <1>3. /\ pc = "entry" /\ DOMAIN table_stack = 1 .. n /\ Top = table_stack[n] /\ Top.level = n
        /\ lev[T] = n /\ T # level0_table /\ TopEntry \in EntryType
        /\ \A k \in 1 .. n : table_stack[k].table = T => k = n
        /\ UNCHANGED <<level0_table, pc>>
    BY <1>1, <1>n, <1>2, AtEntryIs DEF AtEntry
  <1>4. n \in 1 .. 2 /\ m \in Nat
    BY <1>1, <1>3 DEF Indices
  <1>5. Live(T, m)
    BY <1>2, <1>3, <1>4 DEF Live
  <1>6. Uses(T, m) /\ tables[T][m] = TopEntry
    BY <1>1, <1>2, <1>3, <1>5 DEF Uses, TopEntry, TABLE, Tree, Shaped
  <1>7. Link(lev, T, m)
    BY <1>1, <1>2, <1>3, <1>4, <1>5, <1>6 DEF Link
  <1>8. p \in Pages
    <2>1. tables[T][m].page \in DOMAIN tables
      BY <1>3, <1>7 DEF Tree, Linked
    <2> QED BY <1>2, <1>6, <2>1 DEF Tree, Shaped
  <1>9. PICK place \in PlaceType : place = [table |-> p, idx |-> 0, level |-> n + 1]
    <2>1. n + 1 \in Levels
      BY <1>4 DEF Levels
    <2>2. [table |-> p, idx |-> 0, level |-> n + 1] \in PlaceType
      BY <1>8, <2>1 DEF PlaceType
    <2> QED BY <2>2
  <1>10. table_stack' = Append(Passed, place) /\ bitmap' = bitmap /\ tables' = tables
    <2> DEFINE stack == Append(Passed, place)
    <2>1. EndTurn(stack, bitmap)
      BY <1>2, <1>3, <1>9 DEF EntryIsTable
    <2>2. Passed \in Seq(PlaceType)
      BY <1>1, PassedIs DEF AtEntry
    <2>3. stack[Len(stack)] = place
      BY <2>2
    <2>4. ~AtEnd(place)
      BY <1>4, <1>9, EntriesAre DEF AtEnd, Levels
    <2> HIDE DEF stack
    <2>5. table_stack' = stack /\ bitmap' = bitmap /\ tables' = tables
      BY <2>1, <2>3, <2>4 DEF EndTurn
    <2> QED BY <2>5 DEF stack
  <1>11. /\ Places' = Places \cup {place.table}
         /\ \A t : \A i \in Nat : Live(t, i)' <=> Live(t, i) /\ ~(t = Top.table /\ i = Top.idx)
    <2>1. place.idx = 0
      BY <1>9
    <2> QED BY <1>1, <1>10, <2>1, EnteredLive
  <1>12. Places' = Places \cup {tables[T][m].page}
    BY <1>2, <1>6, <1>9, <1>11
  <1>13. \A t, i : Uses(t, i)' <=> Uses(t, i) /\ ~(t = T /\ i = m)
    <2>1. \A t, i : t \in DOMAIN tables /\ i \in DOMAIN tables[t] => i \in Nat
      BY IndexNat DEF Tree
    <2> QED BY <1>2, <1>10, <1>11, <2>1 DEF Uses
  <1> QED BY <1>1, <1>3, <1>6, <1>10, <1>12, <1>13, HandedOver

\* An entry of a table that stays is passed: its pages are freed.
LEMMA EntryFreed ==
  ASSUME TypeOK, NEW lev \in [DOMAIN tables -> Levels], Tree(lev), Data, AtEntry, UNCHANGED reserved,
         table_stack' = Passed, tables' = tables,
         \A p \in Nat : p \in bitmap' <=> p \in bitmap /\ ~Owns(Top.table, Top.idx, p)
  PROVE  Data'
PROOF
  <1>1. PICK T, m : T = Top.table /\ m = Top.idx
    OBVIOUS
  <1>2. UNCHANGED <<level0_table, pc>> /\ pc = "entry"
    BY DEF AtEntry
  <1>3. /\ Places' = Places
        /\ \A t : \A i \in Nat : Live(t, i)' <=> Live(t, i) /\ ~(t = T /\ i = m)
    BY <1>1, PassedLive
  <1>4. \A t, i : Uses(t, i)' <=> Uses(t, i) /\ ~(t = T /\ i = m)
    <2>1. \A t, i : t \in DOMAIN tables /\ i \in DOMAIN tables[t] => i \in Nat
      BY IndexNat DEF Tree
    <2> QED BY <1>3, <2>1 DEF Uses
  <1>5. \A t, i, p : Owns(t, i, p)' <=> Owns(t, i, p) /\ ~(t = T /\ i = m)
    BY <1>4 DEF Owns
  <1>6. \A p : Kept(p)' <=> Kept(p)
    BY <1>2, <1>3 DEF Kept, Splitting
  <1>7. ASSUME NEW p \in Nat PROVE OneOwner(p)'
    <2>0. OneOwner(p) /\ (p \in bitmap' <=> p \in bitmap /\ ~Owns(T, m, p))
      BY <1>1 DEF Data
    <2>1. CASE Owns(T, m, p)
      <3>1. (\A t, i : ~Owns(t, i, p)') /\ ~Kept(p)' /\ p \notin bitmap'
        BY <1>5, <1>6, <2>0, <2>1 DEF OneOwner
      <3> QED BY <3>1, FreeOnce
    <2>2. CASE ~Owns(T, m, p)
      <3>1. \A t, i : Owns(t, i, p)' <=> Owns(t, i, p)
        BY <1>5, <2>2
      <3> QED BY <1>6, <2>0, <2>2, <3>1, OwnerStays
    <2> QED BY <2>1, <2>2
  <1>8. Apart'
    BY <1>2, <1>3 DEF Data, Apart, Splitting
  <1>9. Aligned'
    BY <1>4 DEF Data, Aligned
  <1> QED BY <1>7, <1>8, <1>9 DEF Data

\* ... and with the last entry goes the table.
LEMMA TableFreed ==
  ASSUME TypeOK, NEW lev \in [DOMAIN tables -> Levels], Tree(lev), Data, AtEntry, UNCHANGED reserved,
         Top.idx + 1 = ENTRIES[Len(table_stack)],
         table_stack' = Below, tables' = WithoutTable(Top.table),
         \A p \in Nat : p \in bitmap' <=> p \in bitmap /\ ~Owns(Top.table, Top.idx, p) /\ p # Top.table
  PROVE  Data'
PROOF
  <1>1. PICK T, m : T \in DOMAIN tables /\ T = Top.table /\ m = Top.idx /\ T # level0_table
    BY AtEntryIs
  <1>2. UNCHANGED <<level0_table, pc>> /\ pc = "entry"
    BY DEF AtEntry
  <1>3. /\ Places' = Places \ {T} /\ T \in Places
        /\ \A t, i : t # T => (Live(t, i)' <=> Live(t, i))
        /\ \A i \in DOMAIN tables[T] : Live(T, i) => i = m
    <2>1. DOMAIN tables[T] = Indices(lev[T])
      BY <1>1 DEF Tree, Shaped
    <2> QED BY <1>1, <2>1, BelowLive
  <1>4. /\ DOMAIN tables' = DOMAIN tables \ {T}
        /\ \A t \in DOMAIN tables \ {T} : tables'[t] = tables[t]
    BY <1>1 DEF WithoutTable
  <1>5. \A t, i : Uses(t, i)' <=> Uses(t, i) /\ ~(t = T /\ i = m)
    BY <1>3, <1>4 DEF Uses
  <1>6. \A t, i : Uses(t, i)' => tables'[t][i] = tables[t][i]
    BY <1>4 DEF Uses
  <1>7. \A t, i, p : Owns(t, i, p)' <=> Owns(t, i, p) /\ ~(t = T /\ i = m)
    BY <1>5, <1>6 DEF Owns
  <1>8. T \notin reserved /\ Splitting = {} /\ Splitting' = {}
    BY <1>2, <1>3 DEF Data, Apart, Splitting
  <1>9. \A p : Kept(p)' <=> Kept(p) /\ p # T
    BY <1>1, <1>2, <1>3, <1>8 DEF Kept
  <1>10. ASSUME NEW p \in Nat PROVE OneOwner(p)'
    <2>0. OneOwner(p) /\ (p \in bitmap' <=> p \in bitmap /\ ~Owns(T, m, p) /\ p # T)
      BY <1>1 DEF Data
    <2>1. CASE p = T
      <3>1. Kept(p)
        BY <1>3, <2>1 DEF Kept
      <3>2. (\A t, i : ~Owns(t, i, p)') /\ ~Kept(p)' /\ p \notin bitmap'
        BY <1>7, <1>9, <2>0, <2>1, <3>1 DEF OneOwner
      <3> QED BY <3>2, FreeOnce
    <2>2. CASE p # T /\ Owns(T, m, p)
      <3>1. (\A t, i : ~Owns(t, i, p)') /\ ~Kept(p)' /\ p \notin bitmap'
        BY <1>7, <1>9, <2>0, <2>2 DEF OneOwner
      <3> QED BY <3>1, FreeOnce
    <2>3. CASE p # T /\ ~Owns(T, m, p)
      <3>1. \A t, i : Owns(t, i, p)' <=> Owns(t, i, p)
        BY <1>7, <2>3
      <3> QED BY <1>9, <2>0, <2>3, <3>1, OwnerStays
    <2> QED BY <2>1, <2>2, <2>3
  <1>11. Apart'
    BY <1>2, <1>3, <1>8 DEF Data, Apart
  <1>12. Aligned'
    BY <1>5, <1>6 DEF Data, Aligned
  <1> QED BY <1>10, <1>11, <1>12 DEF Data

LEMMA LeafData ==
  ASSUME TypeOK, NEW lev \in [DOMAIN tables -> Levels], Tree(lev), Data, AtEntry, UNCHANGED reserved,
         NEW claimed \in SUBSET Pages, EndTurn(Passed, claimed),
         \A p \in Nat : p \in claimed <=> p \in bitmap /\ ~Owns(Top.table, Top.idx, p)
  PROVE  Data'
PROOF
  <1>1. CASE table_stack' = Passed /\ tables' = tables /\ bitmap' = claimed
    BY <1>1, EntryFreed
  <1>2. CASE /\ Top.idx + 1 = ENTRIES[Len(table_stack)]
             /\ table_stack' = Below /\ tables' = WithoutTable(Top.table)
             /\ bitmap' = memory_allocator_free_pages(claimed, Top.table, 1)
    <2>1. Top.table \in Pages
      BY AtEntryIs DEF PlaceType
    <2>2. bitmap' = claimed \ {Top.table}
      BY <1>2, <2>1, FreeOnePage
    <2>3. \A p \in Nat : p \in bitmap' <=> p \in bitmap /\ ~Owns(Top.table, Top.idx, p) /\ p # Top.table
      BY <2>2
    <2> QED BY <1>2, <2>3, TableFreed
  <1> QED BY <1>1, <1>2, TurnIs

\* The pages of an entry are claimed.
LEMMA OwnedClaimed ==
  ASSUME Data, NEW t, NEW i, NEW p \in Nat, Owns(t, i, p)
  PROVE  p \in bitmap
  BY DEF Data, OneOwner

\* The entry that mmu_destroy_entry stands at is live.
LEMMA TopLive ==
  ASSUME TypeOK, NEW lev \in [DOMAIN tables -> Levels], Tree(lev), AtEntry
  PROVE  \A p : Owns(Top.table, Top.idx, p) <=> TopEntry.bits # 0 /\ p \in Extent(TopEntry)
PROOF
  <1>1. PICK n \in 1 .. 3 : n = Len(table_stack)
    BY AtEntryIs
  <1>2. PICK T \in DOMAIN tables, m \in Indices(n) : T = Top.table /\ m = Top.idx
    BY <1>1, AtEntryIs
  <1>3. /\ DOMAIN table_stack = 1 .. n /\ Top = table_stack[n] /\ lev[T] = n /\ T # level0_table
        /\ \A k \in 1 .. n : table_stack[k].table = T => k = n
    BY <1>1, <1>2, AtEntryIs
  <1>4. m \in DOMAIN tables[T] /\ m <= m
    <2>1. DOMAIN tables[T] = Indices(n)
      BY <1>3 DEF Tree, Shaped
    <2>2. m \in Nat
      BY DEF Indices
    <2> QED BY <2>1, <2>2
  <1>5. Live(T, m)
    BY <1>2, <1>3, <1>4 DEF Live
  <1> QED BY <1>2, <1>4, <1>5 DEF Owns, Uses, TopEntry

\* A block covers whole entries of the bitmap or lies within one, as 512
\* pages do in entries of 64.
BlocksAlign == SIZE[2] % PAGES_PER_ENTRY = 0 \/ PAGES_PER_ENTRY % SIZE[2] = 0

LEMMA MultipleIs ==
  ASSUME NEW x \in Nat, NEW w \in Nat \ {0}, x % w = 0
  PROVE  \E a \in Nat : x = a * w
PROOF
  <1> DEFINE q == x \div w
             r == x % w
  <1>1. q \in Nat /\ x = q * w + r /\ r = 0
    BY Division
  <1> HIDE DEF q, r
  <1>2. q * w \in Nat
    BY <1>1
  <1>3. x = q * w
    BY <1>1, <1>2
  <1> QED BY <1>1, <1>3

LEMMA DifferenceTimes ==
  ASSUME NEW b \in Nat, NEW k \in Nat, NEW w \in Nat
  PROVE  (b - k) * w = b * w - k * w
  BY SMT

LEMMA ProductTimes ==
  ASSUME NEW q \in Nat, NEW a \in Nat, NEW w \in Nat
  PROVE  q * (a * w) = (q * a) * w /\ q * a \in Nat
  BY SMT

LEMMA NegativeTimes ==
  ASSUME NEW c \in Int, c < 0, NEW w \in Nat \ {0}
  PROVE  c * w < 0
  BY SMT

\* What is less than a multiple of w is less by w, if it is one itself.
LEMMA LessByOne ==
  ASSUME NEW w \in Nat \ {0}, NEW a \in Nat, NEW c \in Int, c * w \in Nat, c * w < a * w
  PROVE  c * w + w <= a * w
PROOF
  <1>1. c \in Nat
    BY NegativeTimes
  <1>2. c < a
    <2> SUFFICES ASSUME a <= c PROVE FALSE
      BY <1>1
    <2>1. a * w <= c * w /\ a * w \in Nat
      BY <1>1, MultipleMonotone
    <2> QED BY <2>1
  <1>3. (c + 1) * w <= a * w
    <2>1. c + 1 \in Nat /\ c + 1 <= a
      BY <1>1, <1>2
    <2> QED BY <2>1, MultipleMonotone
  <1>4. (c + 1) * w = c * w + w
    BY <1>1
  <1> QED BY <1>3, <1>4

\* A multiple of w lies at the start of an entry of W bits, or the w bits
\* from there on in that entry.
LEMMA AlignedRun ==
  ASSUME NEW w \in Nat \ {0}, NEW W \in Nat \ {0}, NEW p \in Nat, p % w = 0,
         w % W = 0 \/ W % w = 0
  PROVE  p % W = 0 \/ (p % W) + w <= W
PROOF
  <1>1. PICK b \in Nat : p = b * w
    BY MultipleIs
  <1>2. CASE w % W = 0
    <2>1. PICK a \in Nat : w = a * W
      BY <1>2, MultipleIs
    <2>2. p = (b * a) * W /\ b * a \in Nat
      BY <1>1, <2>1, ProductTimes
    <2>3. (b * a) * W \in Nat
      BY <2>2
    <2>4. p = (b * a) * W + 0 /\ 0 \in 0 .. (W - 1)
      BY <2>2, <2>3
    <2> QED BY <2>2, <2>4, DivisionUnique
  <1>3. CASE W % w = 0
    <2>1. PICK a \in Nat : W = a * w
      BY <1>3, MultipleIs
    <2> DEFINE q == p \div W
               r == p % W
    <2>2. q \in Nat /\ r \in 0 .. (W - 1) /\ p = q * W + r
      BY Division
    <2> HIDE DEF q, r
    <2>3. PICK k \in Nat : k = q * a /\ q * W = k * w
      BY <2>1, <2>2, ProductTimes
    <2>4. (b - k) * w = b * w - k * w /\ b * w \in Nat /\ k * w \in Nat
      BY DifferenceTimes
    <2>5. r = (b - k) * w
      BY <1>1, <2>2, <2>3, <2>4
    <2>6. b - k \in Int /\ r \in Nat /\ r < W
      BY <2>2
    <2>7. r + w <= W
      BY <2>1, <2>5, <2>6, LessByOne
    <2> QED BY <2>7 DEF r
  <1> QED BY <1>2, <1>3

LEMMA BlockFreed ==
  ASSUME BlocksAlign, NEW b, NEW p \in Nat, p % SIZE[2] = 0, Run(p, SIZE[2]) \subseteq Pages
  PROVE  memory_allocator_free_pages(b, p, SIZE[2]) = b \ Run(p, SIZE[2])
PROOF
  <1>1. PICK w \in Nat \ {0} : w = SIZE[2]
    BY SizeIs DEF Levels
  <1>2. p + w <= PageCount
    <2>1. Run(p, w) \subseteq Pages /\ Run(p, w) = p .. (p + w - 1)
      BY <1>1 DEF Run
    <2>2. p + w - 1 \in p .. (p + w - 1)
      BY <1>1
    <2>3. p + w - 1 \in Pages
      BY <2>1, <2>2
    <2> QED BY <1>1, <2>3, PageCountType DEF Pages
  <1>3. p % PAGES_PER_ENTRY = 0 \/ (p % PAGES_PER_ENTRY) + w <= PAGES_PER_ENTRY
    BY <1>1, AlignedRun, AllocatorAssumption DEF BlocksAlign
  <1> QED BY <1>1, <1>2, <1>3, FreeMultipleIsExact DEF memory_allocator_free_pages

LEMMA EntryLeavesData ==
  ASSUME TypeOK, NEW lev \in [DOMAIN tables -> Levels], Tree(lev), Data, UNCHANGED reserved,
         BlocksAlign, EntrySkipped \/ EntryIsPage \/ EntryIsBlock
  PROVE  Data'
PROOF
  <1>0. AtEntry
    BY DEF EntrySkipped, EntryIsPage, EntryIsBlock
  <1>1. /\ AtEntry /\ TopEntry \in EntryType /\ bitmap \in SUBSET Pages /\ Pages \subseteq Nat
        /\ Top.table \in DOMAIN tables /\ lev[Top.table] = Top.level /\ Top.idx \in Indices(Top.level)
    <2>1. bitmap \in SUBSET Pages /\ Pages \subseteq Nat
      BY PageCountType DEF TypeOK, Pages
    <2>2. /\ TopEntry \in EntryType /\ Top.table \in DOMAIN tables
          /\ lev[Top.table] = Top.level /\ Top.idx \in Indices(Top.level)
      BY <1>0, AtEntryIs
    <2> QED BY <1>0, <2>1, <2>2
  <1>2. \A p : Owns(Top.table, Top.idx, p) <=> TopEntry.bits # 0 /\ p \in Extent(TopEntry)
    BY <1>1, TopLive
  <1>3. \A p \in Nat : Owns(Top.table, Top.idx, p) => p \in bitmap
    BY OwnedClaimed
  <1>4. PICK q \in Nat : q = TopEntry.page
    BY <1>1 DEF EntryType
  <1>5. CASE EntrySkipped
    <2>1. TopEntry.bits = 0 /\ EndTurn(Passed, bitmap)
      BY <1>5 DEF EntrySkipped
    <2>2. \A p \in Nat : p \in bitmap <=> p \in bitmap /\ ~Owns(Top.table, Top.idx, p)
      BY <1>2, <2>1
    <2> QED BY <1>1, <2>1, <2>2, LeafData
  <1>6. CASE EntryIsPage
    <2>1. TopEntry.bits = TABLE /\ EndTurn(Passed, memory_allocator_free_pages(bitmap, q, 1))
      BY <1>4, <1>6 DEF EntryIsPage
    <2>2. \A p : Owns(Top.table, Top.idx, p) <=> p = q
      BY <1>1, <1>2, <1>4, <2>1, ExtentIs DEF TABLE, BLOCK
    <2>3. memory_allocator_free_pages(bitmap, q, 1) = bitmap \ {q}
      BY <1>1, <1>3, <2>2, FreeOnePage
    <2>4. PICK claimed \in SUBSET Pages : claimed = bitmap \ {q}
      BY <1>1
    <2>5. \A p \in Nat : p \in claimed <=> p \in bitmap /\ ~Owns(Top.table, Top.idx, p)
      BY <2>2, <2>4
    <2> QED BY <1>1, <2>1, <2>3, <2>4, <2>5, LeafData
  <1>7. CASE EntryIsBlock
    <2>1. /\ TopEntry.bits = BLOCK
          /\ EndTurn(Passed, memory_allocator_free_pages(bitmap, q, SIZE[Top.level]))
      BY <1>4, <1>7 DEF EntryIsBlock, mmu_destroy_block_entry
    <2>2. Top.level = 2
      BY <1>1, <2>1 DEF Tree, Shaped, TopEntry
    <2>3. \A p : Owns(Top.table, Top.idx, p) <=> p \in Run(q, SIZE[2])
      BY <1>2, <1>4, <2>1 DEF Extent, BLOCK
    <2>4. Run(q, SIZE[2]) \subseteq Pages /\ q \in Run(q, SIZE[2])
      <3>1. SIZE[2] \in Nat \ {0}
        BY SizeIs DEF Levels
      <3>2. Run(q, SIZE[2]) \subseteq Nat /\ q \in Run(q, SIZE[2])
        BY <3>1 DEF Run
      <3> QED BY <1>1, <1>3, <2>3, <3>2
    <2>5. q % SIZE[2] = 0
      <3>1. Uses(Top.table, Top.idx)
        BY <2>3, <2>4 DEF Owns
      <3> QED BY <1>4, <2>1, <3>1 DEF Data, Aligned, TopEntry
    <2>6. memory_allocator_free_pages(bitmap, q, SIZE[2]) = bitmap \ Run(q, SIZE[2])
      BY <2>4, <2>5, BlockFreed
    <2>7. PICK claimed \in SUBSET Pages : claimed = bitmap \ Run(q, SIZE[2])
      BY <1>1
    <2>8. \A p \in Nat : p \in claimed <=> p \in bitmap /\ ~Owns(Top.table, Top.idx, p)
      BY <2>3, <2>7
    <2> QED BY <1>1, <2>1, <2>2, <2>6, <2>7, <2>8, LeafData
  <1> QED BY <1>5, <1>6, <1>7

LEMMA EntryDoneData ==
  ASSUME TypeOK, NEW lev \in [DOMAIN tables -> Levels], Tree(lev), Data, UNCHANGED reserved,
         EntryDone
  PROVE  Data'
PROOF
  <1>1. /\ pc = "entry" /\ table_stack = <<>> /\ table_stack' = <<>> /\ pc' = "destroy"
        /\ Put(level0_table, slot, EMPTY_ENTRY) /\ UNCHANGED <<bitmap, level0_table>>
    BY DEF EntryDone, Put
  <1>2. slot \in Indices(0) /\ level0_table \in DOMAIN tables /\ lev[level0_table] = 0
    <2>1. Destroying /\ slot < ENTRIES[0]
      BY <1>1 DEF Tree, Destruction, Destroying
    <2> QED BY <2>1, DestroyingIs DEF Indices
  <1>3. /\ DOMAIN tables' = DOMAIN tables /\ Shaped(lev)' /\ Shaped(lev)
        /\ tables'[level0_table][slot] = EMPTY_ENTRY
        /\ \A u \in DOMAIN tables : \A j \in Indices(lev[u]) :
             u # level0_table \/ j # slot => tables'[u][j] = tables[u][j]
    <2>1. Shaped(lev) /\ EMPTY_ENTRY.bits # BLOCK /\ EMPTY_ENTRY \in EntryType
      BY EmptyIs DEF Tree, BLOCK
    <2> QED BY <1>1, <1>2, <2>1, PutIs
  <1>4. \A u \in DOMAIN tables : DOMAIN tables[u] = Indices(lev[u]) /\ DOMAIN tables'[u] = Indices(lev[u])
    BY <1>3 DEF Shaped
  <1>5. \A t, i : (Live(t, i) <=> ~(t = level0_table /\ i = slot)) /\ Live(t, i)'
    BY <1>1 DEF Live
  <1>6. \A t, i : /\ Uses(t, i)' <=> Uses(t, i)
                  /\ Uses(t, i) => tables'[t][i] = tables[t][i]
    BY <1>2, <1>3, <1>4, <1>5, EmptyIs DEF Uses
  <1>7. \A t, i, p : Owns(t, i, p)' <=> Owns(t, i, p)
    BY <1>6 DEF Owns
  <1>8. \A p : Kept(p)' <=> Kept(p)
    BY <1>1 DEF Kept, Places, Splitting
  <1>9. \A p \in Nat : OneOwner(p)'
    BY <1>1, <1>7, <1>8, OwnerStays DEF Data
  <1>10. Apart'
    BY <1>1 DEF Data, Apart, Places, Splitting
  <1>11. Aligned'
    BY <1>6 DEF Data, Aligned
  <1> QED BY <1>9, <1>10, <1>11 DEF Data

LEMMA DestroyReturnsData ==
  ASSUME TypeOK, NEW lev \in [DOMAIN tables -> Levels], Tree(lev), Data, UNCHANGED reserved,
         DestroyReturns
  PROVE  Data'
PROOF
  <1>1. /\ pc = "destroy" /\ pc' = "idle" /\ slot = ENTRIES[0]
        /\ bitmap' = memory_allocator_free_pages(bitmap, level0_table, 1)
        /\ tables' = WithoutTable(level0_table) /\ level0_table' = NULL
        /\ UNCHANGED <<reserved, table_stack>>
    BY DEF DestroyReturns
  <1>2. /\ table_stack = <<>> /\ level0_table # NULL /\ level0_table \in Pages
        /\ level0_table \in DOMAIN tables /\ lev[level0_table] = 0
    BY <1>1, DestroyingIs DEF Tree, Destruction, Destroying
  <1>3. \A t, i : ~Uses(t, i)
    <2>1. /\ \A t \in DOMAIN tables : t = level0_table
          /\ \A i \in Indices(0) : tables[level0_table][i] = EMPTY_ENTRY
      BY <1>1, OnlyRoot
    <2>2. DOMAIN tables[level0_table] = Indices(0)
      BY <1>2 DEF Tree, Shaped
    <2> QED BY <2>1, <2>2, EmptyIs DEF Uses
  <1>4. \A t, i : ~Uses(t, i)'
    <2>1. DOMAIN tables' = {}
      BY <1>1, OnlyRoot DEF WithoutTable
    <2> QED BY <2>1 DEF Uses
  <1>5. \A p \in Nat : p \in bitmap <=> p \in reserved \cup {level0_table}
    BY <1>1, <1>2, <1>3 DEF Data, OneOwner, Owns, Kept, Places, Splitting
  <1>6. bitmap' = bitmap \ {level0_table}
    BY <1>1, <1>2, FreeOnePage
  <1>7. level0_table \notin reserved /\ NULL \in reserved
    BY <1>2 DEF Data, Apart
  <1>8. \A p : Kept(p)' <=> p \in reserved
    BY <1>1, <1>2, <1>7 DEF Kept, Places, Splitting
  <1>9. \A p \in Nat : OneOwner(p)'
    BY <1>4, <1>5, <1>6, <1>7, <1>8 DEF OneOwner, Owns
  <1>10. Apart'
    BY <1>1, <1>2, <1>7 DEF Apart, Places, Splitting
  <1> QED BY <1>4, <1>9, <1>10 DEF Data, Aligned

-----------------------------------------------------------------------------
LEMMA InitData == Init => Data
PROOF
  <1> SUFFICES ASSUME Init PROVE Data
    OBVIOUS
  <1>1. /\ NULL \in reserved /\ bitmap = reserved /\ DOMAIN tables = {}
        /\ level0_table = NULL /\ pc = "idle" /\ table_stack = <<>>
    BY MmuAssumption DEF Init
  <1>2. \A t, i : ~Uses(t, i)
    BY <1>1 DEF Uses
  <1>3. \A p : Kept(p) <=> p \in reserved
    BY <1>1 DEF Kept, Places, Splitting
  <1>4. \A p \in Nat : OneOwner(p)
    BY <1>1, <1>2, <1>3 DEF OneOwner, Owns
  <1>5. Apart
    BY <1>1 DEF Apart, Places, Splitting
  <1> QED BY <1>2, <1>4, <1>5 DEF Data, Aligned

\* The invariant: a tree of tables, in which every page has one owner.
DInv == IInv /\ (fault = "none" => Data)

LEMMA NextData ==
  ASSUME MAP_TYPE = "ALLOC", BlocksAlign, DInv, [Next]_vars
  PROVE  DInv'
PROOF
  <1>1. IInv'
    BY NextIInv DEF DInv
  <1>2. ASSUME fault' = "none", UNCHANGED vars PROVE Data'
    <2>1. UNCHANGED <<reserved, bitmap, tables, level0_table, pc, walk, block, slot, table_stack, fault>>
      BY <1>2 DEF vars, memory, cursor, down
    <2>2. Data
      BY <1>2, <2>1 DEF DInv
    <2> QED BY <2>1, <2>2 DEF Data, OneOwner, Apart, Aligned, Owns, Uses, Live, Kept, Places, Splitting
  <1>3. ASSUME fault' = "none", Step PROVE Data'
    <2>1. TypeOK /\ Data /\ UNCHANGED reserved /\ fault = "none"
      BY <1>3 DEF DInv, IInv, Step, Start, Continue
    <2>2. PICK lev \in [DOMAIN tables -> Levels] : Tree(lev)
      BY <2>1 DEF DInv, IInv
    <2>3. CASE memory_create_context
      BY <1>3, <2>1, <2>2, <2>3, CreateData
    <2>4. CASE \/ \E r \in REGIONS : memory_map_region(r)
               \/ InsertReturns \/ TraverseStarts \/ TraverseTable
               \/ UnitsStart \/ UnitIsTable \/ UnitsDone
               \/ memory_destroy_context \/ SlotEmpty
      BY <2>1, <2>2, <2>4, CalmStep
    <2>5. CASE TraverseEmpty \/ SplitLinks \/ SplitFills
      BY <1>3, <2>1, <2>2, <2>5, TraverseEmptyData, SplitLinksData, SplitFillsData
    <2>6. CASE UnitCreated \/ PageCreated
      BY <1>3, <2>1, <2>2, <2>6, UnitCreatedData, PageCreatedData
    <2>7. CASE UnitOverridden \/ PageOverridden
      BY <2>1, <2>2, <2>7, OverriddenData
    <2>8. CASE EntrySkipped \/ EntryIsPage \/ EntryIsBlock
      BY <2>1, <2>2, <2>8, EntryLeavesData
    <2>9. CASE EntryIsTable \/ EntryDone
      BY <2>1, <2>2, <2>9, EntryIsTableData, EntryDoneData
    <2>10. CASE SlotTaken \/ DestroyReturns
      BY <2>1, <2>2, <2>10, SlotTakenData, DestroyReturnsData
    <2> QED BY <1>3, <2>3, <2>4, <2>5, <2>6, <2>7, <2>8, <2>9, <2>10
            DEF Step, Start, Continue, mmu_traverse_and_alloc_tables, mmu_map_units,
                mmu_destroy_entry, memory_mmu_destroy_table
  <1> QED BY <1>1, <1>2, <1>3 DEF DInv, Next, AfterFault, Step

-----------------------------------------------------------------------------
(***************************************************************************)
(* The tree, as the properties describe it.                                *)
(***************************************************************************)
AtLevel(lev, level) == {t \in DOMAIN tables : lev[t] = level}

LEMMA ChildrenAre ==
  ASSUME NEW lev \in [DOMAIN tables -> Levels], Tree(lev), Settled, NEW level \in 0 .. 2
  PROVE  Children(AtLevel(lev, level)) = AtLevel(lev, level + 1)
PROOF
  <1>1. pc # "entry" /\ Places = {}
    BY DEF Settled, Tree, Destruction, Places
  <1>2. \A t, i : Live(t, i)
    BY <1>1 DEF Settled, Tree, Destruction, Live
  <1>3. \A t \in AtLevel(lev, level) : \A i \in Links(t) : Link(lev, t, i) /\ i \in Indices(lev[t])
    BY <1>2 DEF AtLevel, Links, Link, Tree, Shaped
  <1>4. ASSUME NEW t \in AtLevel(lev, level), NEW i \in Links(t)
        PROVE  tables[t][i].page \in AtLevel(lev, level + 1)
    <2>1. t \in DOMAIN tables /\ lev[t] = level /\ Link(lev, t, i) /\ i \in Indices(lev[t])
      BY <1>3 DEF AtLevel
    <2>2. tables[t][i].page \in DOMAIN tables /\ lev[tables[t][i].page] = lev[t] + 1
      BY <2>1 DEF Tree, Linked
    <2> QED BY <2>1, <2>2 DEF AtLevel
  <1>5. ASSUME NEW t \in AtLevel(lev, level + 1)
        PROVE  \E u \in AtLevel(lev, level) : \E i \in Links(u) : t = tables[u][i].page
    <2>1. t \in DOMAIN tables /\ lev[t] = level + 1
      BY DEF AtLevel
    <2>2. PICK u \in DOMAIN tables : \E i \in Indices(lev[u]) : Link(lev, u, i) /\ tables[u][i].page = t
      BY <1>1, <2>1 DEF Tree, Linked
    <2>3. PICK i \in Indices(lev[u]) : Link(lev, u, i) /\ tables[u][i].page = t
      BY <2>2
    <2>4. lev[t] = lev[u] + 1 /\ lev[u] \in Levels
      BY <2>3 DEF Tree, Linked
    <2>5. lev[u] = level
      BY <2>1, <2>4 DEF Levels
    <2>6. i \in Links(u)
      BY <2>3 DEF Links, Link, Tree, Shaped
    <2> QED BY <2>3, <2>5, <2>6 DEF AtLevel
  <1> QED BY <1>4, <1>5 DEF Children

LEMMA LevelTablesAre ==
  ASSUME NEW lev \in [DOMAIN tables -> Levels], Tree(lev), Settled
  PROVE  \A level \in Levels : LevelTables(level) = AtLevel(lev, level)
PROOF
  <1>1. {level0_table} \cap DOMAIN tables = AtLevel(lev, 0)
    BY DEF Tree, Rooted, AtLevel
  <1>2. Children(AtLevel(lev, 0)) = AtLevel(lev, 1)
    BY ChildrenAre
  <1>3. Children(AtLevel(lev, 1)) = AtLevel(lev, 2)
    BY ChildrenAre
  <1>4. Children(AtLevel(lev, 2)) = AtLevel(lev, 3)
    BY ChildrenAre
  <1> QED BY <1>1, <1>2, <1>3, <1>4 DEF LevelTables, Levels

Owner(t, i) == [table |-> t, idx |-> i, owned |-> Extent(tables[t][i])]

LEMMA OwnersAre ==
  ASSUME NEW lev \in [DOMAIN tables -> Levels], Tree(lev), Settled
  PROVE  /\ \A o \in Owners : \E t, i : Uses(t, i) /\ o = Owner(t, i)
         /\ \A t, i : Uses(t, i) => Owner(t, i) \in Owners
PROOF
  <1> DEFINE owner(level, t, i) ==
               [table |-> t, idx |-> i,
                owned |-> Run(tables[t][i].page, IF tables[t][i].bits = TABLE THEN 1 ELSE SIZE[level])]
             used(t) == {j \in DOMAIN tables[t] : tables[t][j].bits # 0}
  <1>1. \A t, i : Live(t, i)
    BY DEF Settled, Tree, Destruction, Live
  <1>2. ASSUME NEW t \in DOMAIN tables, NEW i \in used(t)
        PROVE  Uses(t, i) /\ owner(lev[t], t, i) = Owner(t, i)
    <2>1. i \in Indices(lev[t]) /\ tables[t][i] \in EntryType
      BY DEF Tree, Shaped
    <2>2. tables[t][i].bits \in {BLOCK, TABLE}
      BY <2>1 DEF EntryType
    <2>3. tables[t][i].bits = BLOCK => lev[t] = 2
      BY <2>1 DEF Tree, Shaped
    <2>4. owner(lev[t], t, i) = Owner(t, i)
      BY <2>2, <2>3 DEF Owner, Extent, TABLE, BLOCK
    <2> HIDE DEF owner
    <2> QED BY <1>1, <2>4 DEF Uses
  <1>3. Owners = UNION {UNION {{owner(level, t, i) : i \in used(t)} :
                               t \in LevelTables(level) \cap DOMAIN tables} : level \in Levels}
    BY DEF Owners
  <1> HIDE DEF owner, used
  <1>4. \A level \in Levels : \A t \in LevelTables(level) \cap DOMAIN tables : lev[t] = level
    BY LevelTablesAre DEF AtLevel
  <1>5. \A t \in DOMAIN tables : lev[t] \in Levels /\ t \in LevelTables(lev[t]) \cap DOMAIN tables
    BY LevelTablesAre DEF AtLevel
  <1>6. ASSUME NEW o \in Owners PROVE \E t, i : Uses(t, i) /\ o = Owner(t, i)
    <2>1. PICK level \in Levels : \E t \in LevelTables(level) \cap DOMAIN tables :
                                    \E i \in used(t) : o = owner(level, t, i)
      BY <1>3
    <2>2. PICK t \in LevelTables(level) \cap DOMAIN tables : \E i \in used(t) : o = owner(level, t, i)
      BY <2>1
    <2>3. PICK i \in used(t) : o = owner(level, t, i)
      BY <2>2
    <2> QED BY <1>2, <1>4, <2>3
  <1>7. ASSUME NEW t, NEW i, Uses(t, i) PROVE Owner(t, i) \in Owners
    <2>1. t \in DOMAIN tables /\ i \in used(t)
      BY <1>7 DEF Uses, used
    <2>2. Owner(t, i) = owner(lev[t], t, i)
      BY <1>2, <2>1
    <2> QED BY <1>3, <1>5, <2>1, <2>2
  <1> QED BY <1>6, <1>7

LEMMA DataIsTree ==
  ASSUME TypeOK, NEW lev \in [DOMAIN tables -> Levels], Tree(lev), Data
  PROVE  TreeIsSound /\ Accounting
PROOF
  <1> SUFFICES ASSUME Settled PROVE TreeIsSound /\ Accounting
    BY DEF TreeIsSound, Accounting
  <1>1. /\ \A o \in Owners : \E t, i : Uses(t, i) /\ o = Owner(t, i)
        /\ \A t, i : Uses(t, i) => Owner(t, i) \in Owners
    BY OwnersAre
  <1>2. \A t, i, p : Owns(t, i, p) => p \in Nat
    <2>1. \A t, i : Uses(t, i) => tables[t][i] \in EntryType
      BY DEF Uses, Tree, Shaped
    <2> QED BY <2>1, ExtentIs DEF Owns
  <1>3. \A t, i, p : Uses(t, i) => (p \in Owner(t, i).owned <=> Owns(t, i, p))
    BY DEF Owns, Owner
  <1>4. \A p : Kept(p) <=> p \in reserved \cup {level0_table}
    BY DEF Settled, Tree, Destruction, Kept, Places, Splitting
  <1>5. ASSUME NEW o \in Owners, NEW p \in Owners, o # p PROVE o.owned \cap p.owned = {}
    <2> SUFFICES ASSUME NEW q \in o.owned, q \in p.owned PROVE FALSE
      OBVIOUS
    <2>1. PICK t, i : Uses(t, i) /\ o = Owner(t, i)
      BY <1>1
    <2>2. PICK u, j : Uses(u, j) /\ p = Owner(u, j)
      BY <1>1
    <2>3. Owns(t, i, q) /\ Owns(u, j, q) /\ q \in Nat
      BY <1>2, <1>3, <2>1, <2>2
    <2>4. t = u /\ i = j
      BY <2>3 DEF Data, OneOwner
    <2> QED BY <1>5, <2>1, <2>2, <2>4
  <1>6. ASSUME NEW o \in Owners PROVE o.owned \cap (reserved \cup {level0_table}) = {}
    <2> SUFFICES ASSUME NEW q \in o.owned, q \in reserved \cup {level0_table} PROVE FALSE
      OBVIOUS
    <2>1. PICK t, i : Uses(t, i) /\ o = Owner(t, i)
      BY <1>1
    <2>2. Owns(t, i, q) /\ q \in Nat
      BY <1>2, <1>3, <2>1
    <2> QED BY <1>4, <2>2 DEF Data, OneOwner
  <1>7. DOMAIN tables = UNION {LevelTables(l) : l \in Levels}
    BY LevelTablesAre DEF AtLevel
  <1>8. TreeIsSound
    BY <1>5, <1>6, <1>7 DEF TreeIsSound
  <1>a. \A p : p \in Owned <=> (\E o \in Owners : p \in o.owned) \/ (p = level0_table /\ p # NULL)
    <2> DEFINE all == {o.owned : o \in Owners}
    <2>1. \A p : p \in UNION all <=> \E s \in all : p \in s
      OBVIOUS
    <2>2. \A p : (\E s \in all : p \in s) <=> \E o \in Owners : p \in o.owned
      OBVIOUS
    <2>3. Owned = (UNION all) \cup ({level0_table} \ {NULL})
      BY DEF Owned
    <2>4. \A p : p \in UNION all <=> \E o \in Owners : p \in o.owned
      BY <2>1, <2>2
    <2> HIDE DEF all
    <2>5. \A p : p \in Owned <=> p \in UNION all \/ (p = level0_table /\ p # NULL)
      BY <2>3
    <2> QED BY <2>4, <2>5
  <1>9. ASSUME NEW p \in Nat PROVE p \in bitmap <=> p \in reserved \cup Owned
    <2>1. (\E t, i : Owns(t, i, p)) <=> \E o \in Owners : p \in o.owned
      BY <1>1, <1>3 DEF Owns
    <2>2. p \in Owned <=> (\E t, i : Owns(t, i, p)) \/ (p = level0_table /\ p # NULL)
      BY <1>a, <2>1
    <2>3. NULL \in reserved
      BY DEF Data, Apart
    <2> QED BY <1>4, <2>2, <2>3 DEF Data, OneOwner
  <1>10. bitmap \subseteq Nat /\ reserved \subseteq Nat /\ Owned \subseteq Nat
    <2>1. bitmap \subseteq Nat /\ reserved \subseteq Nat /\ level0_table \in Nat
      BY PageCountType DEF TypeOK, Pages
    <2>2. \A o \in Owners : o.owned \subseteq Nat
      BY <1>1, <1>2, <1>3
    <2> QED BY <1>a, <2>1, <2>2
  <1>11. Accounting
    BY <1>9, <1>10 DEF Accounting
  <1> QED BY <1>8, <1>11

\* What holds of the pages of a context, until the first fault.
LEMMA PagesHold ==
  ASSUME MAP_TYPE = "ALLOC", BlocksAlign
  PROVE  Spec => [](TreeIsSound /\ Accounting)
PROOF
  <1>1. Init => DInv
    BY InitIInv, InitData DEF DInv
  <1>2. DInv /\ [Next]_vars => DInv'
    BY NextData
  <1>3. DInv => TreeIsSound /\ Accounting
    <2> SUFFICES ASSUME DInv, fault # "none" PROVE TreeIsSound /\ Accounting
      BY DataIsTree DEF DInv, IInv
    <2> QED BY DEF TreeIsSound, Accounting
  <1> QED BY <1>1, <1>2, <1>3, PTL DEF Spec

\* No two entries own the same page, none owns one of others, and no table is
\* left behind without an entry that leads to it: for tables and memory of any
\* size, whatever is mapped, split, overridden and destroyed in any order, up to
\* the first fault.
THEOREM TreeIsSoundHolds ==
  ASSUME MAP_TYPE = "ALLOC", BlocksAlign
  PROVE  Spec => []TreeIsSound
  BY PagesHold, PTL

\* Every page that is claimed is in the tree: mapping loses none, and destruction
\* gives back everything and no more, up to the first fault.
THEOREM AccountingHolds ==
  ASSUME MAP_TYPE = "ALLOC", BlocksAlign
  PROVE  Spec => []Accounting
  BY PagesHold, PTL

-----------------------------------------------------------------------------
(***************************************************************************)
(* Module Context.  As long as nothing but first entries is used, the      *)
(* tables are a chain: level0_table, First0.page, First1.page.  Each page  *)
(* of it is what the allocator gives when exactly the pages of others and  *)
(* the chain so far are claimed, so that module Context, which claims in   *)
(* that order, has the same pages.  An entry that is used stays used until *)
(* the context is destroyed: an order that holds once is never lost.       *)
(***************************************************************************)
OnlyFirst == \A t \in DOMAIN tables : \A i \in DOMAIN tables[t] \ {0} : tables[t][i] = EMPTY_ENTRY

First0 == tables[level0_table][0]
First1 == tables[First0.page][0]
First2 == tables[First1.page][0]

\* Claims in the order of module Context.
InOrder ==
  LET ours == reserved \cup {level0_table}
      more == ours \cup {First0.page}
      all  == more \cup {First1.page}
  IN  /\ level0_table = memory_allocator_claim_page(reserved).page
      /\ OnlyFirst /\ First0.bits = TABLE =>
           /\ First0.page = memory_allocator_claim_page(ours).page
           /\ First1.bits = TABLE =>
                /\ First1.page = memory_allocator_claim_page(more).page
                /\ First2.bits = BLOCK =>
                     First2.page = memory_allocator_claim_pages(all, SIZE[2], SIZE[2]).page

ZeroIndex == \A level \in Levels : 0 \in Indices(level)

LEMMA ZeroIsIndex == ZeroIndex
  BY EntriesAre DEF ZeroIndex, Indices

\* First entries that lead to tables.
LEMMA FirstsAre ==
  ASSUME NEW lev \in [DOMAIN tables -> Levels], Tree(lev), table_stack = <<>>, pc # "entry",
         level0_table # NULL
  PROVE  /\ level0_table \in DOMAIN tables /\ lev[level0_table] = 0
         /\ First0.bits = TABLE => /\ First0.page \in DOMAIN tables /\ lev[First0.page] = 1
         /\ First0.bits = TABLE /\ First1.bits = TABLE =>
              First1.page \in DOMAIN tables /\ lev[First1.page] = 2
         /\ First0.bits = TABLE /\ First1.bits = TABLE /\ First2.bits = TABLE =>
              First2.page \in DOMAIN tables /\ lev[First2.page] = 3
PROOF
  <1>1. level0_table \in DOMAIN tables /\ lev[level0_table] = 0
    BY DEF Tree, Rooted
  <1>2. ASSUME NEW t \in DOMAIN tables, NEW level \in 0 .. 2, lev[t] = level, tables[t][0].bits = TABLE
        PROVE  tables[t][0].page \in DOMAIN tables /\ lev[tables[t][0].page] = level + 1
    <2>1. 0 \in Indices(level) /\ level < 3
      BY ZeroIsIndex DEF ZeroIndex, Levels
    <2>2. Link(lev, t, 0)
      BY <1>2, <2>1 DEF Link, Live
    <2> QED BY <1>2, <2>1, <2>2 DEF Tree, Linked
  <1>3. First0.bits = TABLE => First0.page \in DOMAIN tables /\ lev[First0.page] = 1
    BY <1>1, <1>2 DEF First0
  <1>4. First0.bits = TABLE /\ First1.bits = TABLE => First1.page \in DOMAIN tables /\ lev[First1.page] = 2
    <2>1. SUFFICES ASSUME First0.bits = TABLE, First1.bits = TABLE
                   PROVE  First1.page \in DOMAIN tables /\ lev[First1.page] = 2
      OBVIOUS
    <2> HIDE DEF First0
    <2>2. First0.page \in DOMAIN tables /\ lev[First0.page] = 1 /\ 1 \in 0 .. 2 /\ 1 + 1 = 2
      BY <1>3, <2>1
    <2> QED BY <1>2, <2>1, <2>2 DEF First1
  <1>5. First0.bits = TABLE /\ First1.bits = TABLE /\ First2.bits = TABLE =>
          First2.page \in DOMAIN tables /\ lev[First2.page] = 3
    <2>1. SUFFICES ASSUME First0.bits = TABLE, First1.bits = TABLE, First2.bits = TABLE
                   PROVE  First2.page \in DOMAIN tables /\ lev[First2.page] = 3
      OBVIOUS
    <2>2. First1.page \in DOMAIN tables /\ lev[First1.page] = 2 /\ 2 \in 0 .. 2 /\ 2 + 1 = 3
      BY <1>4, <2>1
    <2> HIDE DEF First1
    <2> QED BY <1>2, <2>1, <2>2 DEF First2
  <1> QED BY <1>1, <1>3, <1>4, <1>5

\* If nothing but first entries is used, the tables are one chain.
LEMMA ChainIs ==
  ASSUME NEW lev \in [DOMAIN tables -> Levels], Tree(lev), table_stack = <<>>, pc # "entry",
         level0_table # NULL, OnlyFirst, NEW t \in DOMAIN tables
  PROVE  /\ lev[t] = 0 => t = level0_table
         /\ lev[t] = 1 => t = First0.page /\ First0.bits = TABLE
         /\ lev[t] = 2 => t = First1.page /\ First0.bits = TABLE /\ First1.bits = TABLE
         /\ lev[t] = 3 => /\ t = First2.page /\ First0.bits = TABLE /\ First1.bits = TABLE
                          /\ First2.bits = TABLE
PROOF
  <1>1. \A u \in DOMAIN tables : lev[u] = 0 => u = level0_table
    BY DEF Tree, Rooted
  <1>2. ASSUME NEW v \in DOMAIN tables, lev[v] # 0
        PROVE  \E u \in DOMAIN tables : /\ lev[v] = lev[u] + 1 /\ tables[u][0].bits = TABLE
                                        /\ tables[u][0].page = v
    <2>1. Places = {}
      BY DEF Places
    <2>2. PICK u \in DOMAIN tables : \E i \in Indices(lev[u]) : Link(lev, u, i) /\ tables[u][i].page = v
      BY <1>2, <2>1 DEF Tree, Linked
    <2>3. PICK i \in Indices(lev[u]) : Link(lev, u, i) /\ tables[u][i].page = v
      BY <2>2
    <2>4. i \in DOMAIN tables[u] /\ tables[u][i].bits = TABLE
      BY <2>3 DEF Link, Tree, Shaped
    <2>5. i = 0
      BY <2>4, EmptyIs DEF OnlyFirst, TABLE
    <2>6. lev[v] = lev[u] + 1
      BY <2>3 DEF Tree, Linked
    <2> QED BY <2>3, <2>4, <2>5, <2>6
  <1>3. \A v \in DOMAIN tables : lev[v] \in Levels
    OBVIOUS
  <1>4. \A v \in DOMAIN tables : lev[v] = 1 => v = First0.page /\ First0.bits = TABLE
    <2> SUFFICES ASSUME NEW v \in DOMAIN tables, lev[v] = 1 PROVE v = First0.page /\ First0.bits = TABLE
      OBVIOUS
    <2>1. PICK u \in DOMAIN tables : /\ lev[v] = lev[u] + 1 /\ tables[u][0].bits = TABLE
                                     /\ tables[u][0].page = v
      BY <1>2
    <2>2. lev[u] = 0
      BY <1>3, <2>1 DEF Levels
    <2> QED BY <1>1, <2>1, <2>2 DEF First0
  <1>5. \A v \in DOMAIN tables : lev[v] = 2 => v = First1.page /\ First0.bits = TABLE /\ First1.bits = TABLE
    <2> SUFFICES ASSUME NEW v \in DOMAIN tables, lev[v] = 2
                 PROVE v = First1.page /\ First0.bits = TABLE /\ First1.bits = TABLE
      OBVIOUS
    <2>1. PICK u \in DOMAIN tables : /\ lev[v] = lev[u] + 1 /\ tables[u][0].bits = TABLE
                                     /\ tables[u][0].page = v
      BY <1>2
    <2>2. lev[u] = 1
      BY <1>3, <2>1 DEF Levels
    <2> QED BY <1>4, <2>1, <2>2 DEF First1
  <1>6. \A v \in DOMAIN tables : lev[v] = 3 =>
          v = First2.page /\ First0.bits = TABLE /\ First1.bits = TABLE /\ First2.bits = TABLE
    <2> SUFFICES ASSUME NEW v \in DOMAIN tables, lev[v] = 3
                 PROVE v = First2.page /\ First0.bits = TABLE /\ First1.bits = TABLE /\ First2.bits = TABLE
      OBVIOUS
    <2>1. PICK u \in DOMAIN tables : /\ lev[v] = lev[u] + 1 /\ tables[u][0].bits = TABLE
                                     /\ tables[u][0].page = v
      BY <1>2
    <2>2. lev[u] = 2
      BY <1>3, <2>1 DEF Levels
    <2> QED BY <1>5, <2>1, <2>2 DEF First2
  <1> QED BY <1>1, <1>4, <1>5, <1>6

\* ... and they own what is claimed.
LEMMA ChainOwns ==
  ASSUME TypeOK, NEW lev \in [DOMAIN tables -> Levels], Tree(lev), Data,
         pc \notin {"split", "entry"}, level0_table # NULL, OnlyFirst,
         \A t \in DOMAIN tables : lev[t] # 3
  PROVE  bitmap = (reserved \cup {level0_table})
                    \cup (IF First0.bits # TABLE THEN {}
                          ELSE {First0.page}
                                 \cup (IF First1.bits # TABLE THEN {}
                                       ELSE {First1.page}
                                              \cup (IF First2.bits = 0 THEN {} ELSE Extent(First2))))
PROOF
  <1> DEFINE l2 == IF First2.bits = 0 THEN {} ELSE Extent(First2)
             l1 == IF First1.bits # TABLE THEN {} ELSE {First1.page} \cup l2
             l0 == IF First0.bits # TABLE THEN {} ELSE {First0.page} \cup l1
  <1>1. table_stack = <<>> /\ Places = {} /\ Splitting = {} /\ \A t, i : Live(t, i)
    BY DEF Tree, Destruction, Places, Splitting, Live
  <1>2. \A t \in DOMAIN tables : tables[t] \in [Indices(lev[t]) -> EntryType]
    BY DEF Tree, Shaped
  <1>3. \A t, i : Uses(t, i) <=> t \in DOMAIN tables /\ i = 0 /\ tables[t][0].bits # 0
    <2>1. \A t \in DOMAIN tables : 0 \in DOMAIN tables[t]
      BY <1>2, ZeroIsIndex DEF ZeroIndex
    <2> QED BY <1>1, <2>1, EmptyIs DEF Uses, OnlyFirst
  <1>4. /\ level0_table \in DOMAIN tables /\ lev[level0_table] = 0
        /\ First0.bits = TABLE => /\ First0.page \in DOMAIN tables /\ lev[First0.page] = 1
        /\ First0.bits = TABLE /\ First1.bits = TABLE =>
              First1.page \in DOMAIN tables /\ lev[First1.page] = 2
    BY <1>1, FirstsAre
  <1>5. \A t \in DOMAIN tables : tables[t][0] \in EntryType /\ (tables[t][0].bits = BLOCK => lev[t] = 2)
    BY <1>2, ZeroIsIndex DEF ZeroIndex, Tree, Shaped
  <1>6. /\ First0.bits # 0 <=> First0.bits = TABLE
        /\ First0.bits = TABLE => Extent(First0) = {First0.page}
    <2>1. First0 \in EntryType /\ First0.bits # BLOCK
      BY <1>4, <1>5 DEF First0
    <2> QED BY <2>1, ExtentIs DEF EntryType, TABLE
  <1>7. First0.bits = TABLE =>
          /\ First1.bits # 0 <=> First1.bits = TABLE
          /\ First1.bits = TABLE => Extent(First1) = {First1.page}
    <2> SUFFICES ASSUME First0.bits = TABLE
                 PROVE  /\ First1.bits # 0 <=> First1.bits = TABLE
                        /\ First1.bits = TABLE => Extent(First1) = {First1.page}
      OBVIOUS
    <2>1. First1 \in EntryType /\ First1.bits # BLOCK
      BY <1>4, <1>5 DEF First1
    <2> QED BY <2>1, ExtentIs DEF EntryType, TABLE
  <1>8. ASSUME NEW p PROVE (\E t, i : Owns(t, i, p)) <=> p \in l0
    <2>1. ASSUME NEW t, NEW i, Owns(t, i, p) PROVE p \in l0
      <3>1. t \in DOMAIN tables /\ i = 0 /\ tables[t][0].bits # 0 /\ p \in Extent(tables[t][0])
        BY <1>3, <2>1 DEF Owns
      <3>2. /\ lev[t] = 0 => t = level0_table
            /\ lev[t] = 1 => t = First0.page /\ First0.bits = TABLE
            /\ lev[t] = 2 => t = First1.page /\ First0.bits = TABLE /\ First1.bits = TABLE
        BY <1>1, <3>1, ChainIs
      <3>3. lev[t] \in {0, 1, 2}
        BY <3>1 DEF Levels
      <3>4. CASE lev[t] = 0
        BY <1>6, <3>1, <3>2, <3>4 DEF First0
      <3>5. CASE lev[t] = 1
        BY <1>7, <3>1, <3>2, <3>5 DEF First1
      <3>6. CASE lev[t] = 2
        BY <3>1, <3>2, <3>6 DEF First2
      <3> QED BY <3>3, <3>4, <3>5, <3>6
    <2>2. ASSUME p \in l0 PROVE \E t, i : Owns(t, i, p)
      <3>1. First0.bits = TABLE /\ (p = First0.page \/ p \in l1)
        BY <2>2
      <3>2. CASE p = First0.page
        <4>1. Owns(level0_table, 0, p)
          BY <1>3, <1>4, <1>6, <3>1, <3>2 DEF Owns, First0
        <4> QED BY <4>1
      <3>3. CASE p \in l1
        <4>1. First1.bits = TABLE /\ (p = First1.page \/ p \in l2)
          BY <3>3
        <4>2. CASE p = First1.page
          <5>1. Owns(First0.page, 0, p)
            BY <1>3, <1>4, <1>7, <3>1, <4>1, <4>2 DEF Owns, First1
          <5> QED BY <5>1
        <4>3. CASE p \in l2
          <5>1. Owns(First1.page, 0, p)
            BY <1>3, <1>4, <3>1, <4>1, <4>3 DEF Owns, First2
          <5> QED BY <5>1
        <4> QED BY <4>1, <4>2, <4>3
      <3> QED BY <3>1, <3>2, <3>3
    <2> QED BY <2>1, <2>2
  <1> HIDE DEF l0, l1, l2
  <1>9. \A p \in Nat : p \in bitmap <=> p \in (reserved \cup {level0_table}) \cup l0
    BY <1>1, <1>8 DEF Data, OneOwner, Kept
  <1>10. bitmap \subseteq Nat /\ reserved \subseteq Nat /\ level0_table \in Nat
    BY PageCountType DEF TypeOK, Pages
  <1>11. l0 \subseteq Nat
    <2> SUFFICES ASSUME NEW p \in l0 PROVE p \in Nat
      OBVIOUS
    <2>1. PICK t, i : Owns(t, i, p)
      BY <1>8
    <2>2. tables[t][i] \in EntryType
      BY <1>2, <2>1 DEF Owns, Uses
    <2> QED BY <2>1, <2>2, ExtentIs DEF Owns
  <1>12. bitmap = (reserved \cup {level0_table}) \cup l0
    BY <1>9, <1>10, <1>11
  <1> QED BY <1>12 DEF l0, l1, l2

\* No page or table of the chain moves.
LEMMA OrderStays ==
  ASSUME NEW lev \in [DOMAIN tables -> Levels], Tree(lev), table_stack = <<>>, pc # "entry",
         level0_table # NULL, InOrder, UNCHANGED <<reserved, level0_table>>,
         OnlyFirst' => OnlyFirst,
         \A t \in DOMAIN tables : lev[t] < 2 /\ tables'[t][0].bits = TABLE =>
           tables[t][0].bits = TABLE /\ tables'[t][0].page = tables[t][0].page,
         \A t \in DOMAIN tables : lev[t] = 2 /\ tables'[t][0].bits = BLOCK =>
           tables[t][0].bits = BLOCK /\ tables'[t][0].page = tables[t][0].page
  PROVE  InOrder'
PROOF
  <1>1. /\ level0_table \in DOMAIN tables /\ lev[level0_table] = 0
        /\ First0.bits = TABLE => First0.page \in DOMAIN tables /\ lev[First0.page] = 1
        /\ First0.bits = TABLE /\ First1.bits = TABLE =>
              First1.page \in DOMAIN tables /\ lev[First1.page] = 2
    BY FirstsAre
  <1>2. First0'.bits = TABLE => First0.bits = TABLE /\ First0'.page = First0.page
    BY <1>1 DEF First0
  <1>3. First0'.bits = TABLE /\ First1'.bits = TABLE => First1.bits = TABLE /\ First1'.page = First1.page
    <2> SUFFICES ASSUME First0'.bits = TABLE, First1'.bits = TABLE
                 PROVE  First1.bits = TABLE /\ First1'.page = First1.page
      OBVIOUS
    <2>1. First0'.page = First0.page /\ First0.page \in DOMAIN tables /\ lev[First0.page] = 1
      BY <1>1, <1>2
    <2>2. First1' = tables'[First0.page][0]
      BY <2>1 DEF First1
    <2> QED BY <2>1, <2>2 DEF First1
  <1>4. First0'.bits = TABLE /\ First1'.bits = TABLE /\ First2'.bits = BLOCK =>
          First2.bits = BLOCK /\ First2'.page = First2.page
    <2> SUFFICES ASSUME First0'.bits = TABLE, First1'.bits = TABLE, First2'.bits = BLOCK
                 PROVE  First2.bits = BLOCK /\ First2'.page = First2.page
      OBVIOUS
    <2>1. First1'.page = First1.page /\ First1.page \in DOMAIN tables /\ lev[First1.page] = 2
      BY <1>1, <1>2, <1>3
    <2>2. First2' = tables'[First1.page][0]
      BY <2>1 DEF First2
    <2> QED BY <2>1, <2>2 DEF First2
  <1> DEFINE T0 == First0.bits = TABLE
             T1 == First1.bits = TABLE
             B2 == First2.bits = BLOCK
  <1> QED BY <1>2, <1>3, <1>4 DEF InOrder

\* What is written to a first entry of a table that is not the first one of the
\* others has no part in the order.
LEMMA OnlyFirstStays ==
  ASSUME NEW lev \in [DOMAIN tables -> Levels], Shaped(lev),
         NEW T \in DOMAIN tables, NEW n \in Indices(lev[T]),
         DOMAIN tables \subseteq DOMAIN tables',
         \A u \in DOMAIN tables : DOMAIN tables'[u] = DOMAIN tables[u],
         tables'[T][n].bits # 0,
         \A u \in DOMAIN tables : \A j \in Indices(lev[u]) :
           u # T \/ j # n => tables'[u][j] = tables[u][j],
         OnlyFirst'
  PROVE  OnlyFirst /\ n = 0
PROOF
  <1>1. \A u \in DOMAIN tables : DOMAIN tables[u] = Indices(lev[u])
    BY DEF Shaped
  <1>2. n = 0
    BY <1>1, EmptyIs DEF OnlyFirst
  <1> QED BY <1>1, <1>2 DEF OnlyFirst

\* A new table comes next in the order, if the tables are a chain.
LEMMA LinkOrder ==
  ASSUME TypeOK, NEW lev \in [DOMAIN tables -> Levels], Tree(lev), Data, InOrder,
         Traversing, LinkNewTable, UNCHANGED <<reserved, level0_table>>,
         NewPage.page # NULL, Entry.bits # TABLE, Entry.bits = BLOCK => walk.level = 2
  PROVE  InOrder'
PROOF
  <1>1. /\ pc = "traverse" /\ level0_table # NULL /\ table_stack = <<>>
        /\ walk.level \in 0 .. 2 /\ walk.table \in DOMAIN tables /\ lev[walk.table] = walk.level
        /\ Idx \in Indices(walk.level) /\ Entry \in EntryType
    BY TraversingIs
  <1>2. PICK new, T, n : new = NewPage.page /\ T = walk.table /\ n = Idx
    OBVIOUS
  <1>3. /\ new \notin DOMAIN tables
        /\ DOMAIN tables' = DOMAIN tables \cup {new}
        /\ tables'[new] = Zeroed(walk.level + 1)
        /\ tables'[T][n] = mmu_create_table_entry(new)
        /\ \A u \in DOMAIN tables : \A j \in Indices(lev[u]) :
             u # T \/ j # n => tables'[u][j] = tables[u][j]
        /\ \A u \in DOMAIN tables' :
             tables'[u] \in [Indices(With(lev, new, walk.level + 1)[u]) -> EntryType]
    BY <1>1, <1>2, NewTableIs
  <1>4. /\ tables'[T][n].bits = TABLE /\ tables'[T][n].page = new /\ tables'[T][n].bits # 0
    BY <1>3 DEF mmu_create_table_entry, TABLE
  <1>5. \A u \in DOMAIN tables : DOMAIN tables[u] = Indices(lev[u]) /\ DOMAIN tables'[u] = Indices(lev[u])
    <2>1. \A u \in DOMAIN tables : With(lev, new, walk.level + 1)[u] = lev[u]
      BY <1>3 DEF With
    <2> QED BY <1>3, <2>1 DEF Tree, Shaped
  <1>6. OnlyFirst' => OnlyFirst /\ n = 0
    BY <1>1, <1>2, <1>3, <1>4, <1>5, OnlyFirstStays DEF Tree
  <1>7. tables'[new][0].bits = 0
    <2>1. walk.level + 1 \in Levels
      BY <1>1 DEF Levels
    <2>2. 0 \in Indices(walk.level + 1)
      BY <2>1, ZeroIsIndex DEF ZeroIndex
    <2> QED BY <1>3, <2>2, EmptyIs DEF Zeroed
  <1>8. CASE ~OnlyFirst'
    BY <1>8 DEF InOrder
  <1>9. CASE OnlyFirst' /\ walk.level = 2
    <2>1. \A t \in DOMAIN tables : t # T => tables'[t][0] = tables[t][0]
      BY <1>3, ZeroIsIndex DEF ZeroIndex
    <2>2. \A t \in DOMAIN tables : lev[t] < 2 => tables'[t][0] = tables[t][0]
      BY <1>1, <1>2, <1>9, <2>1
    <2>3. tables'[T][0].bits # BLOCK
      BY <1>4, <1>6, <1>9 DEF TABLE, BLOCK
    <2> QED BY <1>1, <1>6, <2>1, <2>2, <2>3, OrderStays
  <1>10. CASE OnlyFirst' /\ walk.level # 2
    <2>1. OnlyFirst /\ n = 0 /\ Entry.bits = 0 /\ Entry = tables[T][0]
      BY <1>1, <1>2, <1>6, <1>10 DEF Entry, EntryType, TABLE, BLOCK
    <2>2. \A t \in DOMAIN tables : t # T => tables'[t][0] = tables[t][0]
      BY <1>3, ZeroIsIndex DEF ZeroIndex
    <2>3. /\ level0_table \in DOMAIN tables /\ lev[level0_table] = 0
          /\ First0.bits = TABLE => First0.page \in DOMAIN tables /\ lev[First0.page] = 1
      BY <1>1, FirstsAre
    <2>4. \A t \in DOMAIN tables :
            /\ lev[t] = 0 => t = level0_table
            /\ lev[t] = 1 => t = First0.page /\ First0.bits = TABLE
            /\ lev[t] = 2 => t = First1.page /\ First0.bits = TABLE /\ First1.bits = TABLE
            /\ lev[t] = 3 => First0.bits = TABLE /\ First1.bits = TABLE
      BY <1>1, <2>1, ChainIs
    <2>5. NewPage = memory_allocator_claim_page(bitmap)
      BY DEF NewPage, memory_allocator_claim_pages
    <2>6. CASE walk.level = 0
      <3>1. T = level0_table /\ First0.bits = 0 /\ First0.bits # TABLE
        BY <1>1, <1>2, <2>1, <2>4, <2>6 DEF First0, TABLE
      <3>2. bitmap = reserved \cup {level0_table}
        <4>1. \A t \in DOMAIN tables : lev[t] # 3
          BY <2>4, <3>1
        <4>2. pc \notin {"split", "entry"}
          BY <1>1
        <4> QED BY <1>1, <2>1, <3>1, <4>1, <4>2, ChainOwns
      <3>3. First0'.bits = TABLE /\ First0'.page = new
        BY <1>4, <2>1, <3>1 DEF First0
      <3>4. First1'.bits = 0
        BY <1>7, <3>3 DEF First1
      <3> QED BY <1>2, <2>5, <3>2, <3>3, <3>4 DEF InOrder, TABLE
    <2>7. CASE walk.level = 1
      <3>1. T = First0.page /\ First0.bits = TABLE /\ First1.bits = 0 /\ First1.bits # TABLE /\ T # level0_table
        BY <1>1, <1>2, <2>1, <2>3, <2>4, <2>7 DEF First1, TABLE
      <3>2. bitmap = (reserved \cup {level0_table}) \cup {First0.page}
        <4>1. \A t \in DOMAIN tables : lev[t] # 3
          BY <2>4, <3>1
        <4>2. pc \notin {"split", "entry"}
          BY <1>1
        <4> QED BY <1>1, <2>1, <3>1, <4>1, <4>2, ChainOwns
      <3>3. First0' = First0
        BY <2>2, <2>3, <3>1 DEF First0
      <3>4. First1'.bits = TABLE /\ First1'.page = new
        BY <1>4, <2>1, <3>1, <3>3 DEF First1
      <3>5. First2'.bits = 0
        BY <1>7, <3>4 DEF First2
      <3> QED BY <1>2, <2>1, <2>5, <3>1, <3>2, <3>3, <3>4, <3>5 DEF InOrder, BLOCK
    <2> QED BY <1>1, <1>10, <2>6, <2>7
  <1> QED BY <1>8, <1>9, <1>10

LEMMA TablesOrder ==
  ASSUME TypeOK, NEW lev \in [DOMAIN tables -> Levels], Tree(lev), Data, InOrder, UNCHANGED reserved,
         TraverseEmpty \/ SplitLinks, fault' = "none"
  PROVE  InOrder'
PROOF
  <1>1. /\ Traversing /\ LinkNewTable /\ UNCHANGED <<reserved, level0_table>>
        /\ NewPage.page # NULL /\ Entry.bits \in {0, BLOCK}
    BY DEF TraverseEmpty, SplitLinks, LinkNewTable, Claimed
  <1>2. Entry.bits # TABLE
    BY <1>1 DEF TABLE, BLOCK
  <1>3. Entry.bits = BLOCK => walk.level = 2
    <2>1. /\ walk.table \in DOMAIN tables /\ lev[walk.table] = walk.level
          /\ Idx \in Indices(walk.level)
      BY <1>1, TraversingIs
    <2> QED BY <2>1 DEF Entry, Tree, Shaped
  <1> QED BY <1>1, <1>2, <1>3, LinkOrder

\* ... and so does the block of the chain.
LEMMA UnitOrder ==
  ASSUME TypeOK, NEW lev \in [DOMAIN tables -> Levels], Tree(lev), Data, InOrder, UNCHANGED reserved,
         UnitCreated, fault' = "none", MAP_TYPE = "ALLOC"
  PROVE  InOrder'
PROOF
  <1> DEFINE e == Piece(walk.level, UnitSpace.page, region.type)
  <1>1. /\ InUnits /\ NextUnit /\ UnitEntry = EMPTY_ENTRY
        /\ bitmap' = UnitSpace.bitmap /\ UnitSpace.page # NULL
        /\ Got(UnitSpace, SIZE[walk.level]) = "none"
        /\ Put(walk.table, unit, e)
    BY DEF UnitCreated, Put, Got
  <1>2. /\ pc = "units" /\ walk.table \in DOMAIN tables /\ lev[walk.table] = walk.level
        /\ unit \in Indices(lev[walk.table]) /\ walk.level \in {2, 3}
        /\ table_stack = <<>> /\ bitmap \in SUBSET Pages /\ level0_table # NULL
        /\ requested_addr \in Nat
    BY <1>1, UnitsType, RequestedIs DEF InUnits, Tree, Destruction, TypeOK
  <1>3. UNCHANGED <<reserved, level0_table>>
    BY <1>1 DEF NextUnit
  <1>4. UnitSpace.page \in Nat
    <2>1. SIZE[walk.level] \in Nat \ {0} /\ SIZE[walk.level] \in Nat
      BY <1>2, SizeIs DEF Levels
    <2> QED BY <1>2, <2>1, SpaceIs DEF UnitSpace
  <1>5. e \in EntryType /\ e.bits = IF walk.level = 3 THEN TABLE ELSE BLOCK
    BY <1>2, <1>4, PieceIs, RegionType
  <1>6. walk.level = 2 =>
          /\ e.page = UnitSpace.page
          /\ UnitSpace.page = memory_allocator_claim_pages(bitmap, SIZE[2], SIZE[2]).page
    <2> SUFFICES ASSUME walk.level = 2
                 PROVE  /\ e.page = UnitSpace.page
                        /\ UnitSpace.page = memory_allocator_claim_pages(bitmap, SIZE[2], SIZE[2]).page
      OBVIOUS
    <2>1. UnitSpace = get_phys_space(requested_addr, SIZE[2], SIZE[2])
      BY DEF UnitSpace
    <2>2. UnitSpace.page % SIZE[2] = 0
      BY <1>1, <1>2, <2>1, BlockSpaceIs
    <2>3. e.page = UnitSpace.page - (UnitSpace.page % SIZE[2])
      BY DEF Piece, mmu_create_block_entry
    <2>4. e.page = UnitSpace.page
      BY <1>4, <2>2, <2>3
    <2> QED BY <2>1, <2>4 DEF get_phys_space
  <1> HIDE DEF e
  <1>7. /\ DOMAIN tables' = DOMAIN tables /\ tables'[walk.table][unit] = e /\ Shaped(lev)'
        /\ \A u \in DOMAIN tables : \A j \in Indices(lev[u]) :
             u # walk.table \/ j # unit => tables'[u][j] = tables[u][j]
    <2>1. /\ Shaped(lev) /\ (e.bits = 0 => e = EMPTY_ENTRY) /\ (e.bits = BLOCK => lev[walk.table] = 2)
      BY <1>2, <1>5 DEF Tree, TABLE, BLOCK
    <2>2. /\ walk.table \in DOMAIN tables /\ unit \in Indices(lev[walk.table])
          /\ e \in EntryType /\ Put(walk.table, unit, e)
      BY <1>1, <1>2, <1>5
    <2> QED BY <2>1, <2>2, PutIs
  <1>8. OnlyFirst' => OnlyFirst /\ unit = 0
    <2>1. \A u \in DOMAIN tables : DOMAIN tables'[u] = DOMAIN tables[u]
      BY <1>7 DEF Tree, Shaped
    <2>2. tables'[walk.table][unit].bits # 0 /\ Shaped(lev)
      BY <1>5, <1>7 DEF Tree, TABLE, BLOCK
    <2> QED BY <1>2, <1>7, <2>1, <2>2, OnlyFirstStays
  <1>9. CASE ~OnlyFirst'
    BY <1>3, <1>9 DEF InOrder
  <1>10. CASE OnlyFirst' /\ walk.level = 3
    <2>1. \A t \in DOMAIN tables : t # walk.table => tables'[t][0] = tables[t][0]
      BY <1>7, ZeroIsIndex DEF ZeroIndex
    <2>2. \A t \in DOMAIN tables : lev[t] <= 2 => tables'[t][0] = tables[t][0]
      BY <1>2, <1>10, <2>1
    <2>3. \A t \in DOMAIN tables : (lev[t] < 2 \/ lev[t] = 2) => lev[t] <= 2
      BY DEF Levels
    <2>4. pc # "entry"
      BY <1>2
    <2> QED BY <1>2, <1>3, <1>8, <1>10, <2>2, <2>3, <2>4, OrderStays
  <1>11. CASE OnlyFirst' /\ walk.level = 2
    <2>1. OnlyFirst /\ unit = 0 /\ tables[walk.table][0].bits = 0
      BY <1>1, <1>8, <1>11, EmptyIs DEF UnitEntry
    <2>2. \A t \in DOMAIN tables : t # walk.table => tables'[t][0] = tables[t][0]
      BY <1>7, ZeroIsIndex DEF ZeroIndex
    <2>3. /\ level0_table \in DOMAIN tables /\ lev[level0_table] = 0
          /\ First0.bits = TABLE => First0.page \in DOMAIN tables /\ lev[First0.page] = 1
      BY <1>2, FirstsAre
    <2>4. /\ walk.table = First1.page /\ First0.bits = TABLE /\ First1.bits = TABLE
          /\ \A t \in DOMAIN tables : lev[t] = 3 => First2.bits = TABLE
      BY <1>2, <1>11, <2>1, ChainIs
    <2>5. First2.bits = 0 /\ First2.bits # TABLE
      BY <2>1, <2>4 DEF First2, TABLE
    <2>6. bitmap = ((reserved \cup {level0_table}) \cup {First0.page}) \cup {First1.page}
      <3>1. \A t \in DOMAIN tables : lev[t] # 3
        BY <2>4, <2>5
      <3>2. pc \notin {"split", "entry"}
        BY <1>2
      <3>3. bitmap = (reserved \cup {level0_table}) \cup ({First0.page} \cup ({First1.page} \cup {}))
        BY <1>2, <2>1, <2>4, <2>5, <3>1, <3>2, ChainOwns
      <3> QED BY <3>3
    <2>7. First0' = First0
      BY <1>2, <1>3, <1>11, <2>2, <2>3 DEF First0
    <2>8. First1' = First1
      BY <1>2, <1>11, <2>2, <2>3, <2>4, <2>7 DEF First1
    <2>9. First2' = e
      BY <1>7, <2>1, <2>4, <2>8 DEF First2
    <2>10. First2'.page = memory_allocator_claim_pages(bitmap, SIZE[2], SIZE[2]).page
      BY <1>6, <1>11, <2>9
    <2> QED BY <1>3, <2>1, <2>4, <2>6, <2>7, <2>8, <2>10 DEF InOrder
  <1> QED BY <1>2, <1>9, <1>10, <1>11

\* A step that leaves every entry in use in its place leaves the order alone.
LEMMA KeepsOrder ==
  ASSUME NEW lev \in [DOMAIN tables -> Levels], Tree(lev), pc \notin {"entry", "destroy"},
         level0_table # NULL, InOrder, UNCHANGED <<reserved, level0_table>>,
         DOMAIN tables' = DOMAIN tables,
         \A t \in DOMAIN tables : DOMAIN tables'[t] = DOMAIN tables[t],
         \A t \in DOMAIN tables : \A i \in Indices(lev[t]) :
           /\ tables'[t][i] = EMPTY_ENTRY => tables[t][i] = EMPTY_ENTRY
           /\ lev[t] < 3 => /\ tables'[t][i].bits = tables[t][i].bits
                            /\ tables'[t][i].page = tables[t][i].page
  PROVE  InOrder'
PROOF
  <1>1. \A t \in DOMAIN tables : DOMAIN tables[t] = Indices(lev[t]) /\ 0 \in Indices(lev[t])
    BY ZeroIsIndex DEF Tree, Shaped, ZeroIndex
  <1>2. OnlyFirst' => OnlyFirst
    BY <1>1 DEF OnlyFirst
  <1>3. table_stack = <<>> /\ pc # "entry"
    BY DEF Tree, Destruction
  <1>4. \A t \in DOMAIN tables : (lev[t] < 2 \/ lev[t] = 2) => lev[t] < 3
    BY DEF Levels
  <1>5. \A t \in DOMAIN tables : lev[t] < 2 /\ tables'[t][0].bits = TABLE =>
           tables[t][0].bits = TABLE /\ tables'[t][0].page = tables[t][0].page
    BY <1>1, <1>4
  <1>6. \A t \in DOMAIN tables : lev[t] = 2 /\ tables'[t][0].bits = BLOCK =>
           tables[t][0].bits = BLOCK /\ tables'[t][0].page = tables[t][0].page
    BY <1>1, <1>4
  <1> QED BY <1>2, <1>3, <1>5, <1>6, OrderStays

LEMMA CalmOrder ==
  ASSUME TypeOK, NEW lev \in [DOMAIN tables -> Levels], Tree(lev), level0_table # NULL, InOrder,
         UNCHANGED reserved,
         \/ \E r \in REGIONS : memory_map_region(r)
         \/ InsertReturns \/ TraverseStarts \/ TraverseTable
         \/ UnitsStart \/ UnitIsTable \/ UnitsDone
  PROVE  InOrder'
PROOF
  <1>1. UNCHANGED <<reserved, level0_table>> /\ tables' = tables /\ pc \notin {"entry", "destroy"}
    BY DEF memory_map_region, InsertReturns, TraverseStarts, TraverseTable, Traversing,
           UnitsStart, UnitIsTable, InUnits, UnitsDone, memory
  <1> QED BY <1>1, Zenon DEF InOrder, OnlyFirst, First0, First1, First2

LEMMA OverriddenOrder ==
  ASSUME TypeOK, NEW lev \in [DOMAIN tables -> Levels], Tree(lev), InOrder, UNCHANGED reserved,
         UnitOverridden \/ PageOverridden
  PROVE  InOrder'
PROOF
  <1>1. PICK T, n, e :
          /\ T \in DOMAIN tables /\ n \in Indices(lev[T]) /\ e \in EntryType
          /\ Put(T, n, e)
          /\ e.bits = tables[T][n].bits /\ e.page = tables[T][n].page /\ e.bits # 0
          /\ (e.bits = BLOCK => lev[T] = 2)
    <2>1. CASE UnitOverridden
      <3> DEFINE e == [UnitEntry EXCEPT !.type = region.type]
      <3>1. /\ InUnits /\ UnitEntry # EMPTY_ENTRY
            /\ tables' = [tables EXCEPT ![walk.table][unit].type = region.type]
        BY <2>1 DEF UnitOverridden
      <3>2. /\ walk.table \in DOMAIN tables /\ lev[walk.table] = walk.level
            /\ unit \in Indices(lev[walk.table]) /\ UnitEntry \in EntryType
        BY <3>1, UnitsType
      <3>3. Put(walk.table, unit, e)
        BY <3>1 DEF UnitEntry, Put
      <3>4. e \in EntryType /\ e.bits = UnitEntry.bits /\ e.page = UnitEntry.page
        BY <3>2, RegionType DEF EntryType
      <3>5. UnitEntry.bits # 0 /\ (UnitEntry.bits = BLOCK => lev[walk.table] = 2)
        BY <3>1, <3>2 DEF UnitEntry, Tree, Shaped
      <3> HIDE DEF e
      <3> QED BY <3>2, <3>3, <3>4, <3>5 DEF UnitEntry
    <2>2. CASE PageOverridden
      <3> DEFINE old == tables[pages][l3_idx]
                 e == [old EXCEPT !.type = region.type]
      <3>1. /\ pc = "pages" /\ old.bits # 0
            /\ tables' = [tables EXCEPT ![pages][l3_idx].type = region.type]
        BY <2>2 DEF PageOverridden
      <3>2. /\ pages \in DOMAIN tables /\ l3_idx \in Indices(lev[pages]) /\ old \in EntryType
        BY <3>1, PagesType
      <3>3. Put(pages, l3_idx, e)
        BY <3>1 DEF Put
      <3>4. e \in EntryType /\ e.bits = old.bits /\ e.page = old.page
        BY <3>2, RegionType DEF EntryType
      <3>5. old.bits = BLOCK => lev[pages] = 2
        BY <3>2 DEF Tree, Shaped
      <3> HIDE DEF e
      <3> QED BY <3>1, <3>2, <3>3, <3>4, <3>5
    <2> QED BY <2>1, <2>2
  <1>2. /\ UNCHANGED <<reserved, level0_table>> /\ pc \in {"units", "pages"}
    BY DEF UnitOverridden, InUnits, NextUnit, PageOverridden, NextPage
  <1>3. level0_table # NULL
    BY <1>2, WalkIs DEF InCall
  <1>4. /\ DOMAIN tables' = DOMAIN tables /\ tables'[T][n] = e /\ Shaped(lev)'
        /\ \A u \in DOMAIN tables : \A j \in Indices(lev[u]) :
             u # T \/ j # n => tables'[u][j] = tables[u][j]
    <2>1. Shaped(lev) /\ (e.bits = 0 => e = EMPTY_ENTRY) /\ (e.bits = BLOCK => lev[T] = 2)
      BY <1>1 DEF Tree
    <2>2. /\ T \in DOMAIN tables /\ n \in Indices(lev[T]) /\ e \in EntryType /\ Put(T, n, e)
      BY <1>1
    <2> QED BY <2>1, <2>2, PutIs
  <1>5. \A t \in DOMAIN tables : DOMAIN tables'[t] = DOMAIN tables[t]
    BY <1>4 DEF Tree, Shaped
  <1>6. \A t \in DOMAIN tables : \A i \in Indices(lev[t]) :
           /\ tables'[t][i] = EMPTY_ENTRY => tables[t][i] = EMPTY_ENTRY
           /\ tables'[t][i].bits = tables[t][i].bits /\ tables'[t][i].page = tables[t][i].page
    BY <1>1, <1>4, EmptyIs
  <1>7. pc \notin {"entry", "destroy"}
    BY <1>2
  <1> QED BY <1>2, <1>3, <1>4, <1>5, <1>6, <1>7, KeepsOrder

LEMMA PageOrder ==
  ASSUME TypeOK, NEW lev \in [DOMAIN tables -> Levels], Tree(lev), InOrder, UNCHANGED reserved,
         PageCreated
  PROVE  InOrder'
PROOF
  <1> DEFINE e == mmu_create_page_entry(PageSpace.page, region.type)
  <1>1. /\ pc = "pages" /\ NextPage /\ Put(pages, l3_idx, e) /\ tables[pages][l3_idx].bits = 0
    BY DEF PageCreated, Put
  <1>2. /\ pages \in DOMAIN tables /\ lev[pages] = 3 /\ l3_idx \in Indices(lev[pages])
    BY <1>1, PagesType
  <1>3. UNCHANGED <<reserved, level0_table>> /\ level0_table # NULL
    BY <1>1, WalkIs DEF NextPage, InCall
  <1>4. /\ DOMAIN tables' = DOMAIN tables
        /\ \A u \in DOMAIN tables : u # pages => tables'[u] = tables[u]
        /\ tables'[pages] = [tables[pages] EXCEPT ![l3_idx] = e]
    BY <1>1, <1>2 DEF Put
  <1>5. \A t \in DOMAIN tables : DOMAIN tables'[t] = DOMAIN tables[t]
    BY <1>4
  <1>6. ASSUME NEW t \in DOMAIN tables, NEW i \in Indices(lev[t])
        PROVE  /\ tables'[t][i] = EMPTY_ENTRY => tables[t][i] = EMPTY_ENTRY
               /\ lev[t] < 3 => /\ tables'[t][i].bits = tables[t][i].bits
                                /\ tables'[t][i].page = tables[t][i].page
    <2>1. CASE t # pages
      BY <1>4, <2>1
    <2>2. CASE t = pages
      <3>1. DOMAIN tables[pages] = Indices(lev[pages])
        BY <1>2 DEF Tree, Shaped
      <3>2. i = l3_idx => tables[t][i] = EMPTY_ENTRY
        BY <1>1, <1>2, <2>2 DEF Tree, Shaped
      <3>3. i # l3_idx => tables'[t][i] = tables[t][i]
        BY <1>4, <2>2, <3>1
      <3> QED BY <1>2, <2>2, <3>2, <3>3
    <2> QED BY <2>1, <2>2
  <1>7. pc \notin {"entry", "destroy"}
    BY <1>1
  <1> HIDE DEF e
  <1> QED BY <1>3, <1>4, <1>5, <1>6, <1>7, KeepsOrder

LEMMA SplitFillsOrder ==
  ASSUME TypeOK, NEW lev \in [DOMAIN tables -> Levels], Tree(lev), Data, InOrder, UNCHANGED reserved,
         SplitFills
  PROVE  InOrder'
PROOF
  <1> DEFINE filled == [i \in Indices(walk.level) |->
                          Piece(walk.level, new_table_base + i * SIZE[walk.level], block.type)]
  <1>1. /\ pc = "split" /\ tables' = [tables EXCEPT ![walk.table] = filled]
        /\ UNCHANGED <<reserved, level0_table>>
    BY DEF SplitFills
  <1>2. /\ walk.table \in DOMAIN tables /\ lev[walk.table] = walk.level /\ walk.level = 3
        /\ level0_table # NULL
    BY <1>1, WalkIs DEF InCall, Tree, Walking
  <1>3. /\ DOMAIN tables' = DOMAIN tables
        /\ \A u \in DOMAIN tables : u # walk.table => tables'[u] = tables[u]
        /\ DOMAIN tables'[walk.table] = Indices(3)
    BY <1>1, <1>2
  <1>4. \A t \in DOMAIN tables : DOMAIN tables'[t] = DOMAIN tables[t]
    BY <1>2, <1>3 DEF Tree, Shaped
  <1>5. \A i \in Indices(3) : tables[walk.table][i] = EMPTY_ENTRY
    BY <1>1, <1>2 DEF Data, Apart, Tree, Shaped
  <1>6. \A t \in DOMAIN tables : \A i \in Indices(lev[t]) :
           /\ tables'[t][i] = EMPTY_ENTRY => tables[t][i] = EMPTY_ENTRY
           /\ lev[t] < 3 => /\ tables'[t][i].bits = tables[t][i].bits
                            /\ tables'[t][i].page = tables[t][i].page
    BY <1>2, <1>3, <1>5
  <1>7. pc \notin {"entry", "destroy"}
    BY <1>1
  <1> HIDE DEF filled
  <1> QED BY <1>1, <1>2, <1>3, <1>4, <1>6, <1>7, KeepsOrder

\* The first table is the lowest page that others have left free.
LEMMA CreateOrder ==
  ASSUME TypeOK, NEW lev \in [DOMAIN tables -> Levels], Tree(lev), Data, UNCHANGED reserved,
         memory_create_context
  PROVE  /\ bitmap = reserved /\ InOrder'
         /\ DOMAIN tables = {}
PROOF
  <1>1. level0_table = NULL /\ pc = "idle"
    BY DEF memory_create_context
  <1>2. DOMAIN tables = {} /\ table_stack = <<>>
    BY <1>1 DEF Tree, Rooted, Destruction
  <1>3. \A t, i, p : ~Owns(t, i, p)
    BY <1>2 DEF Owns, Uses
  <1>4. \A p \in Nat : p \in bitmap <=> p \in reserved
    BY <1>1, <1>2, <1>3 DEF Data, OneOwner, Kept, Places, Splitting, Apart
  <1>5. bitmap = reserved
    <2>1. bitmap \subseteq Nat /\ reserved \subseteq Nat
      BY PageCountType DEF TypeOK, Pages
    <2> QED BY <1>4, <2>1
  <1>6. level0_table' = NewPage.page /\ tables' = WithTable(NewPage.page, Zeroed(0))
    BY DEF memory_create_context
  <1>7. NewPage = memory_allocator_claim_page(reserved)
    BY <1>5 DEF NewPage, memory_allocator_claim_pages
  <1>8. tables'[level0_table'][0].bits = 0
    <2>1. 0 \in Indices(0)
      BY ZeroIsIndex DEF ZeroIndex, Levels
    <2> QED BY <1>6, <2>1, EmptyIs DEF WithTable, Zeroed
  <1> QED BY <1>2, <1>5, <1>6, <1>7, <1>8 DEF InOrder, First0, TABLE

\* Without memory for its first table a context is not created.
NoMemory ==
  pc = "idle" /\ fault # "none" =>
    /\ level0_table = NULL /\ bitmap = reserved
    /\ level0_table = memory_allocator_claim_page(reserved).page
    /\ tables = [p \in {NULL} |-> Zeroed(0)]

AInv ==
  /\ DInv
  /\ NULL \in reserved
  /\ fault = "none" /\ level0_table # NULL /\ ~Destroying => InOrder
  /\ NoMemory

LEMMA NextNoMemory ==
  ASSUME DInv, NoMemory, Step
  PROVE  NoMemory'
PROOF
  <1>1. fault = "none" /\ UNCHANGED reserved /\ TypeOK /\ Data
    BY DEF Step, Start, Continue, DInv, IInv
  <1>2. CASE memory_create_context
    <2>1. PICK lev \in [DOMAIN tables -> Levels] : Tree(lev)
      BY <1>1 DEF DInv, IInv
    <2>2. bitmap = reserved /\ InOrder' /\ DOMAIN tables = {}
      BY <1>1, <1>2, <2>1, CreateOrder
    <2>3. /\ bitmap' = NewPage.bitmap /\ level0_table' = NewPage.page
          /\ tables' = WithTable(NewPage.page, Zeroed(0)) /\ fault' = Claimed(NewPage.page)
      BY <1>2 DEF memory_create_context
    <2>4. ASSUME fault' # "none"
          PROVE  /\ NewPage.page = NULL /\ bitmap' = reserved
                 /\ tables' = [p \in {NULL} |-> Zeroed(0)]
      <3>1. NewPage.page = NULL
        BY <2>3, <2>4 DEF Claimed
      <3>2. NULL \in bitmap /\ bitmap \in SUBSET Pages
        BY <1>1, <2>2 DEF Data, Apart, TypeOK
      <3>3. NewPage = memory_allocator_claim_page(bitmap)
        BY DEF NewPage, memory_allocator_claim_pages
      <3>4. NewPage.bitmap = bitmap
        <4>1. ASSUME NEW p \in Pages \ bitmap,
                     memory_allocator_claim_page(bitmap) = [page |-> p, bitmap |-> bitmap \cup {p}]
              PROVE  FALSE
          BY <3>1, <3>2, <3>3, <4>1
        <4>2. memory_allocator_claim_page(bitmap) = [page |-> NULL, bitmap |-> bitmap]
          BY <3>2, <4>1, ClaimPageIs
        <4> QED BY <3>3, <4>2
      <3>5. tables' = [p \in {NULL} |-> Zeroed(0)]
        BY <2>2, <2>3, <3>1 DEF WithTable
      <3> QED BY <2>2, <2>3, <3>1, <3>4, <3>5
    <2> QED BY <1>1, <2>2, <2>3, <2>4 DEF NoMemory, InOrder
  <1>3. CASE ~memory_create_context
    <2>1. fault' = "none" \/ pc' # "idle"
      <3>1. CASE Start
        BY <1>1, <1>3, <3>1 DEF Start, memory_map_region, memory_destroy_context
      <3>2. CASE Continue
        <4>1. CASE InsertReturns
          BY <1>1, <4>1 DEF InsertReturns
        <4>2. CASE mmu_traverse_and_alloc_tables
          BY <1>1, <4>2 DEF mmu_traverse_and_alloc_tables, TraverseStarts, TraverseEmpty,
             TraverseTable, SplitLinks, SplitFills, Traversing
        <4>3. CASE mmu_map_units
          BY <1>1, <4>3 DEF mmu_map_units, UnitsStart, UnitCreated, UnitOverridden, UnitIsTable,
             PageCreated, PageOverridden, UnitsDone, InUnits, NextUnit, NextPage
        <4>4. CASE mmu_destroy_entry
          BY <1>1, <4>4 DEF mmu_destroy_entry, EntrySkipped, EntryIsTable, EntryIsPage,
             EntryIsBlock, EntryDone, AtEntry
        <4>5. CASE memory_mmu_destroy_table
          BY <1>1, <4>5 DEF memory_mmu_destroy_table, SlotEmpty, SlotTaken, DestroyReturns
        <4> QED BY <3>2, <4>1, <4>2, <4>3, <4>4, <4>5 DEF Continue
      <3> QED BY <3>1, <3>2 DEF Step
    <2> QED BY <2>1 DEF NoMemory
  <1> QED BY <1>2, <1>3

LEMMA NextAgree ==
  ASSUME MAP_TYPE = "ALLOC", BlocksAlign, AInv, [Next]_vars
  PROVE  AInv'
PROOF
  <1>1. DInv'
    BY NextData, Zenon DEF AInv
  <1>2. CASE UNCHANGED vars
    <2>1. UNCHANGED <<reserved, bitmap, tables, level0_table, pc, fault>>
      BY <1>2 DEF vars, memory
    <2> QED BY <1>1, <2>1, Zenon DEF AInv, Destroying, InOrder, NoMemory, OnlyFirst, First0, First1, First2
  <1>3. CASE Step
    <2>1. TypeOK /\ Data /\ UNCHANGED reserved /\ fault = "none"
      BY <1>3 DEF AInv, DInv, IInv, Step, Start, Continue
    <2>2. PICK lev \in [DOMAIN tables -> Levels] : Tree(lev)
      BY <2>1 DEF AInv, DInv, IInv
    <2>3. level0_table = NULL => pc = "idle"
      BY <2>2 DEF Tree, Rooted
    <2>4. ASSUME fault' = "none", level0_table' # NULL, ~Destroying' PROVE InOrder'
      <3>1. CASE memory_create_context
        BY <2>1, <2>2, <3>1, CreateOrder
      <3>2. ASSUME level0_table # NULL, ~Destroying,
                   \/ \E r \in REGIONS : memory_map_region(r)
                   \/ mmu_traverse_and_alloc_tables \/ mmu_map_units \/ InsertReturns
            PROVE  InOrder'
        <4>1. InOrder
          BY <2>1, <3>2 DEF AInv
        <4>2. CASE \/ \E r \in REGIONS : memory_map_region(r)
                   \/ InsertReturns \/ TraverseStarts \/ TraverseTable
                   \/ UnitsStart \/ UnitIsTable \/ UnitsDone
          BY <2>1, <2>2, <3>2, <4>1, <4>2, CalmOrder
        <4>3. CASE TraverseEmpty \/ SplitLinks \/ SplitFills
          BY <2>1, <2>2, <2>4, <4>1, <4>3, TablesOrder, SplitFillsOrder
        <4>4. CASE UnitCreated \/ PageCreated
          BY <2>1, <2>2, <2>4, <4>1, <4>4, UnitOrder, PageOrder
        <4>5. CASE UnitOverridden \/ PageOverridden
          BY <2>1, <2>2, <4>1, <4>5, OverriddenOrder
        <4> QED BY <3>2, <4>2, <4>3, <4>4, <4>5 DEF mmu_traverse_and_alloc_tables, mmu_map_units
      <3>3. CASE memory_destroy_context \/ mmu_destroy_entry \/ memory_mmu_destroy_table
        BY <2>4, <3>3 DEF memory_destroy_context, mmu_destroy_entry, memory_mmu_destroy_table,
           EntrySkipped, EntryIsTable, EntryIsPage, EntryIsBlock, EntryDone, AtEntry,
           SlotEmpty, SlotTaken, DestroyReturns, Destroying
      <3>4. (\E r \in REGIONS : memory_map_region(r)) => level0_table # NULL /\ ~Destroying
        BY DEF memory_map_region, Destroying
      <3>5. mmu_traverse_and_alloc_tables => level0_table # NULL /\ ~Destroying
        BY <2>3 DEF mmu_traverse_and_alloc_tables, TraverseStarts, TraverseEmpty,
           TraverseTable, SplitLinks, SplitFills, Traversing, Destroying
      <3>6. mmu_map_units => level0_table # NULL /\ ~Destroying
        BY <2>3 DEF mmu_map_units, UnitsStart, UnitCreated, UnitOverridden, UnitIsTable,
           PageCreated, PageOverridden, UnitsDone, InUnits, Destroying
      <3>7. InsertReturns => level0_table # NULL /\ ~Destroying
        BY <2>3 DEF InsertReturns, Destroying
      <3> QED BY <1>3, <3>1, <3>2, <3>3, <3>4, <3>5, <3>6, <3>7 DEF Step, Start, Continue
    <2>5. NoMemory'
      BY <1>3, NextNoMemory DEF AInv
    <2> QED BY <1>1, <2>1, <2>4, <2>5 DEF AInv
  <1> QED BY <1>2, <1>3 DEF Next, AfterFault, Step

\* Both modules have the same allocator.
LEMMA ContextClaims ==
  \A b, n, a : C!memory_allocator_claim_pages(b, n, a) = memory_allocator_claim_pages(b, n, a)
  BY DEF C!memory_allocator_claim_pages, memory_allocator_claim_pages,
         C!memory_allocator_claim_page, memory_allocator_claim_page,
         C!memory_allocator_claim_specific_page, memory_allocator_claim_specific_page,
         C!FirstFit, FirstFit, C!Fits, Fits, C!LooksFree, LooksFree, C!Seen, Seen, C!Run, Run,
         C!PageCount, PageCount, C!NULL, NULL, C!NotFull, NotFull, C!FreeOffsets, FreeOffsets,
         C!memory_allocator_claim_multiple_pages, memory_allocator_claim_multiple_pages,
         C!Touched, Touched, C!EntryPages, EntryPages,
         C!memory_allocator_convert_to_mask, memory_allocator_convert_to_mask,
         C!ChunkSize, ChunkSize, C!FirstChunk, FirstChunk, C!Handled, Handled,
         C!Iterations, Iterations, C!Least, Least, C!Offsets, Offsets, C!Entries, Entries,
         C!Min, Min

LEMMA InitAgree == Init => AInv
PROOF
  <1> SUFFICES ASSUME Init PROVE AInv
    OBVIOUS
  <1>1. DInv
    BY InitIInv, InitData DEF DInv
  <1>2. fault = "none" /\ level0_table = NULL
    BY DEF Init
  <1>3. NULL \in reserved
    BY InitData DEF Data, Apart
  <1> QED BY <1>1, <1>2, <1>3 DEF AInv, NoMemory

\* A claim out of the pages in use, as both modules make it.
LEMMA FirstPage ==
  ASSUME NEW used \in SUBSET Pages, NULL \in used,
         memory_allocator_claim_page(used).page # NULL
  PROVE  memory_allocator_claim_page(used)
           = [page   |-> memory_allocator_claim_page(used).page,
              bitmap |-> used \cup {memory_allocator_claim_page(used).page}]
PROOF
  <1> DEFINE claimed == memory_allocator_claim_page(used)
  <1>1. claimed # [page |-> NULL, bitmap |-> used]
    OBVIOUS
  <1>2. PICK p \in Pages \ used : claimed = [page |-> p, bitmap |-> used \cup {p}]
    <2> HIDE DEF claimed
    <2>1. memory_allocator_claim_page(used) # [page |-> NULL, bitmap |-> used]
      BY <1>1 DEF claimed
    <2> QED BY <2>1, ClaimPageIs DEF claimed
  <1>3. claimed.page = p
    BY <1>2
  <1> QED BY <1>2, <1>3

LEMMA FirstBlock ==
  ASSUME NEW used \in SUBSET Pages, NULL \in used,
         memory_allocator_claim_pages(used, SIZE[2], SIZE[2]).page # NULL
  PROVE  memory_allocator_claim_pages(used, SIZE[2], SIZE[2])
           = [page   |-> memory_allocator_claim_pages(used, SIZE[2], SIZE[2]).page,
              bitmap |-> used \cup Run(memory_allocator_claim_pages(used, SIZE[2], SIZE[2]).page,
                                       SIZE[2])]
PROOF
  <1> DEFINE w == SIZE[2]
             claimed == memory_allocator_claim_pages(used, w, w)
  <1>1. w \in Nat
    BY SizeIs DEF Levels
  <1>2. CASE w = 1
    <2>1. claimed = memory_allocator_claim_page(used)
      BY <1>2 DEF memory_allocator_claim_pages
    <2>2. claimed = [page |-> claimed.page, bitmap |-> used \cup {claimed.page}]
      BY <2>1, FirstPage
    <2>3. claimed.page \in Nat
      <3>1. Pages \subseteq Nat /\ NULL \in Nat
        BY PageCountType DEF Pages, NULL
      <3>2. claimed.page = NULL \/ claimed.page \in Pages
        <4> HIDE DEF NULL
        <4> QED BY <2>1, ClaimPageIs
      <3> QED BY <3>1, <3>2
    <2>4. Run(claimed.page, w) = {claimed.page}
      BY <1>2, <2>3 DEF Run
    <2> QED BY <2>2, <2>4
  <1>3. CASE w # 1
    <2>1. claimed = FirstFit(used, w, w)
      BY <1>3 DEF memory_allocator_claim_pages
    <2>2. claimed # [page |-> NULL, bitmap |-> used]
      OBVIOUS
    <2>3. PICK p : claimed = [page |-> p, bitmap |-> used \cup Run(p, w)]
      <3> HIDE DEF claimed, w
      <3>1. FirstFit(used, w, w) # [page |-> NULL, bitmap |-> used]
        BY <2>1, <2>2
      <3> QED BY <1>1, <2>1, <3>1, FirstFitIs
    <2>4. claimed.page = p /\ claimed = [page |-> p, bitmap |-> used \cup Run(p, w)]
      BY <2>3
    <2> HIDE DEF claimed
    <2>5. claimed = [page |-> claimed.page, bitmap |-> used \cup Run(claimed.page, w)]
      BY <2>4
    <2> QED BY <2>5 DEF claimed
  <1> QED BY <1>2, <1>3

\* The block of a process has as many pages in both modules.
LEMMA BlockPages ==
  ASSUME SIZE[2] % PAGES_PER_ENTRY = 0
  PROVE  C!BLOCK_PAGES = SIZE[2]
PROOF
  <1>1. SIZE[2] \in Nat /\ PAGES_PER_ENTRY \in Nat \ {0}
    BY SizeIs, AllocatorAssumption DEF Levels
  <1>2. SIZE[2] = ((SIZE[2] \div PAGES_PER_ENTRY) * PAGES_PER_ENTRY) + (SIZE[2] % PAGES_PER_ENTRY)
        /\ SIZE[2] \div PAGES_PER_ENTRY \in Nat
    BY <1>1, Division
  <1> DEFINE q == SIZE[2] \div PAGES_PER_ENTRY
  <1>3. q * PAGES_PER_ENTRY \in Nat
    BY <1>1, <1>2
  <1>4. SIZE[2] = q * PAGES_PER_ENTRY
    BY <1>2, <1>3
  <1> QED BY <1>4 DEF C!BLOCK_PAGES

\* What module Context says of the three steps of a context.
Before == [bitmap |-> reserved, tables |-> [p \in Pages |-> C!EMPTY], table |-> NULL]
Created == C!memory_create_context(Before)
Mapped == C!memory_map_region(Created)

LEMMA CreatedIs ==
  LET claimed == memory_allocator_claim_page(reserved)
  IN  Created = [bitmap |-> claimed.bitmap, tables |-> [p \in Pages |-> NULL], table |-> claimed.page]
PROOF
  <1>1. C!memory_allocator_claim_pages(reserved, 1, 1) = memory_allocator_claim_page(reserved)
    BY ContextClaims DEF memory_allocator_claim_pages
  <1>2. Created = [bitmap |-> C!memory_allocator_claim_pages(reserved, 1, 1).bitmap,
                   tables |-> [[p \in Pages |-> C!EMPTY] EXCEPT
                                 ![C!memory_allocator_claim_pages(reserved, 1, 1).page] = C!EMPTY],
                   table  |-> C!memory_allocator_claim_pages(reserved, 1, 1).page]
    BY DEF Created, Before, C!memory_create_context, C!memory_mmu_create_table
  <1>3. \A n : [[p \in Pages |-> NULL] EXCEPT ![n] = NULL] = [p \in Pages |-> NULL]
    OBVIOUS
  <1> QED BY <1>1, <1>2, <1>3 DEF C!EMPTY, NULL

LEMMA MappedIs ==
  ASSUME SIZE[2] % PAGES_PER_ENTRY = 0,
         NEW l0 \in Pages, NEW f0 \in Pages, NEW f1 \in Pages, NEW b, NEW ours, NEW more, NEW all, NEW end,
         l0 # f0, l0 # f1, f0 # f1, l0 # NULL, f0 # NULL, f1 # NULL,
         memory_allocator_claim_page(reserved) = [page |-> l0, bitmap |-> ours],
         memory_allocator_claim_page(ours) = [page |-> f0, bitmap |-> more],
         memory_allocator_claim_page(more) = [page |-> f1, bitmap |-> all],
         memory_allocator_claim_pages(all, SIZE[2], SIZE[2]) = [page |-> b, bitmap |-> end]
  PROVE  Mapped = [bitmap |-> end, table |-> f1,
                   tables |-> [p \in Pages |-> IF p = l0 THEN f0 ELSE IF p = f0 THEN f1
                                               ELSE IF p = f1 THEN b ELSE NULL]]
PROOF
  <1> DEFINE T0 == [p \in Pages |-> NULL]
             T1 == [p \in Pages |-> IF p = l0 THEN f0 ELSE NULL]
             T2 == [p \in Pages |-> IF p = l0 THEN f0 ELSE IF p = f0 THEN f1 ELSE NULL]
             T3 == [p \in Pages |-> IF p = l0 THEN f0 ELSE IF p = f0 THEN f1
                                    ELSE IF p = f1 THEN b ELSE NULL]
             m0 == [bitmap |-> ours, tables |-> T0, table |-> l0]
             m1 == [bitmap |-> more, tables |-> T1, table |-> f0]
             m2 == [bitmap |-> all, tables |-> T2, table |-> f1]
  <1>1. /\ C!memory_allocator_claim_pages(ours, 1, 1) = [page |-> f0, bitmap |-> more]
        /\ C!memory_allocator_claim_pages(more, 1, 1) = [page |-> f1, bitmap |-> all]
        /\ C!memory_allocator_claim_pages(all, C!BLOCK_PAGES, C!BLOCK_PAGES) = [page |-> b, bitmap |-> end]
    BY ContextClaims, BlockPages DEF memory_allocator_claim_pages
  <1>2. Created = m0
    BY CreatedIs
  <1>3. C!NextLevel(m0) = m1
    <2>1. C!memory_mmu_create_table(m0) = [bitmap |-> more, tables |-> T0, table |-> f0]
      BY <1>1 DEF C!memory_mmu_create_table, C!EMPTY, NULL
    <2>2. m0.tables[m0.table] = C!EMPTY
      BY DEF C!EMPTY, NULL
    <2>3. [T0 EXCEPT ![l0] = f0] = T1
      OBVIOUS
    <2> HIDE DEF T0, T1
    <2>4. C!NextLevel(m0) = [C!memory_mmu_create_table(m0) EXCEPT
                               !.tables[m0.table] = C!memory_mmu_create_table(m0).table]
      BY <2>2 DEF C!NextLevel
    <2> QED BY <2>1, <2>3, <2>4
  <1>4. C!NextLevel(m1) = m2
    <2>1. C!memory_mmu_create_table(m1) = [bitmap |-> all, tables |-> T1, table |-> f1]
      BY <1>1 DEF C!memory_mmu_create_table, C!EMPTY, NULL
    <2>2. m1.tables[m1.table] = C!EMPTY
      BY DEF C!EMPTY, NULL
    <2>3. [T1 EXCEPT ![f0] = f1] = T2
      OBVIOUS
    <2> HIDE DEF T1, T2
    <2>4. C!NextLevel(m1) = [C!memory_mmu_create_table(m1) EXCEPT
                               !.tables[m1.table] = C!memory_mmu_create_table(m1).table]
      BY <2>2 DEF C!NextLevel
    <2> QED BY <2>1, <2>3, <2>4
  <1>5. C!mmu_map_units(m2) = [bitmap |-> end, tables |-> T3, table |-> f1]
    <2>2. m2.tables[m2.table] = C!EMPTY
      BY DEF C!EMPTY, NULL
    <2>3. [T2 EXCEPT ![f1] = b] = T3
      OBVIOUS
    <2> HIDE DEF T2, T3
    <2>4. m2.bitmap = all /\ m2.table = f1 /\ m2.tables = T2
      OBVIOUS
    <2> HIDE DEF m2
    <2>5. C!mmu_map_units(m2)
            = [m2 EXCEPT !.bitmap = C!memory_allocator_claim_pages(m2.bitmap, C!BLOCK_PAGES,
                                                                   C!BLOCK_PAGES).bitmap,
                         !.tables[m2.table] = C!memory_allocator_claim_pages(m2.bitmap, C!BLOCK_PAGES,
                                                                             C!BLOCK_PAGES).page]
      BY <2>2, Zenon DEF C!mmu_map_units
    <2>6. C!mmu_map_units(m2) = [m2 EXCEPT !.bitmap = end, !.tables[f1] = b]
      BY <1>1, <2>4, <2>5
    <2>7. [m2 EXCEPT !.bitmap = end, !.tables[f1] = b] 
            = [[m2 EXCEPT !.bitmap = end] EXCEPT !.tables = [T2 EXCEPT ![f1] = b]]
      BY <2>4 DEF m2
    <2>8. [m2 EXCEPT !.bitmap = end] = [bitmap |-> end, tables |-> T2, table |-> f1]
      BY DEF m2
    <2>9. [[bitmap |-> end, tables |-> T2, table |-> f1] EXCEPT !.tables = T3]
            = [bitmap |-> end, tables |-> T3, table |-> f1]
      OBVIOUS
    <2> QED BY <2>3, <2>6, <2>7, <2>8, <2>9
  <1> HIDE DEF m0, m1, m2, T0, T1, T2
  <1>6. Mapped = C!mmu_map_units(m2)
    BY <1>2, <1>3, <1>4 DEF Mapped, C!memory_map_region, C!mmu_traverse_and_alloc_tables
  <1> QED BY <1>5, <1>6

\* An empty context owns nothing.
LEMMA GoneAgrees ==
  ASSUME AInv, pc = "idle", level0_table = NULL
  PROVE  bitmap = reserved
PROOF
  <1>1. CASE fault # "none"
    BY <1>1 DEF AInv, NoMemory
  <1>2. CASE fault = "none"
    <2>1. PICK lev \in [DOMAIN tables -> Levels] : Tree(lev)
      BY <1>2 DEF AInv, DInv, IInv
    <2>2. Data /\ TypeOK
      BY <1>2 DEF AInv, DInv, IInv
    <2>3. DOMAIN tables = {} /\ table_stack = <<>>
      BY <2>1 DEF Tree, Rooted, Destruction
    <2>4. \A t, i, p : ~Owns(t, i, p)
      BY <2>3 DEF Owns, Uses
    <2>5. \A p \in Nat : p \in bitmap <=> p \in reserved
      BY <2>2, <2>3, <2>4 DEF Data, OneOwner, Kept, Places, Splitting, Apart
    <2>6. bitmap \subseteq Nat /\ reserved \subseteq Nat
      BY <2>2, PageCountType DEF TypeOK, Pages
    <2> QED BY <2>5, <2>6
  <1> QED BY <1>1, <1>2

\* A context of one table is what module Context creates.
LEMMA CreatedAgrees ==
  ASSUME AInv, pc = "idle", DOMAIN tables = {level0_table}
  PROVE  /\ bitmap = Created.bitmap
         /\ level0_table = Created.table
         /\ \A t \in DOMAIN tables : tables[t][0].page = Created.tables[t]
PROOF
  <1>1. TypeOK /\ level0_table \in Pages /\ reserved \in SUBSET Pages /\ NULL \in reserved
    BY DEF AInv, DInv, IInv, TypeOK
  <1>2. 0 \in Indices(0)
    BY ZeroIsIndex DEF ZeroIndex, Levels
  <1>3. Created.tables[level0_table] = NULL
    BY <1>1, CreatedIs
  <1>4. CASE fault # "none"
    <2>1. /\ level0_table = NULL /\ bitmap = reserved
          /\ level0_table = memory_allocator_claim_page(reserved).page
          /\ tables = [p \in {NULL} |-> Zeroed(0)]
      BY <1>4 DEF AInv, NoMemory
    <2>2. memory_allocator_claim_page(reserved).bitmap = reserved
      <3>1. ASSUME NEW p \in Pages \ reserved,
                   memory_allocator_claim_page(reserved) = [page |-> p, bitmap |-> reserved \cup {p}]
            PROVE  FALSE
        BY <1>1, <2>1, <3>1
      <3>2. memory_allocator_claim_page(reserved) = [page |-> NULL, bitmap |-> reserved]
        BY <1>1, <3>1, ClaimPageIs
      <3> QED BY <3>2
    <2>3. tables[level0_table][0].page = NULL
      BY <1>2, <2>1 DEF Zeroed, EMPTY_ENTRY
    <2> QED BY <1>3, <2>1, <2>2, <2>3, CreatedIs
  <1>5. CASE fault = "none"
    <2>1. PICK lev \in [DOMAIN tables -> Levels] : Tree(lev)
      BY <1>5 DEF AInv, DInv, IInv
    <2>2. Data
      BY <1>5 DEF AInv, DInv
    <2>3. level0_table # NULL /\ table_stack = <<>> /\ lev[level0_table] = 0
      BY <2>1 DEF Tree, Rooted, Destruction
    <2>4. level0_table = memory_allocator_claim_page(reserved).page
      BY <1>5, <2>3 DEF AInv, InOrder, Destroying
    <2>5. memory_allocator_claim_page(reserved).bitmap = reserved \cup {level0_table}
      BY <1>1, <2>3, <2>4, FirstPage
    <2>6. \A i \in Indices(0) : tables[level0_table][i] \in EntryType
      BY <2>1, <2>3 DEF Tree, Shaped
    <2>7. ASSUME NEW i \in Indices(0) PROVE tables[level0_table][i] = EMPTY_ENTRY
      <3>1. tables[level0_table][i].bits # TABLE
        <4>1. SUFFICES ASSUME tables[level0_table][i].bits = TABLE PROVE FALSE
          OBVIOUS
        <4>2. Link(lev, level0_table, i)
          BY <2>3, <4>1 DEF Link, Live
        <4>3. /\ tables[level0_table][i].page \in DOMAIN tables
              /\ lev[tables[level0_table][i].page] = 1
          BY <2>1, <2>3, <4>2 DEF Tree, Linked
        <4> QED BY <2>3, <4>3
      <3>2. tables[level0_table][i].bits # BLOCK
        BY <2>1, <2>3 DEF Tree, Shaped
      <3>3. tables[level0_table][i].bits = 0
        BY <2>6, <3>1, <3>2 DEF EntryType, TABLE
      <3> QED BY <2>1, <2>3, <3>3 DEF Tree, Shaped
    <2>8. tables[level0_table][0].page = NULL /\ First0.bits # TABLE
      BY <1>2, <2>7 DEF EMPTY_ENTRY, First0, TABLE
    <2>9. OnlyFirst
      BY <2>1, <2>3, <2>7 DEF OnlyFirst, Tree, Shaped
    <2>10. bitmap = reserved \cup {level0_table}
      <3>1. \A t \in DOMAIN tables : lev[t] # 3
        BY <2>3
      <3> QED BY <1>1, <2>1, <2>2, <2>3, <2>8, <2>9, <3>1, ChainOwns
    <2> QED BY <1>3, <2>4, <2>5, <2>8, <2>10, CreatedIs
  <1> QED BY <1>4, <1>5

\* Index 0 is where every walk from virtual page 0 goes.
LEMMA FirstIndex == \A level \in Levels : Index(level, 0) = 0
PROOF
  <1> SUFFICES ASSUME NEW level \in Levels PROVE Index(level, 0) = 0
    OBVIOUS
  <1> DEFINE n == ENTRIES[level]
             w == SIZE[level]
  <1>1. n \in Nat \ {0} /\ w \in Nat \ {0}
    BY EntriesAre, SizeIs
  <1> HIDE DEF n, w
  <1>2. (0 \div w) % n = 0
    <2>1. 0 \div w = 0 /\ 0 % n = 0
      BY <1>1
    <2> QED BY <2>1
  <1> QED BY <1>2 DEF Index, n, w

LEMMA ThreeOf ==
  ASSUME NEW a, NEW b, NEW c, a # b, a # c, b # c
  PROVE  IsFiniteSet({a, b, c}) /\ Cardinality({a, b, c}) = 3
PROOF
  <1> DEFINE two == {a} \cup {b}
  <1>1. IsFiniteSet({a}) /\ Cardinality({a}) = 1
    BY FS_Singleton
  <1>2. IsFiniteSet(two) /\ Cardinality(two) = Cardinality({a}) + 1
    <2>1. b \notin {a}
      OBVIOUS
    <2> QED BY <1>1, <2>1, FS_AddElement
  <1>3. c \notin two /\ {a, b, c} = two \cup {c}
    OBVIOUS
  <1> HIDE DEF two
  <1>4. IsFiniteSet(two \cup {c}) /\ Cardinality(two \cup {c}) = Cardinality(two) + 1
    BY <1>2, <1>3, FS_AddElement
  <1> QED BY <1>1, <1>2, <1>3, <1>4

\* If a page has memory there and nothing else is used, it is a block.
LEMMA BlockChain ==
  ASSUME TypeOK, NEW lev \in [DOMAIN tables -> Levels], Tree(lev), table_stack = <<>>, pc # "entry",
         level0_table # NULL, OnlyBlock
  PROVE  /\ First0.bits = TABLE /\ First1.bits = TABLE /\ First2.bits = BLOCK
         /\ DOMAIN tables = {level0_table, First0.page, First1.page}
         /\ level0_table # First0.page /\ level0_table # First1.page /\ First0.page # First1.page
PROOF
  <1>1. OnlyFirst
    BY DEF OnlyBlock, OnlyFirst
  <1>2. /\ level0_table \in DOMAIN tables /\ lev[level0_table] = 0
        /\ First0.bits = TABLE => First0.page \in DOMAIN tables /\ lev[First0.page] = 1
        /\ First0.bits = TABLE /\ First1.bits = TABLE => First1.page \in DOMAIN tables /\ lev[First1.page] = 2
        /\ First0.bits = TABLE /\ First1.bits = TABLE /\ First2.bits = TABLE =>
              First2.page \in DOMAIN tables /\ lev[First2.page] = 3
    BY FirstsAre
  <1>3. \A t \in DOMAIN tables : tables[t][0] \in EntryType /\ (tables[t][0].bits = BLOCK => lev[t] = 2)
    BY ZeroIsIndex DEF ZeroIndex, Tree, Shaped
  <1>4. /\ Stop(tables, 0) = IF First0.bits # TABLE THEN [level |-> 0, table |-> level0_table]
                             ELSE IF First1.bits # TABLE THEN [level |-> 1, table |-> First0.page]
                             ELSE IF First2.bits # TABLE THEN [level |-> 2, table |-> First1.page]
                             ELSE [level |-> 3, table |-> First2.page]
    <2>1. Index(0, 0) = 0 /\ Index(1, 0) = 0 /\ Index(2, 0) = 0
      BY FirstIndex DEF Levels
    <2> QED BY <2>1, Zenon DEF Stop, First0, First1, First2
  <1>5. tables[Stop(tables, 0).table][Index(Stop(tables, 0).level, 0)].bits # 0
    BY DEF OnlyBlock, Translate
  <1>6. First0.bits = TABLE
    <2> SUFFICES ASSUME First0.bits # TABLE PROVE FALSE
      OBVIOUS
    <2>1. First0.bits # 0
      BY <1>4, <1>5, FirstIndex DEF First0, Levels
    <2> QED BY <1>2, <1>3, <2>1 DEF First0, EntryType, TABLE
  <1>7. First1.bits = TABLE
    <2> SUFFICES ASSUME First1.bits # TABLE PROVE FALSE
      OBVIOUS
    <2>1. First1.bits # 0
      BY <1>4, <1>5, <1>6, FirstIndex DEF First1, Levels
    <2> QED BY <1>2, <1>3, <1>6, <2>1 DEF First1, EntryType, TABLE
  <1> DEFINE three == {level0_table, First0.page, First1.page}
  <1>8. \A t \in DOMAIN tables : lev[t] # 3 => t \in three
    <2>1. \A t \in DOMAIN tables : /\ lev[t] = 0 => t = level0_table
                                   /\ lev[t] = 1 => t = First0.page
                                   /\ lev[t] = 2 => t = First1.page
      BY <1>1, ChainIs
    <2> QED BY <2>1 DEF Levels
  <1>9. level0_table # First0.page /\ level0_table # First1.page /\ First0.page # First1.page
    BY <1>2, <1>6, <1>7
  <1>10. IsFiniteSet(three) /\ Cardinality(three) = 3
    BY <1>9, ThreeOf
  <1>11. First2.bits # TABLE
    <2> SUFFICES ASSUME First2.bits = TABLE PROVE FALSE
      OBVIOUS
    <2>1. First2.page \in DOMAIN tables /\ First2.page \notin three
      BY <1>2, <1>6, <1>7
    <2>2. \A t \in DOMAIN tables : t \in three \cup {First2.page}
      BY <1>1, <1>8, ChainIs
    <2>3. DOMAIN tables = three \cup {First2.page}
      BY <1>2, <1>6, <1>7, <2>1, <2>2
    <2> HIDE DEF three, First2
    <2>4. Cardinality(three \cup {First2.page}) = Cardinality(three) + 1
      BY <1>10, <2>1, FS_AddElement
    <2> QED BY <1>10, <2>3, <2>4 DEF OnlyBlock
  <1>12. First2.bits = BLOCK
    <2>1. First2.bits # 0
      BY <1>4, <1>5, <1>6, <1>7, <1>11, FirstIndex DEF First2, Levels
    <2> QED BY <1>2, <1>3, <1>6, <1>7, <1>11, <2>1 DEF First2, EntryType, TABLE
  <1>13. DOMAIN tables = three
    <2>1. \A t \in DOMAIN tables : lev[t] # 3
      BY <1>1, <1>11, ChainIs
    <2> QED BY <1>2, <1>6, <1>7, <1>8, <2>1
  <1> QED BY <1>6, <1>7, <1>9, <1>12, <1>13

\* ... which module Context claims too.
LEMMA MappedAgrees ==
  ASSUME AInv, pc = "idle", level0_table # NULL, OnlyBlock, SIZE[2] % PAGES_PER_ENTRY = 0
  PROVE  /\ bitmap = Mapped.bitmap
         /\ level0_table = Created.table
         /\ \A t \in DOMAIN tables : tables[t][0].page = Mapped.tables[t]
PROOF
  <1>1. /\ TypeOK /\ level0_table \in Pages /\ reserved \in SUBSET Pages /\ NULL \in reserved
        /\ fault = "none"
    BY DEF AInv, DInv, IInv, TypeOK, NoMemory
  <1>2. PICK lev \in [DOMAIN tables -> Levels] : Tree(lev)
    BY <1>1 DEF AInv, DInv, IInv
  <1>3. Data /\ InOrder /\ OnlyFirst /\ table_stack = <<>>
    BY <1>1, <1>2 DEF AInv, DInv, Destroying, Tree, Destruction, OnlyBlock, OnlyFirst
  <1>4. PICK l0, f0, f1, b : l0 = level0_table /\ f0 = First0.page /\ f1 = First1.page /\ b = First2.page
    OBVIOUS
  <1>5. /\ First0.bits = TABLE /\ First1.bits = TABLE /\ First2.bits = BLOCK
        /\ DOMAIN tables = {l0, f0, f1} /\ l0 # f0 /\ l0 # f1 /\ f0 # f1
    BY <1>1, <1>2, <1>3, <1>4, BlockChain
  <1>6. l0 \in Pages \ {NULL} /\ f0 \in Pages \ {NULL} /\ f1 \in Pages \ {NULL}
    BY <1>2, <1>5 DEF Tree, Shaped
  <1> DEFINE ours == reserved \cup {l0}
             more == ours \cup {f0}
             all  == more \cup {f1}
  <1>7. /\ l0 = memory_allocator_claim_page(reserved).page
        /\ f0 = memory_allocator_claim_page(ours).page
        /\ f1 = memory_allocator_claim_page(more).page
        /\ b = memory_allocator_claim_pages(all, SIZE[2], SIZE[2]).page
    BY <1>3, <1>4, <1>5 DEF InOrder
  <1>8. bitmap = all \cup Run(b, SIZE[2])
    <2>1. ASSUME NEW t \in DOMAIN tables PROVE lev[t] # 3
      <3>1. First2.bits # TABLE
        BY <1>5 DEF TABLE, BLOCK
      <3> QED BY <1>2, <1>3, <3>1, ChainIs
    <2>2. Extent(First2) = Run(b, SIZE[2]) /\ First2.bits # 0
      BY <1>4, <1>5 DEF Extent, BLOCK
    <2> QED BY <1>1, <1>2, <1>3, <1>4, <1>5, <2>1, <2>2, ChainOwns
  <1>9. b # NULL
    <2>1. First0.page \in DOMAIN tables /\ First1.page \in DOMAIN tables
      BY <1>4, <1>5
    <2>2. 0 \in DOMAIN tables[First1.page] /\ First2 \in EntryType
      BY <1>2, <2>1, ZeroIsIndex DEF ZeroIndex, Tree, Shaped, First2
    <2>3. Uses(First1.page, 0)
      BY <1>1, <1>3, <1>5, <2>1, <2>2 DEF Uses, Live, First2, BLOCK
    <2>4. b \in Extent(First2)
      <3>1. b \in Nat /\ SIZE[2] \in Nat \ {0}
        BY <1>4, <2>2, SizeIs DEF EntryType, Levels
      <3> QED BY <1>4, <1>5, <3>1 DEF Extent, Run
    <2>5. Owns(First1.page, 0, b) /\ b \in Nat
      BY <1>4, <2>2, <2>3, <2>4 DEF Owns, First2, EntryType
    <2>6. ~Kept(b)
      BY <1>3, <2>5 DEF Data, OneOwner
    <2> QED BY <1>1, <2>6 DEF Kept
  <1>10. ours \in SUBSET Pages /\ more \in SUBSET Pages /\ all \in SUBSET Pages
    BY <1>1, <1>6
  <1>11. /\ memory_allocator_claim_page(reserved) = [page |-> l0, bitmap |-> ours]
         /\ memory_allocator_claim_page(ours) = [page |-> f0, bitmap |-> more]
         /\ memory_allocator_claim_page(more) = [page |-> f1, bitmap |-> all]
    <2> HIDE DEF NULL
    <2>1. NULL \in ours /\ NULL \in more
      BY <1>1
    <2>2. memory_allocator_claim_page(reserved) = [page |-> l0, bitmap |-> ours]
      BY <1>1, <1>6, <1>7, FirstPage
    <2> HIDE DEF ours
    <2>3. memory_allocator_claim_page(ours) = [page |-> f0, bitmap |-> more]
      BY <1>6, <1>7, <1>10, <2>1, FirstPage
    <2> HIDE DEF more
    <2>4. memory_allocator_claim_page(more) = [page |-> f1, bitmap |-> all]
      BY <1>6, <1>7, <1>10, <2>1, FirstPage
    <2> QED BY <2>2, <2>3, <2>4
  <1>12. memory_allocator_claim_pages(all, SIZE[2], SIZE[2]) = [page |-> b, bitmap |-> bitmap]
    <2>1. NULL \in all
      BY <1>1
    <2> HIDE DEF all
    <2> QED BY <1>7, <1>8, <1>9, <1>10, <2>1, FirstBlock
  <1> HIDE DEF ours, more, all
  <1>13. Mapped = [bitmap |-> bitmap, table |-> f1,
                   tables |-> [p \in Pages |-> IF p = l0 THEN f0 ELSE IF p = f0 THEN f1
                                               ELSE IF p = f1 THEN b ELSE NULL]]
    BY <1>5, <1>6, <1>11, <1>12, MappedIs
  <1>14. tables[l0][0].page = f0 /\ tables[f0][0].page = f1 /\ tables[f1][0].page = b
    BY <1>4 DEF First0, First1, First2
  <1>15. Created.table = l0
    BY <1>7, CreatedIs
  <1> QED BY <1>4, <1>5, <1>6, <1>13, <1>14, <1>15

LEMMA Agreement ==
  ASSUME AInv, SIZE[2] % PAGES_PER_ENTRY = 0
  PROVE  AgreesWithContext
PROOF
  <1>1. SUFFICES ASSUME pc = "idle"
                 PROVE  /\ level0_table = NULL =>
                             bitmap \in {reserved, C!memory_destroy_context(Mapped, Created.table).bitmap}
                        /\ DOMAIN tables = {level0_table} =>
                             /\ bitmap = Created.bitmap
                             /\ level0_table = Created.table
                             /\ \A t \in DOMAIN tables : tables[t][0].page = Created.tables[t]
                        /\ level0_table # NULL /\ OnlyBlock =>
                             /\ bitmap = Mapped.bitmap
                             /\ level0_table = Created.table
                             /\ \A t \in DOMAIN tables : tables[t][0].page = Mapped.tables[t]
    BY Zenon DEF AgreesWithContext, Before, Created, Mapped
  <1> QED BY <1>1, GoneAgrees, CreatedAgrees, MappedAgrees

\* Module Context, on which the proofs about processes rest, is what mmu.c does
\* for the region of a process, as long as no block is found over pages in use:
\* after creation, and after mapping it once or again, the same pages are claimed
\* and lead to the same block, wherever the pages of others lie and whatever has
\* been mapped and destroyed before.
THEOREM AgreesWithContextHolds ==
  ASSUME MAP_TYPE = "ALLOC", SIZE[2] % PAGES_PER_ENTRY = 0
  PROVE  Spec => []AgreesWithContext
PROOF
  <1>0. BlocksAlign
    BY DEF BlocksAlign
  <1>1. Init => AInv
    BY InitAgree
  <1>2. AInv /\ [Next]_vars => AInv'
    BY <1>0, NextAgree
  <1>3. AInv => AgreesWithContext
    BY Agreement
  <1> QED BY <1>1, <1>2, <1>3, PTL DEF Spec

-----------------------------------------------------------------------------
(***************************************************************************)
(* The kernel's own tables (module Boot).  BootAssumption has no part in   *)
(* what is proved above of any memory context.                             *)
(*                                                                         *)
(* While they are built, two numbers determine the tables: how many level  *)
(* 2 tables there are, and how many blocks, counted from address 0, are    *)
(* mapped.  Neither ever decreases.                                        *)
(***************************************************************************)
\* Memory in blocks: where the peripherals begin, and where it ends.
PERIPH_BLOCK == PERIPH_START \div SIZE[2]
BLOCKS == 4 * ENTRIES[2]

\* The level 2 table of the i-th level 1 region.
TableOf(i) == IF i = 0 THEN Level2 ELSE K!RESERVED_END + i - 1

TypeOf(b) == IF b < PERIPH_BLOCK THEN NORMAL ELSE DEVICE

BlockOf(b) == [bits |-> BLOCK, page |-> b * SIZE[2], type |-> TypeOf(b)]

Directory(n) ==
  [i \in Indices(1) |-> IF i < n THEN mmu_create_table_entry(TableOf(i)) ELSE EMPTY_ENTRY]

Filled(i, m) ==
  [e \in Indices(2) |->
     IF i * ENTRIES[2] + e < m THEN BlockOf(i * ENTRIES[2] + e) ELSE EMPTY_ENTRY]

\* There are n level 2 tables, and the first m blocks of memory are mapped.
Built(n, m) ==
  /\ DOMAIN tables = (MMU_SPACE .. Level2) \cup (K!RESERVED_END .. (K!RESERVED_END + n - 2))
  /\ tables[MMU_SPACE] =
       [i \in Indices(0) |-> IF i = 0 THEN mmu_create_table_entry(Level1) ELSE EMPTY_ENTRY]
  /\ tables[Level1] = Directory(n)
  /\ \A i \in 0 .. (n - 1) : tables[TableOf(i)] = Filled(i, m)

Claims(n) == (0 .. (K!RESERVED_END + n - 2)) \cup (PERIPH_START .. (PageCount - 1))

\* The blocks that are mapped when memory_init has gone through the first b.
Reached(b) == IF b < ENTRIES[2] THEN ENTRIES[2] ELSE b

\* The tables are as many as the blocks below b need.
Needed(n, b) == (n - 1) * ENTRIES[2] < Reached(b) /\ Reached(b) <= n * ENTRIES[2]

\* Block b is one of the last table.
InLast(n, b) == (n - 1) * ENTRIES[2] <= b /\ b < n * ENTRIES[2]

\* Where the region ends that is being mapped, or was mapped last.
Ends == CASE step = "normal_memory_region_1" -> ENTRIES[2]
          [] step = "peripherals_region" -> PERIPH_BLOCK
          [] OTHER -> BLOCKS

CallFrom(b) ==
  /\ b < Ends
  /\ todo = <<[address |-> b * SIZE[2], count |-> Ends - b, level |-> 2]>>
  /\ \A x \in b .. (Ends - 1) : region.type = TypeOf(x)

\* table_data, when the walk for block b has reached its level 2 table.
AtTable(n, b) ==
  walk = [table |-> TableOf(n - 1), level |-> 2, rest |-> (b - (n - 1) * ENTRIES[2]) * SIZE[2]]

Idling == pc = "idle" /\ todo = <<>> /\ walk = NOWHERE /\ unit = 0

Inserting(b) ==
  /\ pc = "insert" /\ walk = NOWHERE /\ unit = 0
  /\ CallFrom(b) \/ (b = Ends /\ todo = <<>>)

Descending(b) ==
  /\ pc = "traverse" /\ CallFrom(b) /\ unit = 0
  /\ walk \in {[table |-> MMU_SPACE, level |-> 0, rest |-> b * SIZE[2]],
               [table |-> Level1, level |-> 1, rest |-> b * SIZE[2]]}

Arrived(n, b) == pc = "traverse" /\ CallFrom(b) /\ unit = 0 /\ InLast(n, b) /\ AtTable(n, b)

\* Block b is the next of a loop over the entries that began with block a.
Filling(n, a, b) ==
  /\ pc = "units" /\ CallFrom(a) /\ InLast(n, a) /\ AtTable(n, a)
  /\ a <= b /\ b <= Ends /\ b <= n * ENTRIES[2]
  /\ unit = b - (n - 1) * ENTRIES[2]

\* Before the tables are built, and while the boot code builds the first ones.
Unbuilt ==
  /\ Idling /\ bitmap = {} /\ level0_table = NULL /\ tlb = [va \in WATCHED |-> UNMAPPED]
  /\ x0 = 0
  /\ \/ step = "zero_mmu_space"
     \/ step = "setup_tables" /\ tables = [p \in MMU_SPACE .. Level2 |-> Zeroed(p - MMU_SPACE)]

BootBuilds(m) ==
  /\ Idling /\ bitmap = {} /\ level0_table = NULL /\ tlb = [va \in WATCHED |-> UNMAPPED]
  /\ Built(1, m)
  /\ \/ step = "create_entries_loop" /\ x0 = m * SIZE[2] /\ m < ENTRIES[2]
     \/ step = "setup_registers" /\ m = ENTRIES[2]

SwitchedOn ==
  /\ Idling /\ bitmap = {} /\ level0_table = MMU_SPACE /\ step = "memory_init"
  /\ Built(1, ENTRIES[2])

MemoryInit(n, b) ==
  /\ level0_table = MMU_SPACE /\ Built(n, Reached(b)) /\ bitmap = Claims(n)
  /\ \/ Idling /\ b = Ends /\ step \in DOMAIN After \cup {"done"} /\ Needed(n, b)
     \/ /\ step \in {"peripherals_region", "normal_memory_region_2", "done"}
        /\ \/ Inserting(b) /\ Needed(n, b)
           \/ Descending(b) /\ Needed(n, b)
           \/ Arrived(n, b)
           \/ \E a \in 0 .. b : Filling(n, a, b)

BootShape ==
  /\ fault = "none"
  /\ \/ Unbuilt
     \/ \E m \in 0 .. ENTRIES[2] : BootBuilds(m)
     \/ SwitchedOn
     \/ \E n \in 1 .. 4, b \in 0 .. BLOCKS : MemoryInit(n, b)

-----------------------------------------------------------------------------
(***************************************************************************)
(* Memory in blocks.                                                       *)
(***************************************************************************)
\* What is less as a multiple is less.
LEMMA LessTimes ==
  ASSUME NEW w \in Nat \ {0}, NEW a \in Nat, NEW b \in Nat
  PROVE  a * w < b * w <=> a < b
PROOF
  <1>1. a < b => a * w < b * w
    <2> SUFFICES ASSUME a < b PROVE a * w < b * w
      OBVIOUS
    <2>1. (a + 1) * w <= b * w
      BY MultipleMonotone
    <2>2. (a + 1) * w = a * w + w
      OBVIOUS
    <2>3. a * w \in Nat /\ b * w \in Nat
      OBVIOUS
    <2> QED BY <2>1, <2>2, <2>3
  <1>2. b <= a => b * w <= a * w
    BY MultipleMonotone
  <1>3. a * w \in Nat /\ b * w \in Nat
    OBVIOUS
  <1> QED BY <1>1, <1>2, <1>3

LEMMA BlocksAre ==
  /\ ENTRIES[2] \in Nat \ {0} /\ SIZE[2] \in Nat \ {0}
  /\ SIZE[1] = ENTRIES[2] * SIZE[2] /\ SIZE[0] = ENTRIES[1] * SIZE[1]
  /\ ENTRIES[0] \in Nat \ {0} /\ ENTRIES[1] \in Nat /\ 4 < ENTRIES[1]
  /\ SIZE[1] \in Nat \ {0} /\ SIZE[0] \in Nat \ {0}
PROOF
  <1>1. \A level \in Levels : ENTRIES[level] \in Nat \ {0} /\ SIZE[level] \in Nat \ {0}
    BY EntriesAre, SizeIs
  <1>2. /\ ENTRIES[0] \in Nat \ {0} /\ ENTRIES[1] \in Nat \ {0} /\ ENTRIES[2] \in Nat \ {0}
        /\ SIZE[0] \in Nat \ {0} /\ SIZE[1] \in Nat \ {0} /\ SIZE[2] \in Nat \ {0}
    BY <1>1 DEF Levels
  <1>3. SIZE[1] = ENTRIES[2] * SIZE[2] /\ SIZE[0] = ENTRIES[1] * SIZE[1]
    BY SizeIs
  <1>4. 4 * SIZE[1] < ENTRIES[1] * SIZE[1]
    BY <1>3, BootAssumption
  <1>5. 4 < ENTRIES[1]
    <2> DEFINE e == ENTRIES[1]
    <2>1. e \in Nat /\ 4 \in Nat /\ SIZE[1] \in Nat \ {0}
      BY <1>2
    <2> HIDE DEF e
    <2>2. 4 * SIZE[1] < e * SIZE[1] <=> 4 < e
      BY <2>1, LessTimes
    <2> QED BY <1>4, <2>2 DEF e
  <1> QED BY <1>2, <1>3, <1>5

LEMMA MemoryIs ==
  /\ BLOCKS \in Nat /\ PageCount = BLOCKS * SIZE[2] /\ PageCount \in Nat
  /\ PERIPH_BLOCK \in Nat /\ PERIPH_START = PERIPH_BLOCK * SIZE[2] /\ PERIPH_START \in Nat
  /\ 3 * ENTRIES[2] < PERIPH_BLOCK /\ PERIPH_BLOCK < BLOCKS /\ PERIPH_START < PageCount
  /\ PageCount < SIZE[0] /\ PageCount < ADDRESSES /\ BLOCKS < COUNTS
  /\ ADDRESSES \in Nat /\ COUNTS \in Nat
PROOF
  <1> DEFINE e == ENTRIES[2]
             w == SIZE[2]
  <1>1. e \in Nat \ {0} /\ w \in Nat \ {0} /\ SIZE[1] = e * w
    BY BlocksAre
  <1>2. /\ PageCount = 4 * SIZE[1] /\ PageCount < SIZE[0] /\ PageCount < ADDRESSES
        /\ PERIPH_START \in (3 * SIZE[1] + 1) .. (PageCount - 1) /\ PERIPH_START % w = 0
        /\ 4 * e < COUNTS
    BY BootAssumption
  <1>3. ADDRESSES \in Nat /\ COUNTS \in Nat
    BY MmuAssumption
  <1>4. /\ 4 * (e * w) = (4 * e) * w /\ 3 * (e * w) = (3 * e) * w
        /\ (3 * e) * w \in Nat /\ 4 * e \in Nat /\ 3 * e \in Nat
    BY <1>1
  <1>5. BLOCKS \in Nat /\ PageCount = BLOCKS * w
    BY <1>1, <1>2, <1>4 DEF BLOCKS
  <1>6. PageCount \in Nat
    BY PageCountType
  <1>7. PERIPH_START \in Nat /\ (3 * e) * w < PERIPH_START /\ PERIPH_START < PageCount
    <2> DEFINE s == SIZE[1]
    <2>1. s \in Nat /\ 3 * s = (3 * e) * w
      BY <1>1, <1>4
    <2> HIDE DEF s, w, e
    <2>2. PERIPH_START \in (3 * s + 1) .. (PageCount - 1)
      BY <1>2 DEF s
    <2> QED BY <1>6, <2>1, <2>2
  <1>8. PERIPH_BLOCK \in Nat /\ PERIPH_START = PERIPH_BLOCK * w + (PERIPH_START % w)
    BY <1>1, <1>7, Division DEF PERIPH_BLOCK
  <1>9. PERIPH_START = PERIPH_BLOCK * w
    <2>1. PERIPH_BLOCK * w \in Nat
      BY <1>1, <1>8
    <2> HIDE DEF PERIPH_BLOCK, w
    <2> QED BY <1>2, <1>8, <2>1
  <1> HIDE DEF PERIPH_BLOCK, BLOCKS, e, w
  <1>10. 3 * e < PERIPH_BLOCK /\ PERIPH_BLOCK < BLOCKS
    BY <1>1, <1>4, <1>5, <1>7, <1>8, <1>9, LessTimes
  <1>11. BLOCKS < COUNTS
    BY <1>2 DEF BLOCKS, e
  <1> QED BY <1>2, <1>3, <1>5, <1>6, <1>7, <1>8, <1>9, <1>10, <1>11 DEF e, w

LEMMA PlacesAre ==
  /\ MMU_SPACE \in Nat \ {0} /\ IMAGE_END = MMU_SPACE + 3
  /\ Level1 = MMU_SPACE + 1 /\ Level2 = MMU_SPACE + 2
  /\ K!RESERVED_END \in Nat /\ Level2 < K!RESERVED_END /\ IMAGE_END < K!RESERVED_END
  /\ K!RESERVED_END + 3 <= PERIPH_START
  /\ K!TABLES_START = K!RESERVED_END + 3
PROOF
  <1>1. /\ K!RESERVED_END = IMAGE_END + BITMAP_PAGES
        /\ K!TABLES_START = K!RESERVED_END + 3
    BY DEF K!RESERVED_END, K!TABLES_START, KERNEL_TABLES
  <1>2. /\ MMU_SPACE \in Nat \ {0} /\ IMAGE_END = MMU_SPACE + 3
        /\ BITMAP_PAGES \in Nat \ {0} /\ K!TABLES_START <= PERIPH_START
    BY BootAssumption DEF NULL
  <1>3. Level1 = MMU_SPACE + 1 /\ Level2 = MMU_SPACE + 2
    BY DEF Level1, Level2
  <1> QED BY <1>1, <1>2, <1>3
\* Where block b lies in the last of n tables.
LEMMA InLastIs ==
  ASSUME NEW n \in 1 .. 4, NEW b \in Nat, InLast(n, b)
  PROVE  LET i == b - (n - 1) * ENTRIES[2]
         IN  /\ i \in Indices(2) /\ i \in Nat /\ b = (n - 1) * ENTRIES[2] + i
             /\ (b * SIZE[2]) \div SIZE[1] = n - 1
             /\ (b * SIZE[2]) % SIZE[1] = i * SIZE[2]
             /\ (i * SIZE[2]) \div SIZE[2] = i
PROOF
  <1> DEFINE e == ENTRIES[2]
             w == SIZE[2]
             k == n - 1
             i == b - k * e
  <1>1. e \in Nat \ {0} /\ w \in Nat \ {0} /\ SIZE[1] = e * w /\ SIZE[1] \in Nat \ {0}
    BY BlocksAre
  <1>2. k \in 0 .. 3 /\ n = k + 1 /\ n \in Nat
    OBVIOUS
  <1>3. k * e <= b /\ b < n * e
    BY DEF InLast
  <1> HIDE DEF e, w, k
  <1>4. k * e \in Nat /\ n * e = k * e + e
    BY <1>1, <1>2
  <1>5. i \in 0 .. (e - 1)
    BY <1>1, <1>3, <1>4
  <1>6. b = k * e + i
    BY <1>4
  <1> HIDE DEF i
  <1>7. i * w \in 0 .. (e * w - 1)
    <2>1. i * w < e * w
      BY <1>1, <1>5, LessTimes
    <2>2. i * w \in Nat /\ e * w \in Nat
      BY <1>1, <1>5
    <2> QED BY <2>1, <2>2
  <1>8. b * w = k * (e * w) + i * w
    <2>1. (k * e + i) * w = k * (e * w) + i * w
      BY <1>1, <1>2, <1>5
    <2> QED BY <1>6, <2>1
  <1>9. (b * w) \div SIZE[1] = k /\ (b * w) % SIZE[1] = i * w
    <2> DEFINE s == SIZE[1]
               r == i * w
    <2>1. s \in Nat \ {0} /\ r \in 0 .. (s - 1) /\ k \in Nat /\ b * w = k * s + r
      BY <1>1, <1>2, <1>7, <1>8
    <2> HIDE DEF s, r
    <2>2. (k * s + r) \div s = k /\ (k * s + r) % s = r
      BY <2>1, DivisionUnique
    <2> QED BY <2>1, <2>2 DEF s, r
  <1>10. (i * w) \div w = i
    <2>1. 0 \in 0 .. (w - 1) /\ i * w = i * w + 0
      BY <1>1, <1>5
    <2> QED BY <1>1, <1>5, <2>1, DivisionUnique
  <1> QED BY <1>5, <1>6, <1>9, <1>10 DEF e, w, k, i, Indices

\* Every block below the end of memory is below the first entry of level 0.
LEMMA BelowFirst ==
  ASSUME NEW b \in Nat, b < BLOCKS
  PROVE  /\ b * SIZE[2] \in Nat /\ b * SIZE[2] < PageCount
         /\ (b * SIZE[2]) \div SIZE[0] = 0 /\ (b * SIZE[2]) % SIZE[0] = b * SIZE[2]
         /\ b * SIZE[2] \in VAS /\ (b * SIZE[2]) % ADDRESSES = b * SIZE[2]
PROOF
  <1> DEFINE a == b * SIZE[2]
             s == SIZE[0]
  <1>1. a \in Nat /\ a < PageCount
    BY BlocksAre, MemoryIs, LessTimes
  <1>2. s \in Nat \ {0} /\ PageCount < s /\ PageCount \in Nat
    BY BlocksAre, MemoryIs
  <1>3. ADDRESSES \in Nat /\ PageCount < ADDRESSES
    BY MemoryIs
  <1>4. ENTRIES[0] * s \in Nat /\ s <= ENTRIES[0] * s
    <2>1. 1 \in Nat /\ 1 <= ENTRIES[0] /\ ENTRIES[0] \in Nat
      BY BlocksAre
    <2>2. 1 * s <= ENTRIES[0] * s
      BY <1>2, <2>1, MultipleMonotone
    <2>3. 1 * s = s
      BY <1>2
    <2> QED BY <1>2, <2>1, <2>2, <2>3
  <1> HIDE DEF a, s
  <1>5. a \in 0 .. (s - 1) /\ a = 0 * s + a
    BY <1>1, <1>2
  <1>6. a \div s = 0 /\ a % s = a
    BY <1>2, <1>5, DivisionUnique
  <1>7. a % ADDRESSES = a
    BY <1>1, <1>2, <1>3
  <1>8. a \in 0 .. (ENTRIES[0] * s - 1)
    BY <1>1, <1>2, <1>4
  <1> QED BY <1>1, <1>6, <1>7, <1>8 DEF a, s, VAS

\* The level 2 tables lie apart, and from the two above them.
LEMMA TablesAre ==
  ASSUME NEW n \in 1 .. 4
  PROVE  /\ \A i \in 0 .. 3 : TableOf(i) \in Nat /\ TableOf(i) \notin {MMU_SPACE, Level1, NULL}
         /\ \A i, j \in 0 .. 3 : TableOf(i) = TableOf(j) => i = j
         /\ MMU_SPACE # Level1
         /\ \A i \in 0 .. (n - 1) :
              TableOf(i) \in (MMU_SPACE .. Level2) \cup (K!RESERVED_END .. (K!RESERVED_END + n - 2))
         /\ MMU_SPACE \in MMU_SPACE .. Level2 /\ Level1 \in MMU_SPACE .. Level2
PROOF
  <1> DEFINE r == K!RESERVED_END
  <1>1. /\ MMU_SPACE \in Nat \ {0} /\ Level1 = MMU_SPACE + 1 /\ Level2 = MMU_SPACE + 2
        /\ r \in Nat /\ Level2 < r
    BY PlacesAre
  <1>2. \A i \in 0 .. 3 : TableOf(i) = IF i = 0 THEN Level2 ELSE r + i - 1
    BY DEF TableOf
  <1> HIDE DEF r
  <1>3. \A i \in 0 .. 3 : TableOf(i) \in Nat /\ Level2 <= TableOf(i) /\ (i > 0 => TableOf(i) > Level2)
    BY <1>1, <1>2
  <1>4. \A i, j \in 0 .. 3 : TableOf(i) = TableOf(j) => i = j
    BY <1>1, <1>2
  <1>5. \A i \in 0 .. (n - 1) : TableOf(i) \in (MMU_SPACE .. Level2) \cup (r .. (r + n - 2))
    BY <1>1, <1>2
  <1> QED BY <1>1, <1>3, <1>4, <1>5 DEF r, NULL

LEMMA EntryBits ==
  /\ EMPTY_ENTRY.bits = 0
  /\ \A p : mmu_create_table_entry(p).bits = TABLE /\ mmu_create_table_entry(p).page = p
  /\ \A b : /\ BlockOf(b).bits = BLOCK /\ BlockOf(b).page = b * SIZE[2]
            /\ BlockOf(b).type = TypeOf(b) /\ BlockOf(b) # EMPTY_ENTRY
  /\ BLOCK = 1 /\ TABLE = 3
  BY DEF EMPTY_ENTRY, mmu_create_table_entry, BlockOf, BLOCK, TABLE

\* The indices of a virtual page, and the block it is in.
LEMMA IndicesAre ==
  ASSUME NEW va \in VAS
  PROVE  LET b == va \div SIZE[2]
         IN  /\ b \in Nat /\ va = b * SIZE[2] + (va % SIZE[2]) /\ va \in Nat
             /\ \A level \in 0 .. 2 : Index(level, va) \in Indices(level)
             /\ Index(0, va) # 0 => BLOCKS <= b
             /\ Index(0, va) = 0 => b = Index(1, va) * ENTRIES[2] + Index(2, va)
PROOF
  <1> DEFINE w == SIZE[2]
             e == ENTRIES[2]
             s == SIZE[1]
             z == SIZE[0]
             b == va \div w
             o == va % w
             j == b \div e
             i == b % e
  <1>1. /\ w \in Nat \ {0} /\ e \in Nat \ {0} /\ s \in Nat \ {0} /\ z \in Nat \ {0}
        /\ s = e * w /\ z = ENTRIES[1] * s /\ ENTRIES[1] \in Nat \ {0} /\ ENTRIES[0] \in Nat \ {0}
    <2>1. ENTRIES[1] \in Nat /\ 4 < ENTRIES[1]
      BY BlocksAre
    <2> QED BY <2>1, BlocksAre
  <1>2. va \in Nat /\ va < ENTRIES[0] * z
    <2>1. ENTRIES[0] * z \in Nat
      BY <1>1
    <2> QED BY <2>1 DEF VAS
  <1>3. b \in Nat /\ o \in 0 .. (w - 1) /\ va = b * w + o
    BY <1>1, <1>2, Division
  <1> HIDE DEF w, b, o
  <1>4. j \in Nat /\ i \in 0 .. (e - 1) /\ b = j * e + i
    BY <1>1, <1>3, Division
  <1> HIDE DEF e, s, z, j, i
  <1>5. i * w + o \in 0 .. (s - 1)
    <2>1. (i + 1) * w <= e * w
      BY <1>1, <1>4, MultipleMonotone
    <2>2. (i + 1) * w = i * w + w /\ i * w \in Nat /\ e * w \in Nat
      BY <1>1, <1>4
    <2> QED BY <1>1, <1>3, <2>1, <2>2
  <1>6. va = j * s + (i * w + o)
    <2>1. (j * e + i) * w = j * (e * w) + i * w
      BY <1>1, <1>4
    <2>2. j * (e * w) \in Nat /\ i * w \in Nat
      BY <1>1, <1>4
    <2> QED BY <1>1, <1>3, <1>4, <2>1, <2>2
  <1>7. va \div s = j
    <2> DEFINE r == i * w + o
    <2>1. r \in 0 .. (s - 1) /\ va = j * s + r
      BY <1>5, <1>6
    <2> HIDE DEF r
    <2>2. (j * s + r) \div s = j
      BY <1>1, <1>4, <2>1, DivisionUnique
    <2> QED BY <2>1, <2>2
  <1>8. va \div z \in Nat /\ va % z \in 0 .. (z - 1) /\ va = (va \div z) * z + (va % z)
    BY <1>1, <1>2, Division
  <1>9. va \div z < ENTRIES[0]
    <2> DEFINE q == va \div z
               f == ENTRIES[0]
    <2>1. q * z <= va /\ q \in Nat /\ f \in Nat /\ va < f * z
      <3> DEFINE r == va % z
      <3>1. q \in Nat /\ r \in Nat /\ va = q * z + r /\ f \in Nat
        BY <1>1, <1>8
      <3>2. va < f * z
        BY <1>2
      <3> HIDE DEF q, f, r
      <3>3. q * z \in Nat
        BY <1>1, <3>1
      <3> QED BY <3>1, <3>2, <3>3
    <2> HIDE DEF q, f
    <2>2. q * z \in Nat /\ f * z \in Nat
      BY <1>1, <2>1
    <2>3. q * z < f * z
      BY <1>2, <2>1, <2>2
    <2>4. q < f
      BY <1>1, <2>1, <2>3, LessTimes
    <2> QED BY <2>4 DEF q, f
  <1>10. Index(0, va) = va \div z /\ Index(0, va) \in Indices(0)
    <2> DEFINE q == va \div z
               f == ENTRIES[0]
    <2>1. q \in Nat /\ q < f /\ f \in Nat \ {0} /\ q = 0 * f + q
      BY <1>1, <1>8, <1>9
    <2>2. Index(0, va) = q % f /\ Indices(0) = 0 .. (f - 1)
      BY DEF Index, Indices, z
    <2> HIDE DEF q, f
    <2>3. q % f = q
      BY <2>1
    <2> QED BY <2>1, <2>2, <2>3 DEF q
  <1>11. Index(1, va) = j % ENTRIES[1] /\ Index(2, va) = i
    BY <1>7 DEF Index, s, i, b, w, e
  <1>12. j % ENTRIES[1] \in 0 .. (ENTRIES[1] - 1)
    BY <1>1, <1>4, Division
  <1>13. \A level \in 0 .. 2 : Index(level, va) \in Indices(level)
    <2>1. Index(1, va) \in Indices(1) /\ Index(2, va) \in Indices(2)
      BY <1>4, <1>11, <1>12 DEF Indices, e
    <2> QED BY <1>10, <2>1
  <1>14. ASSUME Index(0, va) # 0 PROVE BLOCKS <= b
    <2> DEFINE q == va \div z
    <2>1. q \in Nat \ {0} /\ q * z <= va
      <3>1. q \in Nat /\ q # 0
        BY <1>8, <1>10, <1>14
      <3>2. q * z \in Nat
        BY <1>1, <3>1
      <3> QED BY <1>2, <1>8, <3>1, <3>2
    <2> HIDE DEF q
    <2>2. z <= q * z /\ q * z \in Nat
      <3>1. 1 * z <= q * z
        BY <1>1, <2>1, MultipleMonotone
      <3> QED BY <1>1, <2>1, <3>1
    <2>3. BLOCKS \in Nat /\ BLOCKS * w < z /\ BLOCKS * w \in Nat
      BY <1>1, MemoryIs DEF w, z
    <2> SUFFICES ASSUME b < BLOCKS PROVE FALSE
      BY <1>3, <2>3
    <2>4. (b + 1) * w <= BLOCKS * w
      BY <1>1, <1>3, <2>3, MultipleMonotone
    <2>5. (b + 1) * w = b * w + w /\ b * w \in Nat
      BY <1>1, <1>3
    <2> QED BY <1>1, <1>2, <1>3, <2>1, <2>2, <2>3, <2>4, <2>5
  <1>15. ASSUME Index(0, va) = 0 PROVE j % ENTRIES[1] = j
    <2>1. va < z
      BY <1>1, <1>2, <1>8, <1>10, <1>15
    <2>2. j < ENTRIES[1]
      <3> DEFINE f == ENTRIES[1]
      <3>1. j * s <= va /\ j * s \in Nat /\ f * s \in Nat /\ f \in Nat
        BY <1>1, <1>2, <1>4, <1>5, <1>6
      <3>2. va < f * s
        BY <1>1, <2>1
      <3> HIDE DEF f
      <3>3. j * s < f * s
        BY <1>2, <3>1, <3>2
      <3>4. j < f
        BY <1>1, <1>4, <3>1, <3>3, LessTimes
      <3> QED BY <3>4 DEF f
    <2> QED BY <1>1, <1>4, <2>2
  <1>16. Index(0, va) = 0 => b = Index(1, va) * e + Index(2, va)
    BY <1>4, <1>11, <1>15
  <1> QED BY <1>2, <1>3, <1>13, <1>14, <1>16 DEF w, b, o, e

\* What the MMU makes of tables that map the first m blocks of memory.
LEMMA TranslateIs ==
  ASSUME NEW n \in 1 .. 4, NEW m \in Nat, Built(n, m), m <= n * ENTRIES[2],
         level0_table = MMU_SPACE, NEW va \in VAS
  PROVE  Translate(tables, va) =
           IF va \div SIZE[2] < m THEN [page |-> va, type |-> TypeOf(va \div SIZE[2])] ELSE UNMAPPED
PROOF
  <1> DEFINE b == va \div SIZE[2]
             i0 == Index(0, va)
             i1 == Index(1, va)
             i2 == Index(2, va)
  <1>1. /\ b \in Nat /\ va = b * SIZE[2] + (va % SIZE[2]) /\ va \in Nat
        /\ i0 \in Indices(0) /\ i1 \in Indices(1) /\ i2 \in Indices(2)
        /\ i0 # 0 => BLOCKS <= b
        /\ i0 = 0 => b = i1 * ENTRIES[2] + i2
    BY IndicesAre
  <1>2. m <= BLOCKS
    <2> DEFINE e == ENTRIES[2]
    <2>1. e \in Nat /\ n \in Nat /\ n <= 4 /\ 4 \in Nat
      BY BlocksAre
    <2> HIDE DEF e
    <2>2. n * e <= 4 * e /\ n * e \in Nat /\ 4 * e \in Nat
      BY <2>1, MultipleMonotone
    <2> QED BY <2>2 DEF e, BLOCKS
  <1> HIDE DEF b, i0, i1, i2
  <1>3. /\ tables[MMU_SPACE][i0] =
             IF i0 = 0 THEN mmu_create_table_entry(Level1) ELSE EMPTY_ENTRY
        /\ tables[Level1][i1] =
             IF i1 < n THEN mmu_create_table_entry(TableOf(i1)) ELSE EMPTY_ENTRY
    BY <1>1 DEF Built, Directory
  <1>4. CASE i0 # 0
    <2>1. tables[MMU_SPACE][Index(0, va)] = EMPTY_ENTRY
      BY <1>3, <1>4 DEF i0
    <2>2. Stop(tables, va) = [level |-> 0, table |-> MMU_SPACE]
      BY <2>1, EntryBits DEF Stop
    <2>3. Translate(tables, va) = UNMAPPED
      BY <2>1, <2>2, EntryBits DEF Translate
    <2>4. ~(b < m)
      BY <1>1, <1>2, <1>4, MemoryIs
    <2> QED BY <2>3, <2>4 DEF b
  <1>5. CASE i0 = 0
    <2>1. tables[MMU_SPACE][Index(0, va)] = mmu_create_table_entry(Level1)
      BY <1>3, <1>5 DEF i0
    <2>2. i1 \in Nat /\ i2 \in Nat /\ i2 < ENTRIES[2] /\ ENTRIES[2] \in Nat /\ n \in Nat
      BY <1>1, BlocksAre DEF Indices
    <2>3. CASE ~(i1 < n)
      <3>1. tables[Level1][Index(1, va)] = EMPTY_ENTRY
        BY <1>3, <2>3 DEF i1
      <3>2. Stop(tables, va) = [level |-> 1, table |-> Level1]
        BY <2>1, <3>1, EntryBits DEF Stop
      <3>3. Translate(tables, va) = UNMAPPED
        BY <3>1, <3>2, EntryBits DEF Translate
      <3>4. n * ENTRIES[2] <= i1 * ENTRIES[2]
        BY <2>2, <2>3, MultipleMonotone
      <3>5. n * ENTRIES[2] \in Nat /\ i1 * ENTRIES[2] \in Nat
        BY <2>2
      <3>6. ~(b < m)
        BY <1>1, <1>5, <2>2, <3>4, <3>5
      <3> QED BY <3>3, <3>6 DEF b
    <2>4. CASE i1 < n
      <3>1. tables[Level1][Index(1, va)] = mmu_create_table_entry(TableOf(i1))
        BY <1>3, <2>4 DEF i1
      <3>2. tables[TableOf(i1)] = Filled(i1, m)
        BY <2>2, <2>4 DEF Built
      <3>3. tables[TableOf(i1)][Index(2, va)] = IF b < m THEN BlockOf(b) ELSE EMPTY_ENTRY
        BY <1>1, <1>5, <3>2 DEF Filled, i2
      <3>4. tables[TableOf(i1)][Index(2, va)].bits # TABLE
        BY <3>3, EntryBits
      <3>5. Stop(tables, va) = [level |-> 2, table |-> TableOf(i1)]
        <4>1. /\ tables[MMU_SPACE][Index(0, va)].bits = TABLE
              /\ tables[MMU_SPACE][Index(0, va)].page = Level1
          BY <2>1, EntryBits
        <4>2. /\ tables[Level1][Index(1, va)].bits = TABLE
              /\ tables[Level1][Index(1, va)].page = TableOf(i1)
          BY <3>1, EntryBits
        <4> QED BY <3>4, <4>1, <4>2 DEF Stop
      <3>6. CASE b < m
        <4>1. tables[TableOf(i1)][Index(2, va)] = BlockOf(b)
          BY <3>3, <3>6
        <4>2. Translate(tables, va) = [page |-> b * SIZE[2] + (va % SIZE[2]), type |-> TypeOf(b)]
          BY <3>5, <4>1, EntryBits DEF Translate
        <4> QED BY <1>1, <3>6, <4>2 DEF b
      <3>7. CASE ~(b < m)
        <4>1. Translate(tables, va) = UNMAPPED
          BY <3>3, <3>5, <3>7, EntryBits DEF Translate
        <4> QED BY <3>7, <4>1 DEF b
      <3> QED BY <3>6, <3>7
    <2> QED BY <2>3, <2>4
  <1> QED BY <1>4, <1>5

-----------------------------------------------------------------------------
(***************************************************************************)
(* Changes of the kernel's tables.                                         *)
(***************************************************************************)
LEMMA BlockEntryIs ==
  ASSUME NEW b \in Nat
  PROVE  mmu_create_block_entry(2, b * SIZE[2], TypeOf(b)) = BlockOf(b)
PROOF
  <1> DEFINE w == SIZE[2]
             a == b * w
  <1>1. w \in Nat \ {0}
    BY BlocksAre
  <1>2. a \in Nat /\ a % w = 0
    <2> HIDE DEF w
    <2>1. 0 \in 0 .. (w - 1) /\ b * w = b * w + 0 /\ b * w \in Nat
      BY <1>1
    <2> QED BY <1>1, <2>1, DivisionUnique
  <1> HIDE DEF a
  <1>3. a - (a % w) = a
    BY <1>2
  <1> QED BY <1>3 DEF mmu_create_block_entry, BlockOf, a

\* What is below a table's first block fills it.
LEMMA FilledStays ==
  ASSUME NEW i \in Nat, NEW m \in Nat, NEW l \in Nat, (i + 1) * ENTRIES[2] <= m, m <= l
  PROVE  Filled(i, m) = Filled(i, l)
PROOF
  <1> DEFINE n == ENTRIES[2]
  <1>1. n \in Nat
    BY BlocksAre
  <1>2. ASSUME NEW e \in Indices(2) PROVE i * n + e < m /\ i * n + e < l
    <2>1. e \in Nat /\ e < n
      BY <1>1 DEF Indices
    <2> HIDE DEF n
    <2>2. (i + 1) * n = i * n + n /\ i * n \in Nat
      BY <1>1
    <2>3. (i + 1) * n <= m
      BY DEF n
    <2> QED BY <1>1, <2>1, <2>2, <2>3
  <1> QED BY <1>2 DEF Filled

LEMMA EmptyTable ==
  ASSUME NEW i \in Nat
  PROVE  Filled(i, i * ENTRIES[2]) = Zeroed(2)
PROOF
  <1> DEFINE n == ENTRIES[2]
             k == i * n
  <1>1. n \in Nat /\ k \in Nat
    BY BlocksAre
  <1>2. \A e \in Indices(2) : e \in Nat
    BY <1>1 DEF Indices
  <1> HIDE DEF k
  <1>3. \A e \in Indices(2) : ~(k + e < k)
    BY <1>1, <1>2
  <1> QED BY <1>3 DEF Filled, Zeroed, k

\* One more block, at the end of the last table.
LEMMA BlockAdded ==
  ASSUME NEW n \in 1 .. 4, NEW m \in Nat, Built(n, m), InLast(n, m),
         tables' = [tables EXCEPT ![TableOf(n - 1)][m - (n - 1) * ENTRIES[2]] = BlockOf(m)]
  PROVE  Built(n, m + 1)'
PROOF
  <1> DEFINE k == n - 1
             t == TableOf(k)
             i == m - k * ENTRIES[2]
  <1>1. k \in 0 .. 3 /\ k \in 0 .. (n - 1) /\ n = k + 1 /\ k \in Nat
    OBVIOUS
  <1>2. /\ i \in Indices(2) /\ i \in Nat /\ m = k * ENTRIES[2] + i
    BY InLastIs
  <1>3. /\ \A j \in 0 .. 3 : TableOf(j) \notin {MMU_SPACE, Level1}
        /\ \A j, l \in 0 .. 3 : TableOf(j) = TableOf(l) => j = l
        /\ t \in DOMAIN tables /\ MMU_SPACE \in DOMAIN tables /\ Level1 \in DOMAIN tables
        /\ \A j \in 0 .. (n - 1) : TableOf(j) \in DOMAIN tables
    BY <1>1, TablesAre DEF Built
  <1>4. tables[t] = Filled(k, m)
    BY <1>1 DEF Built
  <1>5. DOMAIN tables[t] = Indices(2)
    BY <1>4 DEF Filled
  <1>6. tables' = [tables EXCEPT ![t][i] = BlockOf(m)]
    OBVIOUS
  <1>7. k * ENTRIES[2] <= m
    BY DEF InLast
  <1> HIDE DEF t, i, k
  <1>8. /\ DOMAIN tables' = DOMAIN tables
        /\ \A p \in DOMAIN tables \ {t} : tables'[p] = tables[p]
        /\ tables'[t] = [tables[t] EXCEPT ![i] = BlockOf(m)]
    BY <1>3, <1>6
  <1>9. tables'[t] = Filled(k, m + 1)
    <2>1. ENTRIES[2] \in Nat /\ k * ENTRIES[2] \in Nat
      BY <1>1, BlocksAre
    <2> DEFINE c == k * ENTRIES[2]
    <2>2. \A e \in Indices(2) : e \in Nat
      BY <2>1 DEF Indices
    <2>3. Filled(k, m + 1) =
            [e \in Indices(2) |-> IF c + e < m + 1 THEN BlockOf(c + e) ELSE EMPTY_ENTRY]
      BY DEF Filled
    <2>4. tables[t] = [e \in Indices(2) |-> IF c + e < m THEN BlockOf(c + e) ELSE EMPTY_ENTRY]
      BY <1>4 DEF Filled
    <2>5. m = c + i /\ c \in Nat
      BY <1>2, <2>1
    <2> HIDE DEF c
    <2>6. \A e \in Indices(2) : e # i => (c + e < m <=> c + e < m + 1)
      BY <1>2, <2>2, <2>5
    <2>7. c + i < m + 1
      BY <1>2, <2>5
    <2> QED BY <1>2, <1>8, <2>3, <2>4, <2>5, <2>6, <2>7
  <1>10. ASSUME NEW j \in 0 .. (n - 1) PROVE tables'[TableOf(j)] = Filled(j, m + 1)
    <2>1. CASE j = k
      BY <1>9, <2>1 DEF t
    <2>2. CASE j # k
      <3>1. j \in 0 .. 3 /\ j \in Nat /\ j + 1 <= k /\ TableOf(j) # t
        BY <1>1, <1>3, <2>2 DEF t
      <3>2. (j + 1) * ENTRIES[2] <= k * ENTRIES[2]
        <4>1. j + 1 \in Nat /\ k \in Nat /\ j + 1 <= k /\ ENTRIES[2] \in Nat
          BY <1>1, <3>1, BlocksAre
        <4> QED BY <4>1, MultipleMonotone
      <3>3. ENTRIES[2] \in Nat /\ (j + 1) * ENTRIES[2] \in Nat /\ k * ENTRIES[2] \in Nat
        BY <1>1, <3>1, BlocksAre
      <3>4. (j + 1) * ENTRIES[2] <= m /\ m <= m + 1 /\ m + 1 \in Nat
        BY <1>7, <3>2, <3>3
      <3>5. Filled(j, m) = Filled(j, m + 1)
        BY <3>1, <3>4, FilledStays
      <3>6. tables'[TableOf(j)] = tables[TableOf(j)] /\ tables[TableOf(j)] = Filled(j, m)
        BY <1>3, <1>8, <3>1 DEF Built
      <3> QED BY <3>5, <3>6
    <2> QED BY <2>1, <2>2
  <1>11. /\ tables'[MMU_SPACE] = tables[MMU_SPACE] /\ tables'[Level1] = tables[Level1]
    BY <1>1, <1>3, <1>8 DEF t
  <1> QED BY <1>8, <1>10, <1>11 DEF Built

\* One more table, when the last one is full.
LEMMA TableAdded ==
  ASSUME NEW n \in 1 .. 3, NEW m \in Nat, Built(n, m), m = n * ENTRIES[2],
         tables' = [WithTable(TableOf(n), Zeroed(2))
                      EXCEPT ![Level1][n] = mmu_create_table_entry(TableOf(n))]
  PROVE  Built(n + 1, m)'
PROOF
  <1> DEFINE t == TableOf(n)
             r == K!RESERVED_END
             e == mmu_create_table_entry(t)
  <1>1. n \in 0 .. 3 /\ n \in Nat /\ n \in 1 .. 4 /\ n + 1 \in 1 .. 4
    OBVIOUS
  <1>2. /\ t \notin {MMU_SPACE, Level1} /\ MMU_SPACE # Level1
        /\ \A j, l \in 0 .. 3 : TableOf(j) = TableOf(l) => j = l
        /\ \A j \in 0 .. 3 : TableOf(j) \notin {MMU_SPACE, Level1}
        /\ MMU_SPACE \in DOMAIN tables /\ Level1 \in DOMAIN tables
        /\ \A j \in 0 .. (n - 1) : TableOf(j) \in DOMAIN tables
    BY <1>1, TablesAre DEF Built
  <1>3. t = r + n - 1 /\ r \in Nat
    BY <1>1, PlacesAre DEF TableOf
  <1>4. tables[Level1] = Directory(n) /\ n \in Indices(1)
    <2>1. n < ENTRIES[1] /\ ENTRIES[1] \in Nat
      BY <1>1, BlocksAre
    <2> QED BY <1>1, <2>1 DEF Built, Indices
  <1>5. DOMAIN tables[Level1] = Indices(1)
    BY <1>4 DEF Directory
  <1>6. tables' = [WithTable(t, Zeroed(2)) EXCEPT ![Level1][n] = e]
    OBVIOUS
  <1>7. DOMAIN tables = (MMU_SPACE .. Level2) \cup (r .. (r + n - 2))
    BY DEF Built
  <1> HIDE DEF t, e, r
  <1>8. /\ DOMAIN tables' = DOMAIN tables \cup {t}
        /\ tables'[t] = Zeroed(2)
        /\ \A p \in DOMAIN tables \ {t, Level1} : tables'[p] = tables[p]
        /\ tables'[Level1] = [tables[Level1] EXCEPT ![n] = e]
    BY <1>2, <1>6 DEF WithTable
  <1>9. DOMAIN tables' = (MMU_SPACE .. Level2) \cup (r .. (r + (n + 1) - 2))
    <2>1. (r .. (r + n - 2)) \cup {t} = r .. (r + (n + 1) - 2)
      BY <1>1, <1>3
    <2> QED BY <1>7, <1>8, <2>1
  <1>10. tables'[Level1] = Directory(n + 1)
    <2>1. \A i \in Indices(1) : i \in Int
      BY BlocksAre DEF Indices
    <2>2. \A i \in Indices(1) : i < n + 1 <=> i < n \/ i = n
      BY <1>1, <2>1
    <2>3. ~(n < n) /\ n < n + 1
      BY <1>1
    <2> QED BY <1>4, <1>8, <2>2, <2>3 DEF Directory, t, e
  <1>11. ASSUME NEW j \in 0 .. ((n + 1) - 1) PROVE tables'[TableOf(j)] = Filled(j, m)
    <2>1. CASE j = n
      BY <1>1, <1>8, <2>1, EmptyTable DEF t
    <2>2. CASE j # n
      <3>1. j \in 0 .. (n - 1) /\ j \in 0 .. 3
        BY <1>1, <2>2
      <3>2. TableOf(j) \in DOMAIN tables \ {t, Level1}
        BY <1>1, <1>2, <2>2, <3>1 DEF t
      <3> QED BY <1>8, <3>1, <3>2 DEF Built
    <2> QED BY <2>1, <2>2
  <1>12. tables'[MMU_SPACE] = tables[MMU_SPACE]
    BY <1>2, <1>8
  <1> QED BY <1>9, <1>10, <1>11, <1>12 DEF Built, r

-----------------------------------------------------------------------------
(***************************************************************************)
(* The boot code.                                                          *)
(***************************************************************************)
LEMMA SetupStep ==
  ASSUME Unbuilt, step = "setup_tables", setup_tables
  PROVE  BootBuilds(0)'
PROOF
  <1> DEFINE r == K!RESERVED_END
  <1>1. /\ MMU_SPACE \in Nat \ {0} /\ Level1 = MMU_SPACE + 1 /\ Level2 = MMU_SPACE + 2
        /\ r \in Nat
    BY PlacesAre
  <1>2. tables = [p \in MMU_SPACE .. Level2 |-> Zeroed(p - MMU_SPACE)]
    BY DEF Unbuilt
  <1>3. /\ MMU_SPACE - MMU_SPACE = 0 /\ Level1 - MMU_SPACE = 1 /\ Level2 - MMU_SPACE = 2
        /\ MMU_SPACE \in MMU_SPACE .. Level2 /\ Level1 \in MMU_SPACE .. Level2
        /\ Level2 \in MMU_SPACE .. Level2
        /\ MMU_SPACE # Level1 /\ Level2 # Level1 /\ MMU_SPACE # Level2
    BY <1>1
  <1>4. /\ tables[MMU_SPACE] = Zeroed(0) /\ tables[Level1] = Zeroed(1) /\ tables[Level2] = Zeroed(2)
        /\ DOMAIN tables = MMU_SPACE .. Level2
    BY <1>2, <1>3
  <1>5. tables' = [tables EXCEPT ![MMU_SPACE][0] = mmu_create_table_entry(Level1),
                                 ![Level1][0] = mmu_create_table_entry(Level2)]
    BY DEF setup_tables
  <1>6. /\ DOMAIN tables' = MMU_SPACE .. Level2
        /\ tables'[MMU_SPACE] = [Zeroed(0) EXCEPT ![0] = mmu_create_table_entry(Level1)]
        /\ tables'[Level1] = [Zeroed(1) EXCEPT ![0] = mmu_create_table_entry(Level2)]
        /\ tables'[Level2] = Zeroed(2)
    BY <1>3, <1>4, <1>5
  <1>7. TableOf(0) = Level2
    BY DEF TableOf
  <1>8. \A level \in {0, 1} : DOMAIN Zeroed(level) = Indices(level)
    BY DEF Zeroed
  <1>9. tables'[MMU_SPACE] =
          [i \in Indices(0) |-> IF i = 0 THEN mmu_create_table_entry(Level1) ELSE EMPTY_ENTRY]
    BY <1>6 DEF Zeroed
  <1>10. tables'[Level1] = Directory(1)
    <2>1. \A i \in Indices(1) : i < 1 <=> i = 0
      BY BlocksAre DEF Indices
    <2> QED BY <1>6, <1>7, <2>1 DEF Zeroed, Directory
  <1>11. \A i \in 0 .. (1 - 1) : tables'[TableOf(i)] = Filled(i, 0)
    <2>1. 0 * ENTRIES[2] = 0
      BY BlocksAre
    <2>2. Filled(0, 0) = Zeroed(2)
      BY <2>1, EmptyTable
    <2>3. \A i \in 0 .. (1 - 1) : i = 0
      OBVIOUS
    <2> QED BY <1>6, <1>7, <2>2, <2>3
  <1>12. DOMAIN tables' = (MMU_SPACE .. Level2) \cup (r .. (r + 1 - 2))
    <2>1. r .. (r + 1 - 2) = {}
      BY <1>1
    <2> QED BY <1>6, <2>1
  <1>13. Built(1, 0)'
    BY <1>9, <1>10, <1>11, <1>12 DEF Built
  <1>14. 0 * SIZE[2] = 0 /\ 0 < ENTRIES[2]
    BY BlocksAre
  <1> QED BY <1>13, <1>14 DEF BootBuilds, Unbuilt, Idling, setup_tables, request, cursor

LEMMA EntriesStep ==
  ASSUME NEW m \in 0 .. ENTRIES[2], BootBuilds(m), create_entries_loop
  PROVE  m + 1 \in 0 .. ENTRIES[2] /\ BootBuilds(m + 1)'
PROOF
  <1> DEFINE e == ENTRIES[2]
             w == SIZE[2]
  <1>1. e \in Nat \ {0} /\ w \in Nat \ {0} /\ SIZE[1] = e * w
    BY BlocksAre
  <1>2. m \in Nat /\ x0 = m * w /\ m < e /\ Built(1, m)
    BY <1>1 DEF BootBuilds, create_entries_loop
  <1>3. InLast(1, m)
    BY <1>1, <1>2 DEF InLast
  <1>4. (m * w) \div w = m
    <2>1. 0 \in 0 .. (w - 1) /\ m * w = m * w + 0
      BY <1>1, <1>2
    <2> QED BY <1>1, <1>2, <2>1, DivisionUnique
  <1>5. TypeOf(m) = NORMAL
    <2>1. m < PERIPH_BLOCK
      BY <1>2, BlocksAre, MemoryIs
    <2> QED BY <2>1 DEF TypeOf
  <1>6. mmu_create_block_entry(2, x0, NORMAL) = BlockOf(m)
    BY <1>2, <1>5, BlockEntryIs
  <1>7. tables' = [tables EXCEPT ![Level2][m] = BlockOf(m)]
    BY <1>2, <1>4, <1>6 DEF create_entries_loop
  <1>8. TableOf(1 - 1) = Level2 /\ m - (1 - 1) * e = m /\ 1 \in 1 .. 4
    BY <1>1, <1>2 DEF TableOf
  <1>9. Built(1, m + 1)'
    BY <1>2, <1>3, <1>7, <1>8, BlockAdded
  <1>10. x0' = (m + 1) * w
    <2>1. x0' = m * w + w
      BY <1>2 DEF create_entries_loop
    <2> HIDE DEF w
    <2>2. (m + 1) * w = m * w + w
      BY <1>1, <1>2
    <2> QED BY <2>1, <2>2
  <1>11. x0' < SIZE[1] <=> m + 1 < e
    <2>1. m + 1 \in Nat /\ e \in Nat
      BY <1>1, <1>2
    <2> HIDE DEF w, e
    <2>2. (m + 1) * w < e * w <=> m + 1 < e
      BY <1>1, <2>1, LessTimes
    <2> QED BY <1>1, <1>10, <2>2
  <1>12. m + 1 \in 0 .. e
    BY <1>1, <1>2
  <1>13. IF m + 1 < e THEN step' = "create_entries_loop" ELSE step' = "setup_registers" /\ m + 1 = e
    <2>1. ~(m + 1 < e) => m + 1 = e
      BY <1>1, <1>2
    <2> QED BY <1>11, <2>1 DEF create_entries_loop
  <1> QED BY <1>9, <1>10, <1>12, <1>13 DEF BootBuilds, Idling, create_entries_loop, request, cursor

\* The allocator's ranges, and nothing else, when memory_init has claimed them.
LEMMA ReservedIs == K!ReservedRanges = Claims(1)
PROOF
  <1> DEFINE r == K!RESERVED_END
  <1>1. /\ IMAGE_END \in Nat \ {0} /\ r \in Nat /\ IMAGE_END < r /\ r <= PERIPH_START
        /\ PERIPH_START \in Nat /\ PageCount \in Nat /\ PERIPH_START < PageCount
    BY PlacesAre, MemoryIs
  <1>2. \A b, f, t : K!memory_allocator_claim_range(b, f, t) = memory_allocator_claim_range(b, f, t)
    BY DEF K!memory_allocator_claim_range, memory_allocator_claim_range,
           K!memory_allocator_claim_multiple_pages, memory_allocator_claim_multiple_pages,
           K!Touched, Touched, K!EntryPages, EntryPages,
           K!memory_allocator_convert_to_mask, memory_allocator_convert_to_mask,
           K!ChunkSize, ChunkSize, K!FirstChunk, FirstChunk, K!Handled, Handled,
           K!Iterations, Iterations, K!Least, Least, K!Offsets, Offsets, K!Entries, Entries
  <1>3. ASSUME NEW b, NEW f \in Nat, NEW t \in Nat, f < t, t <= PageCount
        PROVE  memory_allocator_claim_range(b, f, t) = b \cup (f .. (t - 1))
    <2>1. t - f \in Nat /\ f + (t - f) <= PageCount /\ t # f /\ f + (t - f) - 1 = t - 1
      BY <1>1, <1>3
    <2>2. memory_allocator_claim_multiple_pages(b, f, t - f) = b \cup Run(f, t - f)
      BY <2>1, ClaimMultipleIsExact
    <2> QED BY <2>1, <2>2 DEF memory_allocator_claim_range, Run
  <1>4. K!memory_allocator_init = {} \cup (IMAGE_END .. (r - 1))
    <2>1. IMAGE_END < r /\ r <= PageCount
      BY <1>1
    <2> QED BY <1>1, <1>2, <1>3, <2>1 DEF K!memory_allocator_init
  <1>5. K!ReservedRanges =
          ({} \cup (IMAGE_END .. (r - 1))) \cup (0 .. (IMAGE_END - 1))
            \cup (PERIPH_START .. (PageCount - 1))
    <2>1. 0 < IMAGE_END /\ IMAGE_END <= PageCount /\ 0 \in Nat
      BY <1>1
    <2>2. \A b : memory_allocator_claim_range(b, 0, IMAGE_END) = b \cup (0 .. (IMAGE_END - 1))
      BY <1>1, <1>3, <2>1
    <2>3. \A b : memory_allocator_claim_range(b, PERIPH_START, PageCount)
                   = b \cup (PERIPH_START .. (PageCount - 1))
      BY <1>1, <1>3
    <2>4. K!PageCount = PageCount
      BY DEF K!PageCount, PageCount
    <2> QED BY <1>2, <1>4, <2>2, <2>3, <2>4 DEF K!ReservedRanges
  <1>6. (IMAGE_END .. (r - 1)) \cup (0 .. (IMAGE_END - 1)) = 0 .. (r + 1 - 2)
    BY <1>1
  <1> QED BY <1>5, <1>6 DEF Claims

LEMMA MemoryInitStep ==
  ASSUME SwitchedOn, memory_init
  PROVE  MemoryInit(1, ENTRIES[2])' /\ Reached(ENTRIES[2]) = ENTRIES[2]
PROOF
  <1>1. ENTRIES[2] \in Nat \ {0}
    BY BlocksAre
  <1>2. Reached(ENTRIES[2]) = ENTRIES[2] /\ Needed(1, ENTRIES[2])
    BY <1>1 DEF Reached, Needed
  <1>3. /\ Built(1, ENTRIES[2])' /\ bitmap' = Claims(1) /\ level0_table' = MMU_SPACE
        /\ step' = "normal_memory_region_1" /\ Idling'
    BY ReservedIs DEF SwitchedOn, memory_init, Idling, request, cursor, Built
  <1>4. Ends' = ENTRIES[2] /\ step' \in DOMAIN After \cup {"done"}
    BY <1>3 DEF Ends, After
  <1> QED BY <1>2, <1>3, <1>4 DEF MemoryInit

-----------------------------------------------------------------------------
(***************************************************************************)
(* memory_init: where a walk is, and which entry it finds.                 *)
(***************************************************************************)
LEMMA LimitsAre ==
  ASSUME NEW n \in 1 .. 4, NEW b \in 0 .. BLOCKS
  PROVE  /\ Ends \in Nat /\ Ends <= BLOCKS /\ ENTRIES[2] <= Ends
         /\ Reached(b) \in Nat /\ b <= Reached(b)
         /\ b \in Nat /\ n \in Nat /\ n * ENTRIES[2] \in Nat /\ (n - 1) * ENTRIES[2] \in Nat
         /\ n * ENTRIES[2] = (n - 1) * ENTRIES[2] + ENTRIES[2]
PROOF
  <1> DEFINE e == ENTRIES[2]
  <1>1. /\ e \in Nat \ {0} /\ BLOCKS \in Nat /\ PERIPH_BLOCK \in Nat
        /\ PERIPH_BLOCK < BLOCKS /\ 3 * e < PERIPH_BLOCK
    BY BlocksAre, MemoryIs
  <1> HIDE DEF e
  <1>2. e <= PERIPH_BLOCK /\ e <= BLOCKS
    BY <1>1
  <1>3. Ends \in Nat /\ Ends <= BLOCKS /\ e <= Ends
    BY <1>1, <1>2 DEF Ends, e
  <1>4. Reached(b) \in Nat /\ b <= Reached(b)
    BY <1>1 DEF Reached, e
  <1>5. n * e \in Nat /\ (n - 1) * e \in Nat /\ n * e = (n - 1) * e + e
    BY <1>1
  <1> QED BY <1>1, <1>3, <1>4, <1>5 DEF e

\* The next block is one of the last table, or the first of the next.
LEMMA NextBlock ==
  ASSUME NEW n \in 1 .. 4, NEW b \in 0 .. BLOCKS, Needed(n, b), b < BLOCKS
  PROVE  InLast(n, b) \/ (n \in 1 .. 3 /\ b = n * ENTRIES[2] /\ Reached(b) = b /\ InLast(n + 1, b))
PROOF
  <1> DEFINE e == ENTRIES[2]
  <1>1. e \in Nat \ {0} /\ BLOCKS = 4 * e
    BY BlocksAre DEF BLOCKS
  <1>2. /\ b \in Nat /\ n * e \in Nat /\ (n - 1) * e \in Nat /\ n * e = (n - 1) * e + e
    BY LimitsAre
  <1>3. (n - 1) * e < Reached(b) /\ Reached(b) <= n * e
    BY DEF Needed
  <1>4. Reached(b) = IF b < e THEN e ELSE b
    BY DEF Reached
  <1> HIDE DEF e
  <1>5. CASE b < e
    <2>1. (n - 1) * e < 1 * e
      BY <1>1, <1>3, <1>4, <1>5
    <2>2. n - 1 \in Nat /\ 1 \in Nat
      OBVIOUS
    <2>3. n - 1 < 1
      BY <1>1, <2>1, <2>2, LessTimes
    <2>4. n = 1
      BY <2>3
    <2>5. (1 - 1) * e = 0 /\ 1 * e = e
      BY <1>1
    <2> QED BY <1>2, <1>5, <2>4, <2>5 DEF InLast, e
  <1>6. CASE ~(b < e) /\ b < n * e
    <2>1. (n - 1) * e <= b
      BY <1>2, <1>3, <1>4, <1>6
    <2> QED BY <1>6, <2>1 DEF InLast, e
  <1>7. CASE ~(b < e) /\ ~(b < n * e)
    <2>1. b = n * e /\ Reached(b) = b
      BY <1>2, <1>3, <1>4, <1>7
    <2>2. n < 4
      <3>1. n * e < 4 * e /\ n \in Nat /\ 4 \in Nat
        BY <1>1, <2>1
      <3> QED BY <1>1, <3>1, LessTimes
    <2>3. (n + 1) - 1 = n /\ (n + 1) * e = n * e + e
      BY <1>1
    <2>4. InLast(n + 1, b)
      BY <1>1, <1>2, <2>1, <2>3 DEF InLast, e
    <2> QED BY <2>1, <2>2, <2>4 DEF e
  <1> QED BY <1>5, <1>6, <1>7

LEMMA CallFromIs ==
  ASSUME NEW b \in 0 .. BLOCKS, CallFrom(b)
  PROVE  /\ b < BLOCKS /\ todo # <<>> /\ TheCall.address = b * SIZE[2]
         /\ TheCall.count = Ends - b /\ TheCall.level = 2
         /\ region.type = TypeOf(b)
PROOF
  <1>1. Ends \in Nat /\ Ends <= BLOCKS /\ b \in Nat /\ BLOCKS \in Nat
    BY LimitsAre, MemoryIs
  <1>2. b < Ends
    BY DEF CallFrom
  <1>3. b < BLOCKS /\ b \in b .. (Ends - 1)
    BY <1>1, <1>2
  <1>4. todo = <<[address |-> b * SIZE[2], count |-> Ends - b, level |-> 2]>>
    BY DEF CallFrom
  <1>5. TheCall = [address |-> b * SIZE[2], count |-> Ends - b, level |-> 2] /\ todo # <<>>
    BY <1>4 DEF TheCall
  <1> QED BY <1>3, <1>5 DEF CallFrom

\* Which entry a walk from level 0 finds.
LEMMA DescendingIs ==
  ASSUME NEW n \in 1 .. 4, NEW b \in 0 .. BLOCKS, Built(n, Reached(b)), Needed(n, b), Descending(b)
  PROVE  \/ /\ walk.level = 0 /\ walk.table = MMU_SPACE
            /\ walk.rest % SIZE[walk.level] = b * SIZE[2]
            /\ Entry = mmu_create_table_entry(Level1)
         \/ /\ walk.level = 1 /\ walk.table = Level1 /\ InLast(n, b)
            /\ walk.rest % SIZE[walk.level] = (b - (n - 1) * ENTRIES[2]) * SIZE[2]
            /\ Entry = mmu_create_table_entry(TableOf(n - 1))
         \/ /\ walk.level = 1 /\ walk.table = Level1 /\ n \in 1 .. 3 /\ InLast(n + 1, b)
            /\ b = n * ENTRIES[2] /\ Reached(b) = b
            /\ walk.rest % SIZE[walk.level] = (b - n * ENTRIES[2]) * SIZE[2]
            /\ Idx = n /\ Entry = EMPTY_ENTRY
PROOF
  <1> DEFINE a == b * SIZE[2]
  <1>1. b < BLOCKS /\ b \in Nat /\ CallFrom(b)
    BY CallFromIs, LimitsAre DEF Descending
  <1>2. walk \in {[table |-> MMU_SPACE, level |-> 0, rest |-> a],
                 [table |-> Level1, level |-> 1, rest |-> a]}
    BY DEF Descending
  <1>3. a \div SIZE[0] = 0 /\ a % SIZE[0] = a
    BY <1>1, BelowFirst
  <1> HIDE DEF a
  <1>4. CASE walk = [table |-> MMU_SPACE, level |-> 0, rest |-> a]
    <2>1. Idx = 0 /\ walk.rest % SIZE[walk.level] = a /\ walk.table = MMU_SPACE /\ walk.level = 0
      BY <1>3, <1>4 DEF Idx
    <2>2. 0 \in Indices(0)
      BY BlocksAre DEF Indices
    <2>3. Entry = mmu_create_table_entry(Level1)
      BY <2>1, <2>2 DEF Entry, Built
    <2> QED BY <2>1, <2>3 DEF a
  <1>5. CASE walk = [table |-> Level1, level |-> 1, rest |-> a]
    <2>1. Idx = a \div SIZE[1] /\ walk.rest % SIZE[walk.level] = a % SIZE[1]
          /\ walk.table = Level1 /\ walk.level = 1
      BY <1>5 DEF Idx
    <2>2. \A i \in 0 .. 3 : i \in Indices(1)
      BY BlocksAre DEF Indices
    <2>3. tables[Level1] = Directory(n)
      BY DEF Built
    <2>4. CASE InLast(n, b)
      <3>1. a \div SIZE[1] = n - 1 /\ a % SIZE[1] = (b - (n - 1) * ENTRIES[2]) * SIZE[2]
        BY <1>1, <2>4, InLastIs DEF a
      <3>2. n - 1 \in 0 .. 3 /\ n - 1 < n
        OBVIOUS
      <3>3. Entry = mmu_create_table_entry(TableOf(n - 1))
        BY <2>1, <2>2, <2>3, <3>1, <3>2 DEF Entry, Directory
      <3> QED BY <2>1, <2>4, <3>1, <3>3
    <2>5. CASE n \in 1 .. 3 /\ b = n * ENTRIES[2] /\ Reached(b) = b /\ InLast(n + 1, b)
      <3>1. n + 1 \in 1 .. 4 /\ (n + 1) - 1 = n
        BY <2>5
      <3>2. a \div SIZE[1] = n /\ a % SIZE[1] = (b - n * ENTRIES[2]) * SIZE[2]
        BY <1>1, <2>5, <3>1, InLastIs DEF a
      <3>3. n \in 0 .. 3 /\ ~(n < n)
        BY <2>5
      <3>4. Entry = EMPTY_ENTRY /\ Idx = n
        BY <2>1, <2>2, <2>3, <3>2, <3>3 DEF Entry, Directory
      <3> QED BY <2>1, <2>5, <3>2, <3>4
    <2> QED BY <1>1, <2>4, <2>5, NextBlock
  <1> QED BY <1>2, <1>4, <1>5

\* A loop over units: where it is, and the entry at hand.
LEMMA FillingIs ==
  ASSUME NEW n \in 1 .. 4, NEW b \in 0 .. BLOCKS, NEW a \in 0 .. b, Built(n, Reached(b)), Filling(n, a, b)
  PROVE  /\ walk.level = 2 /\ walk.table = TableOf(n - 1) /\ a \in 0 .. BLOCKS
         /\ Idx = a - (n - 1) * ENTRIES[2] /\ Idx \in Nat
         /\ unit = b - (n - 1) * ENTRIES[2] /\ unit \in Nat
         /\ unit < EndUnit <=> b < Ends /\ b < n * ENTRIES[2]
         /\ unit = EndUnit => /\ unit_count = b - a /\ a < b
         /\ unit < EndUnit =>
              /\ InLast(n, b) /\ b < BLOCKS
              /\ requested_addr = b * SIZE[2] /\ region.type = TypeOf(b)
              /\ UnitEntry = IF b < ENTRIES[2] THEN BlockOf(b) ELSE EMPTY_ENTRY
PROOF
  <1> DEFINE e == ENTRIES[2]
             w == SIZE[2]
             c == (n - 1) * e
             d == n * e
  <1>1. /\ e \in Nat \ {0} /\ w \in Nat \ {0} /\ b \in Nat /\ a \in Nat /\ a \in 0 .. BLOCKS
        /\ BLOCKS \in Nat
        /\ c \in Nat /\ d = c + e /\ Ends \in Nat /\ Ends <= BLOCKS
    <2>1. e \in Nat \ {0} /\ w \in Nat \ {0} /\ BLOCKS \in Nat
      BY BlocksAre, MemoryIs
    <2>2. c \in Nat /\ d = c + e /\ Ends \in Nat /\ Ends <= BLOCKS /\ b \in Nat
      BY LimitsAre
    <2>3. a \in Nat /\ a \in 0 .. BLOCKS
      BY <2>1, <2>2
    <2> QED BY <2>1, <2>2, <2>3
  <1>2. /\ InLast(n, a) /\ CallFrom(a) /\ a <= b /\ b <= Ends /\ b <= d
        /\ walk = [table |-> TableOf(n - 1), level |-> 2, rest |-> (a - c) * w]
        /\ unit = b - c
    BY DEF Filling, AtTable
  <1>3. c <= a /\ a < d
    BY <1>2 DEF InLast
  <1>4. TheCall.count = Ends - a /\ TheCall.address = a * w /\ a < Ends
    BY <1>1, <1>2, CallFromIs DEF CallFrom
  <1>5. ((a - c) * w) \div w = a - c
    BY <1>1, <1>2, InLastIs
  <1>6. Idx = a - c /\ walk.level = 2 /\ walk.table = TableOf(n - 1)
    BY <1>2, <1>5 DEF Idx
  <1> HIDE DEF c, d, e, w
  <1>7. unit_count = IF e - (a - c) < Ends - a THEN e - (a - c) ELSE Ends - a
    BY <1>4, <1>6 DEF unit_count, Least, e
  <1>8. Idx \in Nat /\ unit \in Nat
    BY <1>1, <1>2, <1>3, <1>6
  <1>9. EndUnit = (a - c) + unit_count
    BY <1>6 DEF EndUnit
  <1>10. unit < EndUnit <=> b < Ends /\ b < d
    BY <1>1, <1>2, <1>3, <1>4, <1>7, <1>9
  <1>11. unit = EndUnit => unit_count = b - a /\ a < b
    BY <1>1, <1>2, <1>3, <1>4, <1>7, <1>9
  <1>12. ASSUME unit < EndUnit
         PROVE  /\ InLast(n, b) /\ b < BLOCKS /\ requested_addr = b * w /\ region.type = TypeOf(b)
                /\ UnitEntry = IF b < e THEN BlockOf(b) ELSE EMPTY_ENTRY
    <2>1. b < Ends /\ b < d /\ b < BLOCKS
      BY <1>1, <1>10, <1>12
    <2>2. InLast(n, b)
      BY <1>1, <1>2, <1>3, <2>1 DEF InLast, c, d, e
    <2>3. region.type = TypeOf(b)
      <3>1. b \in a .. (Ends - 1)
        BY <1>1, <1>2, <2>1
      <3> QED BY <1>2, <3>1 DEF CallFrom
    <2>4. requested_addr = b * w
      <3>1. requested_addr = (a * w + ((b - c) - (a - c)) * w) % ADDRESSES
        BY <1>2, <1>4, <1>6 DEF requested_addr, w
      <3>2. a * w + ((b - c) - (a - c)) * w = b * w
        <4>1. (b - c) - (a - c) = b - a
          BY <1>1
        <4>2. a * w + (b - a) * w = b * w
          BY <1>1
        <4> QED BY <4>1, <4>2
      <3>3. (b * w) % ADDRESSES = b * w
        BY <1>1, <2>1, BelowFirst DEF w
      <3> QED BY <3>1, <3>2, <3>3
    <2>5. /\ b - c \in Indices(2) /\ b = c + (b - c)
      BY <1>1, <2>2, InLastIs DEF c, e
    <2>6. tables[TableOf(n - 1)] = Filled(n - 1, Reached(b))
      BY DEF Built
    <2>7. UnitEntry = Filled(n - 1, Reached(b))[b - c]
      BY <1>2, <1>6, <2>6 DEF UnitEntry
    <2>8. Filled(n - 1, Reached(b))[b - c] =
            IF c + (b - c) < Reached(b) THEN BlockOf(c + (b - c)) ELSE EMPTY_ENTRY
      BY <2>5 DEF Filled, c, e
    <2>9. b < Reached(b) <=> b < e
      BY <1>1 DEF Reached, e
    <2>10. UnitEntry = IF b < e THEN BlockOf(b) ELSE EMPTY_ENTRY
      BY <2>5, <2>7, <2>8, <2>9
    <2> QED BY <2>1, <2>2, <2>3, <2>4, <2>10
  <1> QED BY <1>1, <1>2, <1>6, <1>8, <1>10, <1>11, <1>12 DEF c, d, e, w

-----------------------------------------------------------------------------
(***************************************************************************)
(* The steps of memory_init: each of them keeps what is mapped.            *)
(***************************************************************************)
\* The next state, with no less mapped than in this one.
GoesOn(b) ==
  \E n2 \in 1 .. 4, b2 \in 0 .. BLOCKS : MemoryInit(n2, b2)' /\ Reached(b) <= Reached(b2)

InMap == step \in {"peripherals_region", "normal_memory_region_2", "done"}

LEMMA ReachedStays ==
  ASSUME NEW n \in 1 .. 4, NEW b \in 0 .. BLOCKS, MemoryInit(n, b)'
  PROVE  GoesOn(b)
PROOF
  <1>1. Reached(b) <= Reached(b)
    BY LimitsAre
  <1> QED BY <1>1 DEF GoesOn

LEMMA InsertReturnsMaps ==
  ASSUME NEW n \in 1 .. 4, NEW b \in 0 .. BLOCKS, Built(n, Reached(b)), bitmap = Claims(n),
         level0_table = MMU_SPACE, InMap, Inserting(b), Needed(n, b), InsertReturns, UNCHANGED step
  PROVE  GoesOn(b)
PROOF
  <1>1. todo = <<>> /\ b = Ends
    BY DEF InsertReturns, Inserting, CallFrom
  <1>2. /\ UNCHANGED <<bitmap, tables, level0_table, todo, walk, unit, step>> /\ pc' = "idle"
    BY DEF InsertReturns, memory, cursor
  <1>3. Built(n, Reached(b))' /\ Ends' = Ends
    BY <1>2 DEF Built, Ends
  <1>4. Idling'
    BY <1>1, <1>2 DEF Idling, Inserting
  <1>5. step' \in DOMAIN After \cup {"done"} /\ Needed(n, b)'
    BY <1>2 DEF InMap, After, Needed, Reached
  <1>6. MemoryInit(n, b)'
    BY <1>1, <1>2, <1>3, <1>4, <1>5 DEF MemoryInit
  <1> QED BY <1>6, ReachedStays

LEMMA TraverseStartsMaps ==
  ASSUME NEW n \in 1 .. 4, NEW b \in 0 .. BLOCKS, Built(n, Reached(b)), bitmap = Claims(n),
         level0_table = MMU_SPACE, InMap, Inserting(b), Needed(n, b), TraverseStarts, UNCHANGED step
  PROVE  GoesOn(b) /\ fault' = "none"
PROOF
  <1>1. CallFrom(b)
    BY DEF TraverseStarts, Inserting
  <1>2. b < BLOCKS /\ TheCall.address = b * SIZE[2] /\ b \in Nat
    BY <1>1, CallFromIs, LimitsAre
  <1>3. TheCall.address \in VAS
    BY <1>2, BelowFirst
  <1>4. /\ UNCHANGED <<bitmap, tables, level0_table, todo, region, unit, step>> /\ pc' = "traverse"
        /\ walk' = [table |-> MMU_SPACE, level |-> 0, rest |-> b * SIZE[2]] /\ fault' = "none"
    BY <1>2, <1>3 DEF TraverseStarts, memory, request
  <1>5. Built(n, Reached(b))' /\ CallFrom(b)'
    BY <1>1, <1>4 DEF Built, CallFrom, Ends
  <1>6. Descending(b)'
    BY <1>4, <1>5 DEF Descending, Inserting
  <1>7. MemoryInit(n, b)'
    BY <1>4, <1>5, <1>6 DEF MemoryInit, InMap
  <1> QED BY <1>4, <1>7, ReachedStays

LEMMA TraverseTableMaps ==
  ASSUME NEW n \in 1 .. 4, NEW b \in 0 .. BLOCKS, Built(n, Reached(b)), bitmap = Claims(n),
         level0_table = MMU_SPACE, InMap, Descending(b), Needed(n, b), TraverseTable, UNCHANGED step
  PROVE  GoesOn(b)
PROOF
  <1>1. /\ UNCHANGED <<bitmap, tables, level0_table, todo, region, unit, step, pc>>
        /\ walk' = [table |-> Entry.page, level |-> walk.level + 1, rest |-> walk.rest % SIZE[walk.level]]
        /\ Entry.bits = TABLE
    BY DEF TraverseTable, memory, request, Enter
  <1>2. Built(n, Reached(b))' /\ CallFrom(b)'
    BY <1>1 DEF Built, CallFrom, Ends, Descending
  <1>3. CASE walk.level = 0 /\ walk.rest % SIZE[walk.level] = b * SIZE[2]
             /\ Entry = mmu_create_table_entry(Level1)
    <2>1. walk' = [table |-> Level1, level |-> 1, rest |-> b * SIZE[2]]
      BY <1>1, <1>3, EntryBits
    <2>2. Descending(b)'
      BY <1>1, <1>2, <2>1 DEF Descending
    <2> QED BY <1>1, <1>2, <2>2, ReachedStays DEF MemoryInit, InMap
  <1>4. CASE walk.level = 1 /\ InLast(n, b)
             /\ walk.rest % SIZE[walk.level] = (b - (n - 1) * ENTRIES[2]) * SIZE[2]
             /\ Entry = mmu_create_table_entry(TableOf(n - 1))
    <2>1. walk' = [table |-> TableOf(n - 1), level |-> 2, rest |-> (b - (n - 1) * ENTRIES[2]) * SIZE[2]]
      BY <1>1, <1>4, EntryBits
    <2>2. Arrived(n, b)'
      BY <1>1, <1>2, <1>4, <2>1 DEF Descending, Arrived, AtTable, InLast
    <2> QED BY <1>1, <1>2, <2>2, ReachedStays DEF MemoryInit, InMap
  <1> QED BY <1>1, <1>3, <1>4, DescendingIs, EntryBits

\* The page of a new table is the one after the last.
LEMMA NextTableIs ==
  ASSUME NEW n \in 1 .. 3, bitmap = Claims(n)
  PROVE  /\ NewPage.page = TableOf(n) /\ NewPage.bitmap = Claims(n + 1)
         /\ TableOf(n) # NULL
PROOF
  <1> DEFINE r == K!RESERVED_END
             p == r + n - 1
  <1>1. r \in Nat \ {0} /\ r + 3 <= PERIPH_START
    BY PlacesAre
  <1>2. PERIPH_START \in Nat /\ PageCount \in Nat /\ PERIPH_START < PageCount
    BY MemoryIs
  <1>3. TableOf(n) = p
    BY DEF TableOf
  <1>4. bitmap = (0 .. (r + n - 2)) \cup (PERIPH_START .. (PageCount - 1))
    BY DEF Claims
  <1>5. Claims(n + 1) = (0 .. (r + (n + 1) - 2)) \cup (PERIPH_START .. (PageCount - 1))
    BY DEF Claims
  <1> HIDE DEF r
  <1>6. p \in Pages /\ p \notin bitmap /\ (\A q \in Pages : q < p => q \in bitmap) /\ p # NULL
    BY <1>1, <1>2, <1>4 DEF Pages, NULL
  <1>7. bitmap \cup {p} = Claims(n + 1)
    BY <1>1, <1>2, <1>4, <1>5
  <1>8. NewPage = [page |-> p, bitmap |-> bitmap \cup {p}]
    <2> HIDE DEF p
    <2>1. NewPage = memory_allocator_claim_page(bitmap)
      BY DEF NewPage, memory_allocator_claim_pages
    <2> QED BY <1>6, <2>1, ClaimPageIsLowest
  <1> QED BY <1>3, <1>6, <1>7, <1>8

LEMMA TraverseEmptyMaps ==
  ASSUME NEW n \in 1 .. 4, NEW b \in 0 .. BLOCKS, Built(n, Reached(b)), bitmap = Claims(n),
         level0_table = MMU_SPACE, InMap, Descending(b), Needed(n, b), TraverseEmpty, UNCHANGED step
  PROVE  GoesOn(b) /\ fault' = "none"
PROOF
  <1>1. /\ UNCHANGED <<level0_table, todo, region, unit, step, pc>> /\ Entry.bits = 0
        /\ LinkNewTable
    BY DEF TraverseEmpty, request
  <1>2. /\ walk.level = 1 /\ walk.table = Level1 /\ n \in 1 .. 3 /\ InLast(n + 1, b)
        /\ b = n * ENTRIES[2] /\ Reached(b) = b
        /\ walk.rest % SIZE[walk.level] = (b - n * ENTRIES[2]) * SIZE[2]
        /\ Idx = n
    BY <1>1, DescendingIs, EntryBits DEF TABLE
  <1>3. /\ NewPage.page = TableOf(n) /\ NewPage.bitmap = Claims(n + 1) /\ TableOf(n) # NULL
    BY <1>2, NextTableIs
  <1>4. /\ bitmap' = Claims(n + 1) /\ fault' = "none"
        /\ walk' = [table |-> TableOf(n), level |-> 2, rest |-> (b - n * ENTRIES[2]) * SIZE[2]]
    BY <1>1, <1>2, <1>3 DEF LinkNewTable, Enter, Claimed
  <1>5. tables' = [WithTable(TableOf(n), Zeroed(2))
                     EXCEPT ![Level1][n] = mmu_create_table_entry(TableOf(n))]
    BY <1>1, <1>2, <1>3 DEF LinkNewTable
  <1>6. Built(n + 1, b)'
    BY <1>2, <1>5, LimitsAre, TableAdded
  <1>7. n + 1 \in 1 .. 4 /\ (n + 1) - 1 = n
    BY <1>2
  <1>8. Built(n + 1, Reached(b))'
    BY <1>2, <1>6 DEF Built, Reached
  <1>9. CallFrom(b)'
    BY <1>1 DEF CallFrom, Ends, Descending
  <1>10. Arrived(n + 1, b)'
    BY <1>1, <1>2, <1>4, <1>7, <1>9 DEF Descending, Arrived, AtTable, InLast
  <1>11. MemoryInit(n + 1, b)'
    BY <1>1, <1>4, <1>8, <1>10 DEF MemoryInit, InMap
  <1> QED BY <1>4, <1>7, <1>11, ReachedStays

LEMMA UnitsStartMaps ==
  ASSUME NEW n \in 1 .. 4, NEW b \in 0 .. BLOCKS, Built(n, Reached(b)), bitmap = Claims(n),
         level0_table = MMU_SPACE, InMap, Arrived(n, b), UnitsStart, UNCHANGED step
  PROVE  GoesOn(b)
PROOF
  <1>1. /\ UNCHANGED <<bitmap, tables, level0_table, todo, region, walk, step>>
        /\ pc' = "units" /\ unit' = Idx
    BY DEF UnitsStart, memory, request
  <1>2. /\ CallFrom(b) /\ InLast(n, b) /\ AtTable(n, b)
    BY DEF Arrived
  <1>3. Idx = b - (n - 1) * ENTRIES[2]
    <2>1. b \in Nat
      BY LimitsAre
    <2> QED BY <1>2, <2>1, InLastIs DEF Idx, AtTable
  <1>4. b <= b /\ b <= Ends /\ b <= n * ENTRIES[2] /\ b \in 0 .. b
    <2>1. b < Ends /\ b < n * ENTRIES[2]
      BY <1>2 DEF CallFrom, InLast
    <2> QED BY <2>1, LimitsAre
  <1>5. Built(n, Reached(b))' /\ CallFrom(b)' /\ AtTable(n, b)' /\ InLast(n, b)' /\ Ends' = Ends
    BY <1>1, <1>2 DEF Built, CallFrom, Ends, AtTable, InLast
  <1>6. Filling(n, b, b)'
    BY <1>1, <1>3, <1>4, <1>5 DEF Filling
  <1>7. MemoryInit(n, b)'
    BY <1>1, <1>4, <1>5, <1>6 DEF MemoryInit, InMap
  <1> QED BY <1>7, ReachedStays

\* A turn of the loop over units, with the next block mapped at its end.
LEMMA UnitMaps ==
  ASSUME NEW n \in 1 .. 4, NEW b \in 0 .. BLOCKS, NEW a \in 0 .. b, bitmap = Claims(n),
         level0_table = MMU_SPACE, InMap, Filling(n, a, b), Built(n, Reached(b)),
         unit < EndUnit, NextUnit, UNCHANGED <<bitmap, step>>, Built(n, Reached(b + 1))'
  PROVE  GoesOn(b)
PROOF
  <1>1. /\ b < Ends /\ b < n * ENTRIES[2] /\ b < BLOCKS /\ a \in 0 .. BLOCKS
        /\ unit = b - (n - 1) * ENTRIES[2]
    BY FillingIs
  <1>2. /\ b \in Nat /\ Ends \in Nat /\ BLOCKS \in Nat /\ ENTRIES[2] \in Nat
        /\ n * ENTRIES[2] \in Nat /\ (n - 1) * ENTRIES[2] \in Nat
    BY LimitsAre, MemoryIs, BlocksAre
  <1>3. /\ UNCHANGED <<level0_table, todo, region, walk, pc>> /\ unit' = unit + 1
    BY DEF NextUnit, request
  <1>4. /\ b + 1 \in 0 .. BLOCKS /\ b + 1 <= Ends /\ b + 1 <= n * ENTRIES[2]
        /\ a \in 0 .. (b + 1) /\ a <= b + 1
        /\ unit' = (b + 1) - (n - 1) * ENTRIES[2]
    BY <1>1, <1>2, <1>3
  <1>5. /\ CallFrom(a)' /\ InLast(n, a)' /\ AtTable(n, a)' /\ pc' = "units" /\ Ends' = Ends
    BY <1>3 DEF Filling, CallFrom, Ends, AtTable, InLast
  <1>6. Filling(n, a, b + 1)'
    BY <1>4, <1>5 DEF Filling
  <1>7. MemoryInit(n, b + 1)'
    BY <1>3, <1>4, <1>6 DEF MemoryInit, InMap
  <1>8. Reached(b) <= Reached(b + 1)
    BY <1>2 DEF Reached
  <1> QED BY <1>4, <1>7, <1>8 DEF GoesOn

LEMMA UnitCreatedMaps ==
  ASSUME NEW n \in 1 .. 4, NEW b \in 0 .. BLOCKS, NEW a \in 0 .. b,
         Built(n, Reached(b)), bitmap = Claims(n),
         level0_table = MMU_SPACE, InMap, Filling(n, a, b), UnitCreated, UNCHANGED step
  PROVE  GoesOn(b) /\ fault' = "none"
PROOF
  <1>1. /\ unit < EndUnit /\ UnitEntry = EMPTY_ENTRY /\ NextUnit
        /\ bitmap' = UnitSpace.bitmap /\ fault' = Got(UnitSpace, SIZE[walk.level])
        /\ tables' = [tables EXCEPT ![walk.table][unit] = Piece(walk.level, UnitSpace.page, region.type)]
    BY DEF UnitCreated, InUnits
  <1>2. /\ walk.level = 2 /\ walk.table = TableOf(n - 1) /\ unit = b - (n - 1) * ENTRIES[2]
        /\ InLast(n, b) /\ requested_addr = b * SIZE[2] /\ region.type = TypeOf(b)
        /\ UnitEntry = IF b < ENTRIES[2] THEN BlockOf(b) ELSE EMPTY_ENTRY
    BY <1>1, FillingIs
  <1>3. ~(b < ENTRIES[2])
    BY <1>1, <1>2, EntryBits
  <1>4. UnitSpace = [page |-> b * SIZE[2], bitmap |-> bitmap] /\ Got(UnitSpace, SIZE[walk.level]) = "none"
    <2>1. MAP_TYPE # "ALLOC"
      BY BootAssumption
    <2>2. UnitSpace = [page |-> b * SIZE[2], bitmap |-> bitmap]
      BY <1>2, <2>1 DEF UnitSpace, get_phys_space
    <2>3. Got(UnitSpace, SIZE[walk.level]) = "none"
      BY <2>1 DEF Got
    <2> QED BY <2>2, <2>3
  <1>5. Piece(2, b * SIZE[2], TypeOf(b)) = BlockOf(b)
    BY LimitsAre, BlockEntryIs DEF Piece
  <1>6. tables' = [tables EXCEPT ![TableOf(n - 1)][b - (n - 1) * ENTRIES[2]] = BlockOf(b)]
    BY <1>1, <1>2, <1>4, <1>5
  <1>7. Reached(b) = b /\ b \in Nat /\ Reached(b + 1) = b + 1
    BY <1>3, LimitsAre, BlocksAre DEF Reached
  <1>8. Built(n, b + 1)'
    BY <1>2, <1>6, <1>7, BlockAdded
  <1>9. Built(n, Reached(b + 1))'
    BY <1>7, <1>8 DEF Built, Reached
  <1>10. bitmap' = bitmap
    BY <1>1, <1>4
  <1> QED BY <1>1, <1>4, <1>9, <1>10, UnitMaps

LEMMA UnitOverriddenMaps ==
  ASSUME NEW n \in 1 .. 4, NEW b \in 0 .. BLOCKS, NEW a \in 0 .. b,
         Built(n, Reached(b)), bitmap = Claims(n),
         level0_table = MMU_SPACE, InMap, Filling(n, a, b), UnitOverridden, UNCHANGED step
  PROVE  GoesOn(b)
PROOF
  <1>1. /\ unit < EndUnit /\ UnitEntry # EMPTY_ENTRY /\ NextUnit /\ bitmap' = bitmap
        /\ tables' = [tables EXCEPT ![walk.table][unit].type = region.type]
    BY DEF UnitOverridden, InUnits
  <1>2. /\ InLast(n, b) /\ region.type = TypeOf(b) /\ walk.table = TableOf(n - 1)
        /\ unit = b - (n - 1) * ENTRIES[2]
        /\ UnitEntry = IF b < ENTRIES[2] THEN BlockOf(b) ELSE EMPTY_ENTRY
    BY <1>1, FillingIs
  <1>3. b < ENTRIES[2] /\ UnitEntry = BlockOf(b)
    BY <1>1, <1>2
  <1>4. Reached(b + 1) = Reached(b)
    <2>1. b \in Nat /\ ENTRIES[2] \in Nat
      BY LimitsAre, BlocksAre
    <2> QED BY <1>3, <2>1 DEF Reached
  <1>5. tables' = [tables EXCEPT ![walk.table] = tables[walk.table]]
    <2>1. tables[walk.table][unit] = BlockOf(b)
      BY <1>3 DEF UnitEntry
    <2>2. [BlockOf(b) EXCEPT !.type = region.type] = BlockOf(b)
      BY <1>2 DEF BlockOf
    <2>3. tables' = [tables EXCEPT ![walk.table] = [tables[walk.table] EXCEPT ![unit] =
                       [tables[walk.table][unit] EXCEPT !.type = region.type]]]
      BY <1>1
    <2>4. [tables[walk.table] EXCEPT ![unit] = BlockOf(b)] = tables[walk.table]
      <3>1. tables[walk.table] = Filled(n - 1, Reached(b))
        BY <1>2 DEF Built
      <3> DEFINE f == tables[walk.table]
      <3>2. f = [x \in DOMAIN f |-> f[x]]
        BY <3>1 DEF Filled
      <3>3. f[unit] = BlockOf(b)
        BY <2>1
      <3> HIDE DEF f
      <3>4. [f EXCEPT ![unit] = BlockOf(b)] = f
        BY <3>2, <3>3
      <3> QED BY <3>4 DEF f
    <2>5. tables' = [tables EXCEPT ![walk.table] = tables[walk.table]]
      BY <2>1, <2>2, <2>3, <2>4
    <2> QED BY <2>5
  <1>6. Built(n, Reached(b + 1))'
    <2>1. /\ walk.table \in DOMAIN tables /\ DOMAIN tables' = DOMAIN tables
          /\ \A p \in DOMAIN tables : tables'[p] = tables[p]
      <3>1. n - 1 \in 0 .. (n - 1)
        OBVIOUS
      <3>2. walk.table \in DOMAIN tables
        BY <1>2, <3>1, TablesAre DEF Built
      <3> QED BY <1>5, <3>2
    <2>2. /\ MMU_SPACE \in DOMAIN tables /\ Level1 \in DOMAIN tables
          /\ \A i \in 0 .. (n - 1) : TableOf(i) \in DOMAIN tables
      BY TablesAre DEF Built
    <2> QED BY <1>4, <2>1, <2>2 DEF Built, Reached
  <1> QED BY <1>1, <1>6, UnitMaps

-----------------------------------------------------------------------------
(***************************************************************************)
(* The TLB.                                                                *)
(***************************************************************************)
\* The blocks that are mapped fit in the tables.
LEMMA WithinTables ==
  ASSUME NEW n \in 1 .. 4, NEW b \in 0 .. BLOCKS, MemoryInit(n, b)
  PROVE  Reached(b) \in Nat /\ Reached(b) <= n * ENTRIES[2]
PROOF
  <1> DEFINE e == ENTRIES[2]
             d == n * e
  <1>1. /\ e \in Nat \ {0} /\ Reached(b) = (IF b < e THEN e ELSE b) /\ b \in Nat
        /\ Reached(b) \in Nat /\ d \in Nat /\ e <= d
    <2>1. 1 * e <= n * e
      <3>1. e \in Nat /\ 1 \in Nat /\ n \in Nat /\ 1 <= n
        BY BlocksAre
      <3> HIDE DEF e
      <3> QED BY <3>1, MultipleMonotone
    <2>2. 1 * e = e
      BY BlocksAre
    <2> QED BY <2>1, <2>2, LimitsAre, BlocksAre DEF Reached
  <1>2. CASE Needed(n, b)
    BY <1>1, <1>2 DEF Needed
  <1>3. CASE b <= n * ENTRIES[2]
    BY <1>1, <1>3
  <1>4. InLast(n, b) => b <= n * ENTRIES[2]
    BY <1>1 DEF InLast
  <1> QED BY <1>2, <1>3, <1>4 DEF MemoryInit, Arrived, Filling

\* What is mapped while memory_init goes on, and before it.
MapsReached ==
  /\ SwitchedOn =>
       \A va \in VAS : Translate(tables, va) =
         IF va \div SIZE[2] < ENTRIES[2]
           THEN [page |-> va, type |-> TypeOf(va \div SIZE[2])] ELSE UNMAPPED
  /\ \A n \in 1 .. 4, b \in 0 .. BLOCKS : MemoryInit(n, b) =>
       \A va \in VAS : Translate(tables, va) =
         IF va \div SIZE[2] < Reached(b)
           THEN [page |-> va, type |-> TypeOf(va \div SIZE[2])] ELSE UNMAPPED

LEMMA KernelMaps == MapsReached
PROOF
  <1>1. ASSUME NEW n \in 1 .. 4, NEW b \in 0 .. BLOCKS, MemoryInit(n, b), NEW va \in VAS
        PROVE  Translate(tables, va) =
                 IF va \div SIZE[2] < Reached(b)
                   THEN [page |-> va, type |-> TypeOf(va \div SIZE[2])] ELSE UNMAPPED
    <2>1. Reached(b) \in Nat /\ Reached(b) <= n * ENTRIES[2]
      BY <1>1, WithinTables
    <2>2. Built(n, Reached(b)) /\ level0_table = MMU_SPACE
      BY <1>1 DEF MemoryInit
    <2> QED BY <2>1, <2>2, TranslateIs
  <1>2. ASSUME SwitchedOn, NEW va \in VAS
        PROVE  Translate(tables, va) =
                 IF va \div SIZE[2] < ENTRIES[2]
                   THEN [page |-> va, type |-> TypeOf(va \div SIZE[2])] ELSE UNMAPPED
    <2>1. Built(1, ENTRIES[2]) /\ level0_table = MMU_SPACE
      BY <1>2 DEF SwitchedOn
    <2>2. ENTRIES[2] \in Nat /\ ENTRIES[2] <= 1 * ENTRIES[2] /\ 1 \in 1 .. 4
      BY BlocksAre
    <2> QED BY <2>1, <2>2, TranslateIs
  <1> QED BY <1>1, <1>2 DEF MapsReached

\* A step that maps no less leaves every translation of the TLB what it was.
LEMMA StaysCurrent ==
  ASSUME TlbIsCurrent, NEW n \in 1 .. 4, NEW b \in 0 .. BLOCKS, MemoryInit(n, b), GoesOn(b),
         UNCHANGED tlb
  PROVE  TlbIsCurrent'
PROOF
  <1>1. MapsReached'
    BY KernelMaps, PTL
  <1>2. PICK n2 \in 1 .. 4, b2 \in 0 .. BLOCKS : MemoryInit(n2, b2)' /\ Reached(b) <= Reached(b2)
    BY DEF GoesOn
  <1>3. ASSUME NEW va \in WATCHED, tlb'[va] # UNMAPPED
        PROVE  tlb'[va] = Translate(tables, va)'
    <2>1. va \in VAS
      BY BootAssumption
    <2>2. tlb'[va] = tlb[va] /\ tlb[va] = Translate(tables, va)
      BY <1>3 DEF TlbIsCurrent
    <2> DEFINE k == va \div SIZE[2]
    <2>3. k < Reached(b) /\ Translate(tables, va) = [page |-> va, type |-> TypeOf(k)]
      BY <1>3, <2>1, <2>2, KernelMaps DEF MapsReached
    <2>4. k \in Nat /\ Reached(b) \in Nat /\ Reached(b2) \in Nat
      BY <2>1, IndicesAre, LimitsAre
    <2>5. k < Reached(b2)
      BY <1>2, <2>3, <2>4
    <2>6. Translate(tables, va)' = [page |-> va, type |-> TypeOf(k)]
      BY <1>1, <1>2, <2>1, <2>5 DEF MapsReached
    <2> QED BY <2>2, <2>3, <2>6
  <1> QED BY <1>3 DEF TlbIsCurrent

-----------------------------------------------------------------------------
(***************************************************************************)
(* memory_init: the end of a loop over units, and the next region.         *)
(***************************************************************************)
LEMMA UnitsDoneMaps ==
  ASSUME NEW n \in 1 .. 4, NEW b \in 0 .. BLOCKS, NEW a \in 0 .. b,
         Built(n, Reached(b)), bitmap = Claims(n),
         level0_table = MMU_SPACE, InMap, Filling(n, a, b), UnitsDone, UNCHANGED step
  PROVE  GoesOn(b)
PROOF
  <1> DEFINE e == ENTRIES[2]
             w == SIZE[2]
             c == (n - 1) * e
             d == n * e
  <1>1. /\ unit = EndUnit /\ pc' = "insert" /\ walk' = NOWHERE /\ unit' = 0
        /\ todo' = IF TheCall.count = unit_count
                     THEN Tail(todo) ELSE [todo EXCEPT ![1] = Rest(TheCall, unit_count)]
        /\ UNCHANGED <<bitmap, tables, level0_table, region, step>>
    BY DEF UnitsDone, memory
  <1>2. /\ CallFrom(a) /\ InLast(n, a) /\ a <= b /\ b <= Ends /\ b <= d
    BY DEF Filling
  <1>3. /\ a \in 0 .. BLOCKS /\ unit_count = b - a /\ a < b
        /\ unit < EndUnit <=> b < Ends /\ b < d
    BY <1>1, FillingIs
  <1>4. /\ Ends \in Nat /\ Ends <= BLOCKS /\ BLOCKS \in Nat
        /\ a \in Nat /\ b \in Nat /\ c \in Nat /\ d \in Nat
        /\ e \in Nat \ {0} /\ w \in Nat \ {0} /\ d = c + e
    <2>1. a \in Nat /\ BLOCKS \in Nat
      BY <1>3, MemoryIs
    <2> QED BY <2>1, LimitsAre, BlocksAre
  <1>5. c <= a
    BY <1>2 DEF InLast
  <1>6. Reached(b) = IF b < e THEN e ELSE b
    BY DEF Reached
  <1>7. todo = <<[address |-> a * w, count |-> Ends - a, level |-> 2]>>
    BY <1>2 DEF CallFrom
  <1>8. TheCall = [address |-> a * w, count |-> Ends - a, level |-> 2]
    BY <1>7 DEF TheCall
  <1>9. Needed(n, b)
    <2> HIDE DEF c, d, e
    <2>1. c < Reached(b) /\ Reached(b) <= d
      BY <1>2, <1>3, <1>4, <1>5, <1>6
    <2> QED BY <2>1 DEF Needed, c, d, e
  <1>10. Needed(n, b)' /\ Built(n, Reached(b))' /\ Ends' = Ends
    BY <1>1, <1>9 DEF Needed, Reached, Built, Ends
  <1>11. CASE b = Ends
    <2>1. TheCall.count = unit_count
      BY <1>3, <1>8, <1>11
    <2>2. todo' = <<>>
      BY <1>1, <1>7, <2>1
    <2>3. Inserting(b)'
      BY <1>1, <1>10, <1>11, <2>2 DEF Inserting
    <2> QED BY <1>1, <1>10, <2>3, ReachedStays DEF MemoryInit, InMap
  <1>12. CASE b # Ends
    <2>1. b < Ends /\ b < BLOCKS
      BY <1>2, <1>4, <1>12
    <2>2. TheCall.count # unit_count
      <3>1. Ends - a # b - a
        BY <1>4, <2>1
      <3> QED BY <1>3, <1>8, <3>1
    <2>3. Rest(TheCall, unit_count) =
            [address |-> (a * w + (b - a) * w) % ADDRESSES, count |-> (Ends - a) - (b - a), level |-> 2]
      <3> HIDE DEF w
      <3>1. Rest(TheCall, b - a) =
              [TheCall EXCEPT !.address = (a * w + (b - a) * w) % ADDRESSES,
                              !.count = (Ends - a) - (b - a)]
        BY <1>8 DEF Rest, w
      <3> QED BY <1>3, <1>8, <3>1
    <2>4. (a * w + (b - a) * w) % ADDRESSES = b * w
      <3>1. a * w + (b - a) * w = b * w
        BY <1>4
      <3> QED BY <1>4, <2>1, <3>1, BelowFirst
    <2>5. (Ends - a) - (b - a) = Ends - b
      BY <1>4
    <2>6. todo' = <<[address |-> b * w, count |-> Ends - b, level |-> 2]>>
      <3>1. todo' = [todo EXCEPT ![1] = [address |-> b * w, count |-> Ends - b, level |-> 2]]
        BY <1>1, <2>2, <2>3, <2>4, <2>5
      <3> QED BY <1>7, <3>1
    <2>7. \A x \in b .. (Ends - 1) : region.type = TypeOf(x)
      <3>1. \A x \in b .. (Ends - 1) : x \in a .. (Ends - 1)
        BY <1>3, <1>4
      <3> QED BY <1>2, <3>1 DEF CallFrom
    <2>8. CallFrom(b)'
      BY <1>1, <1>10, <2>1, <2>6, <2>7 DEF CallFrom
    <2>9. Inserting(b)'
      BY <1>1, <2>8 DEF Inserting
    <2> QED BY <1>1, <1>10, <2>9, ReachedStays DEF MemoryInit, InMap
  <1> QED BY <1>11, <1>12

\* What memory_mmu_insert asks for, of a region that consists of blocks.
LEMMA InsertOf ==
  ASSUME NEW b \in Nat, NEW c \in Nat, b + c <= BLOCKS
  PROVE  memory_mmu_insert(b * SIZE[2], c * SIZE[2]) =
           IF c > 0 THEN <<[address |-> b * SIZE[2], count |-> c, level |-> 2]>> ELSE <<>>
PROOF
  <1> DEFINE w == SIZE[2]
             va == b * w
             size == c * w
             gap == BlockAbove(va) - va
             head == Head_count(gap)
             blocks == (((size - head) % ADDRESSES) \div w) % COUNTS
             mapped == head + blocks * w
  <1>1. /\ w \in Nat \ {0} /\ ADDRESSES \in Nat \ {0} /\ COUNTS \in Nat \ {0} /\ PAGE_SIZE \in Nat
        /\ BLOCKS \in Nat /\ BLOCKS < COUNTS /\ BLOCKS * w < ADDRESSES
    BY BlocksAre, MemoryIs, MmuAssumption
  <1>2. /\ va \in Nat /\ size \in Nat /\ va <= BLOCKS * w /\ size <= BLOCKS * w /\ BLOCKS * w \in Nat
    <2> HIDE DEF w
    <2>1. b * w <= BLOCKS * w /\ c * w <= BLOCKS * w
      BY <1>1, MultipleMonotone
    <2> QED BY <1>1, <2>1
  <1>3. gap = 0
    <2> HIDE DEF w
    <2>1. w - 1 \in 0 .. (w - 1)
      BY <1>1
    <2>2. (b * w + (w - 1)) \div w = b
      BY <1>1, <2>1, DivisionUnique
    <2>3. b * w + w - 1 = b * w + (w - 1)
      BY <1>1
    <2>4. BlockAbove(va) = b * w
      BY <2>2, <2>3 DEF BlockAbove, w
    <2> QED BY <1>2, <2>4
  <1> HIDE DEF gap
  <1>4. head = 0
    <2>1. 0 * PAGE_SIZE = 0 /\ 0 % COUNTS = 0
      BY <1>1
    <2> QED BY <1>3, <2>1 DEF Head_count
  <1> HIDE DEF head
  <1>5. blocks = c
    <2>1. (size - head) % ADDRESSES = size
      <3> HIDE DEF size, w
      <3> QED BY <1>1, <1>2, <1>4
    <2>2. size \div w = c
      <3> HIDE DEF w
      <3>1. 0 \in 0 .. (w - 1) /\ c * w + 0 = c * w
        BY <1>1
      <3> QED BY <1>1, <3>1, DivisionUnique
    <2>3. c % COUNTS = c
      BY <1>1
    <2> QED BY <2>1, <2>2, <2>3
  <1> HIDE DEF blocks
  <1>6. mapped = size
    BY <1>1, <1>2, <1>4, <1>5
  <1> HIDE DEF mapped, va, size
  <1>7. /\ va % ADDRESSES = va /\ c % COUNTS = c /\ 0 % COUNTS = 0 /\ (size - size) % ADDRESSES = 0
    BY <1>1, <1>2
  <1>8. memory_mmu_insert(va, size) =
          IF size >= gap + SIZE[2]
            THEN If_any(Call(va, head, 3)) \o If_any(Call(va + head, blocks, 2))
                   \o If_any(Call(va + mapped, (size - mapped) % ADDRESSES, 3))
            ELSE If_any(Call(va, size, 3))
    BY DEF memory_mmu_insert, gap, head, blocks, mapped, w
  <1>9. \A x : If_any(Call(x, 0, 3)) = <<>>
    BY <1>7 DEF If_any, Call
  <1>10. CASE c > 0
    <2>1. size >= gap + SIZE[2]
      <3>1. 1 * w <= c * w
        BY <1>1, <1>10, MultipleMonotone
      <3>2. w <= size
        <4>1. 1 * w = w /\ c * w = size
          BY <1>1 DEF size
        <4> QED BY <3>1, <4>1
      <3>3. gap + SIZE[2] = w
        BY <1>1, <1>3 DEF w
      <3> QED BY <3>2, <3>3
    <2>2. va + head = va
      BY <1>2, <1>4
    <2>3. If_any(Call(va + head, blocks, 2)) = <<[address |-> va, count |-> c, level |-> 2]>>
      BY <1>5, <1>7, <1>10, <2>2 DEF If_any, Call
    <2>4. /\ If_any(Call(va, head, 3)) = <<>>
          /\ If_any(Call(va + mapped, (size - mapped) % ADDRESSES, 3)) = <<>>
      BY <1>4, <1>6, <1>7, <1>9
    <2>5. \A x : <<>> \o <<x>> \o <<>> = <<x>>
      OBVIOUS
    <2> QED BY <1>8, <1>10, <2>1, <2>3, <2>4, <2>5 DEF va, size, w
  <1>11. CASE ~(c > 0)
    <2>1. c = 0 /\ size = 0
      BY <1>1, <1>11 DEF size
    <2>2. ~(size >= gap + SIZE[2])
      BY <1>1, <1>3, <2>1 DEF w
    <2> QED BY <1>8, <1>9, <1>11, <2>1, <2>2 DEF va, size, w
  <1> QED BY <1>10, <1>11

LEMMA RegionMaps ==
  ASSUME NEW n \in 1 .. 4, NEW b \in 0 .. BLOCKS, MemoryInit(n, b), map_kernel_region
  PROVE  GoesOn(b)
PROOF
  <1> DEFINE r == KernelRegion[step]
  <1>1. /\ step \in {"normal_memory_region_1", "peripherals_region", "normal_memory_region_2"}
        /\ pc = "idle" /\ region' = r /\ todo' = memory_mmu_insert(r.va, r.size) /\ pc' = "insert"
        /\ UNCHANGED <<bitmap, tables, level0_table, walk, unit>>
        /\ step' = After[step]
    BY DEF map_kernel_region, KernelRegion, memory_map_region, memory, cursor
  <1>2. Idling /\ b = Ends /\ Needed(n, b)
    BY <1>1 DEF MemoryInit, Inserting, Descending, Arrived, Filling
  <1>3. /\ level0_table' = MMU_SPACE /\ bitmap' = Claims(n) /\ Built(n, Reached(b))'
        /\ walk' = NOWHERE /\ unit' = 0 /\ Needed(n, b)'
    BY <1>1, <1>2 DEF MemoryInit, Idling, Built, Needed, Reached
  <1>4. /\ PERIPH_BLOCK \in Nat /\ BLOCKS \in Nat /\ PERIPH_BLOCK < BLOCKS /\ 0 < PERIPH_BLOCK
        /\ ENTRIES[2] \in Nat \ {0} /\ ENTRIES[2] <= PERIPH_BLOCK
        /\ PERIPH_START = PERIPH_BLOCK * SIZE[2] /\ PageCount = BLOCKS * SIZE[2] /\ SIZE[2] \in Nat \ {0}
    <2> DEFINE e == ENTRIES[2]
    <2>1. PERIPH_BLOCK \in Nat /\ e \in Nat \ {0} /\ 3 * e < PERIPH_BLOCK
      BY MemoryIs, BlocksAre
    <2> HIDE DEF e, PERIPH_BLOCK
    <2>2. 0 < PERIPH_BLOCK /\ e <= PERIPH_BLOCK
      BY <2>1
    <2> QED BY <2>1, <2>2, MemoryIs, BlocksAre DEF e
  <1> HIDE DEF PERIPH_BLOCK, BLOCKS
  <1>5. CASE step = "normal_memory_region_1"
    <2>1. b = ENTRIES[2] /\ Reached(0) = Reached(b) /\ 0 \in 0 .. BLOCKS
      BY <1>2, <1>4, <1>5 DEF Ends, Reached
    <2>2. /\ step' = "peripherals_region" /\ Ends' = PERIPH_BLOCK
          /\ r = [va |-> 0, size |-> PERIPH_START, type |-> NORMAL]
      BY <1>1, <1>5 DEF After, Ends, KernelRegion
    <2>3. memory_mmu_insert(0 * SIZE[2], PERIPH_BLOCK * SIZE[2]) =
            <<[address |-> 0 * SIZE[2], count |-> PERIPH_BLOCK, level |-> 2]>>
      <3>1. 0 + PERIPH_BLOCK <= BLOCKS /\ PERIPH_BLOCK > 0 /\ 0 \in Nat
        BY <1>4
      <3> QED BY <1>4, <3>1, InsertOf
    <2>4. todo' = <<[address |-> 0 * SIZE[2], count |-> PERIPH_BLOCK - 0, level |-> 2]>>
      <3>1. 0 * SIZE[2] = 0 /\ PERIPH_BLOCK - 0 = PERIPH_BLOCK
        BY <1>4
      <3> QED BY <1>1, <1>4, <2>2, <2>3, <3>1
    <2>5. \A x \in 0 .. (PERIPH_BLOCK - 1) : region'.type = TypeOf(x)
      BY <1>1, <1>4, <2>2 DEF TypeOf
    <2>6. CallFrom(0)'
      BY <1>4, <2>2, <2>4, <2>5 DEF CallFrom
    <2>7. MemoryInit(n, 0)'
      BY <1>1, <1>3, <2>1, <2>2, <2>6 DEF MemoryInit, Inserting, Needed, Built
    <2>8. Reached(b) <= Reached(0)
      BY <1>4, <2>1 DEF Reached
    <2> QED BY <2>1, <2>7, <2>8 DEF GoesOn
  <1>6. CASE step = "peripherals_region"
    <2>1. b = PERIPH_BLOCK
      BY <1>2, <1>6 DEF Ends
    <2>2. /\ step' = "normal_memory_region_2" /\ Ends' = BLOCKS
          /\ r = [va |-> PERIPH_START, size |-> PageCount - PERIPH_START, type |-> DEVICE]
      BY <1>1, <1>6 DEF After, Ends, KernelRegion
    <2>3. /\ BLOCKS - PERIPH_BLOCK \in Nat /\ BLOCKS - PERIPH_BLOCK > 0
          /\ PERIPH_BLOCK + (BLOCKS - PERIPH_BLOCK) <= BLOCKS
          /\ PageCount - PERIPH_START = (BLOCKS - PERIPH_BLOCK) * SIZE[2]
      BY <1>4
    <2>4. memory_mmu_insert(PERIPH_BLOCK * SIZE[2], (BLOCKS - PERIPH_BLOCK) * SIZE[2]) =
            <<[address |-> PERIPH_BLOCK * SIZE[2], count |-> BLOCKS - PERIPH_BLOCK, level |-> 2]>>
      BY <1>4, <2>3, InsertOf
    <2>5. todo' = <<[address |-> PERIPH_BLOCK * SIZE[2], count |-> BLOCKS - PERIPH_BLOCK, level |-> 2]>>
      BY <1>1, <1>4, <2>2, <2>3, <2>4
    <2>6. \A x \in PERIPH_BLOCK .. (BLOCKS - 1) : region'.type = TypeOf(x)
      BY <1>1, <1>4, <2>2 DEF TypeOf
    <2>7. CallFrom(PERIPH_BLOCK)'
      BY <1>4, <2>2, <2>5, <2>6 DEF CallFrom
    <2>8. MemoryInit(n, b)'
      BY <1>1, <1>3, <2>1, <2>2, <2>7 DEF MemoryInit, Inserting
    <2> QED BY <2>8, ReachedStays
  <1>7. CASE step = "normal_memory_region_2"
    <2>1. b = BLOCKS
      BY <1>2, <1>7 DEF Ends
    <2>2. /\ step' = "done" /\ Ends' = BLOCKS /\ r = [va |-> PageCount, size |-> 0, type |-> NORMAL]
      BY <1>1, <1>7 DEF After, Ends, KernelRegion
    <2>3. memory_mmu_insert(BLOCKS * SIZE[2], 0 * SIZE[2]) = <<>>
      <3>1. BLOCKS + 0 <= BLOCKS /\ 0 \in Nat /\ ~(0 > 0)
        BY <1>4
      <3> QED BY <1>4, <3>1, InsertOf
    <2>4. todo' = <<>>
      <3>1. 0 * SIZE[2] = 0
        BY <1>4
      <3> QED BY <1>1, <1>4, <2>2, <2>3, <3>1
    <2>5. MemoryInit(n, b)'
      BY <1>1, <1>3, <2>1, <2>2, <2>4 DEF MemoryInit, Inserting
    <2> QED BY <2>5, ReachedStays
  <1> QED BY <1>1, <1>5, <1>6, <1>7

-----------------------------------------------------------------------------
(***************************************************************************)
(* The invariant.                                                          *)
(***************************************************************************)
\* mmu.c at work in memory_init: no turn meets what it does not expect.
LEMMA MappingMaps ==
  ASSUME NEW n \in 1 .. 4, NEW b \in 0 .. BLOCKS, MemoryInit(n, b), fault = "none", Mapping
  PROVE  GoesOn(b) /\ fault' = "none"
PROOF
  <1>1. /\ Built(n, Reached(b)) /\ bitmap = Claims(n) /\ level0_table = MMU_SPACE
        /\ UNCHANGED <<step, tlb>>
    BY DEF MemoryInit, Mapping
  <1>2. /\ pc \in {"idle", "insert", "traverse", "units"}
        /\ pc # "idle" => InMap
    BY DEF MemoryInit, Idling, Inserting, Descending, Arrived, Filling, InMap
  <1>3. pc = "insert" => Inserting(b) /\ Needed(n, b)
    BY DEF MemoryInit, Idling, Inserting, Descending, Arrived, Filling
  <1>4. pc = "traverse" => (Descending(b) /\ Needed(n, b)) \/ Arrived(n, b)
    BY DEF MemoryInit, Idling, Inserting, Descending, Arrived, Filling
  <1>5. pc = "units" => \E a \in 0 .. b : Filling(n, a, b)
    BY DEF MemoryInit, Idling, Inserting, Descending, Arrived, Filling
  <1>6. CASE InsertReturns
    <2>1. pc = "insert" /\ fault' = fault
      BY <1>6 DEF InsertReturns
    <2> QED BY <1>1, <1>2, <1>3, <1>6, <2>1, InsertReturnsMaps
  <1>7. CASE TraverseStarts
    <2>1. pc = "insert"
      BY <1>7 DEF TraverseStarts
    <2> QED BY <1>1, <1>2, <1>3, <1>7, <2>1, TraverseStartsMaps
  <1>8. Traversing => Descending(b) /\ Needed(n, b)
    <2> SUFFICES ASSUME Traversing, Arrived(n, b) PROVE FALSE
      BY <1>4 DEF Traversing
    <2>1. walk.level = 2
      BY DEF Arrived, AtTable
    <2>2. TheCall.level = 2
      BY CallFromIs DEF Arrived
    <2> QED BY <2>1, <2>2 DEF Traversing
  <1>9. CASE TraverseEmpty
    <2>1. Traversing /\ pc # "idle"
      BY <1>9 DEF TraverseEmpty, Traversing
    <2> QED BY <1>1, <1>2, <1>8, <1>9, <2>1, TraverseEmptyMaps
  <1>10. CASE TraverseTable
    <2>1. Traversing /\ pc # "idle" /\ fault' = fault
      BY <1>10 DEF TraverseTable, Traversing
    <2> QED BY <1>1, <1>2, <1>8, <1>10, <2>1, TraverseTableMaps
  <1>11. ~SplitLinks
    <2> SUFFICES ASSUME SplitLinks PROVE FALSE
      OBVIOUS
    <2>1. Descending(b) /\ Needed(n, b) /\ Entry.bits = BLOCK
      BY <1>8 DEF SplitLinks
    <2> QED BY <1>1, <2>1, DescendingIs, EntryBits
  <1>12. ~SplitFills /\ ~PageCreated /\ ~PageOverridden /\ ~mmu_destroy_entry /\ ~memory_mmu_destroy_table
    BY <1>2 DEF SplitFills, PageCreated, PageOverridden, mmu_destroy_entry, AtEntry, EntrySkipped,
                EntryIsTable, EntryIsPage, EntryIsBlock, EntryDone, memory_mmu_destroy_table,
                SlotEmpty, SlotTaken, DestroyReturns
  <1>13. CASE UnitsStart
    <2>1. pc = "traverse" /\ walk.level = TheCall.level /\ fault' = fault
      BY <1>13 DEF UnitsStart
    <2>2. Arrived(n, b)
      <3> SUFFICES ASSUME Descending(b) PROVE FALSE
        BY <1>4, <2>1
      <3>1. TheCall.level = 2 /\ walk.level \in {0, 1}
        BY CallFromIs DEF Descending
      <3> QED BY <2>1, <3>1
    <2> QED BY <1>1, <1>2, <1>13, <2>1, <2>2, UnitsStartMaps
  <1>14. CASE UnitCreated
    <2>1. pc = "units"
      BY <1>14 DEF UnitCreated, InUnits
    <2>2. PICK a \in 0 .. b : Filling(n, a, b)
      BY <1>5, <2>1
    <2> QED BY <1>1, <1>2, <1>14, <2>1, <2>2, UnitCreatedMaps
  <1>15. CASE UnitOverridden
    <2>1. pc = "units" /\ fault' = fault
      BY <1>15 DEF UnitOverridden, InUnits
    <2>2. PICK a \in 0 .. b : Filling(n, a, b)
      BY <1>5, <2>1
    <2> QED BY <1>1, <1>2, <1>15, <2>1, <2>2, UnitOverriddenMaps
  <1>16. ~UnitIsTable
    <2> SUFFICES ASSUME UnitIsTable PROVE FALSE
      OBVIOUS
    <2>1. pc = "units" /\ unit < EndUnit /\ UnitEntry.bits = TABLE
      BY DEF UnitIsTable, InUnits, TableInTheWay
    <2>2. PICK a \in 0 .. b : Filling(n, a, b)
      BY <1>5, <2>1
    <2>3. UnitEntry = IF b < ENTRIES[2] THEN BlockOf(b) ELSE EMPTY_ENTRY
      BY <1>1, <2>1, <2>2, FillingIs
    <2> QED BY <2>1, <2>3, EntryBits
  <1>17. CASE UnitsDone
    <2>1. pc = "units" /\ fault' = fault
      BY <1>17 DEF UnitsDone
    <2>2. PICK a \in 0 .. b : Filling(n, a, b)
      BY <1>5, <2>1
    <2> QED BY <1>1, <1>2, <1>17, <2>1, <2>2, UnitsDoneMaps
  <1> QED BY <1>6, <1>7, <1>9, <1>10, <1>11, <1>12, <1>13, <1>14, <1>15, <1>16, <1>17
          DEF Mapping, Continue, mmu_traverse_and_alloc_tables, mmu_map_units

BootIInv == BootShape /\ TlbIsCurrent

LEMMA InitBootIInv == BootInit => BootIInv
  BY DEF BootInit, BootIInv, BootShape, Unbuilt, Idling, TlbIsCurrent

LEMMA SameTranslation ==
  ASSUME UNCHANGED <<tables, level0_table>>, NEW va
  PROVE  Translate(tables, va)' = Translate(tables, va)
PROOF
  <1>1. Stop(tables, va)' = Stop(tables, va)
    BY DEF Stop, Index
  <1> QED BY <1>1 DEF Translate, Index

\* A step that changes neither the tables nor the TLB.
LEMMA SameTlb ==
  ASSUME TlbIsCurrent, UNCHANGED <<tables, level0_table, tlb>>
  PROVE  TlbIsCurrent'
PROOF
  <1>1. \A va \in WATCHED : Translate(tables, va)' = Translate(tables, va)
    BY SameTranslation
  <1> QED BY <1>1 DEF TlbIsCurrent

\* Nothing is translated before the MMU is on.
LEMMA NoTlb ==
  ASSUME tlb = [va \in WATCHED |-> UNMAPPED], UNCHANGED tlb
  PROVE  TlbIsCurrent'
  BY DEF TlbIsCurrent

\* mmu.c is at work only in a call.
LEMMA NoMapping == pc = "idle" => ~Mapping
  BY DEF Mapping, Continue, InsertReturns, mmu_traverse_and_alloc_tables, TraverseStarts,
         TraverseEmpty, TraverseTable, SplitLinks, SplitFills, Traversing, mmu_map_units,
         UnitsStart, UnitCreated, UnitOverridden, UnitIsTable, InUnits, PageCreated,
         PageOverridden, UnitsDone, mmu_destroy_entry, AtEntry, EntrySkipped, EntryIsTable,
         EntryIsPage, EntryIsBlock, EntryDone, memory_mmu_destroy_table, SlotEmpty,
         SlotTaken, DestroyReturns

\* The boot code and the steps of memory_init.
LEMMA KernelBootIInv ==
  ASSUME BootIInv, Kernel
  PROVE  BootIInv'
PROOF
  <1>1. fault = "none" /\ TlbIsCurrent
    BY DEF BootIInv, BootShape
  <1>2. ASSUME Unbuilt PROVE BootIInv'
    <2>1. step \in {"zero_mmu_space", "setup_tables"} /\ pc = "idle" /\ tlb = [va \in WATCHED |-> UNMAPPED]
      BY <1>2 DEF Unbuilt, Idling
    <2>2. ~Mapping
      BY <2>1, NoMapping
    <2>3. zero_mmu_space \/ setup_tables
      BY <2>1, <2>2 DEF Kernel, create_entries_loop, setup_registers, memory_init, map_kernel_region,
                        KernelRegion
    <2>4. CASE zero_mmu_space
      <3>1. BootShape'
        BY <1>1, <1>2, <2>4 DEF zero_mmu_space, BootShape, Unbuilt, Idling, request, cursor
      <3>2. UNCHANGED tlb
        BY <2>4 DEF zero_mmu_space
      <3> QED BY <2>1, <3>1, <3>2, NoTlb DEF BootIInv
    <2>5. CASE setup_tables
      <3>1. step = "setup_tables" /\ UNCHANGED <<tlb, fault>>
        BY <2>5 DEF setup_tables
      <3>2. BootBuilds(0)' /\ 0 \in 0 .. ENTRIES[2]
        BY <1>2, <2>5, <3>1, SetupStep, BlocksAre
      <3> QED BY <1>1, <2>1, <3>1, <3>2, NoTlb DEF BootIInv, BootShape
    <2> QED BY <2>3, <2>4, <2>5
  <1>3. ASSUME NEW m \in 0 .. ENTRIES[2], BootBuilds(m) PROVE BootIInv'
    <2>1. step \in {"create_entries_loop", "setup_registers"} /\ pc = "idle"
          /\ tlb = [va \in WATCHED |-> UNMAPPED]
      BY <1>3 DEF BootBuilds, Idling
    <2>2. ~Mapping
      BY <2>1, NoMapping
    <2>3. create_entries_loop \/ setup_registers
      BY <2>1, <2>2 DEF Kernel, zero_mmu_space, setup_tables, memory_init, map_kernel_region,
                        KernelRegion
    <2>4. CASE create_entries_loop
      <3>1. UNCHANGED <<tlb, fault>>
        BY <2>4 DEF create_entries_loop
      <3>2. m + 1 \in 0 .. ENTRIES[2] /\ BootBuilds(m + 1)'
        BY <1>3, <2>4, EntriesStep
      <3> QED BY <1>1, <2>1, <3>1, <3>2, NoTlb DEF BootIInv, BootShape
    <2>5. CASE setup_registers
      <3>1. UNCHANGED <<tlb, fault>> /\ step = "setup_registers"
        BY <2>5 DEF setup_registers
      <3>2. m = ENTRIES[2]
        BY <1>3, <3>1 DEF BootBuilds
      <3>3. SwitchedOn'
        BY <1>3, <2>5, <3>2 DEF setup_registers, BootBuilds, SwitchedOn, Idling, Built, request, cursor
      <3> QED BY <1>1, <2>1, <3>1, <3>3, NoTlb DEF BootIInv, BootShape
    <2> QED BY <2>3, <2>4, <2>5
  <1>4. ASSUME SwitchedOn PROVE BootIInv'
    <2>1. step = "memory_init" /\ pc = "idle"
      BY <1>4 DEF SwitchedOn, Idling
    <2>2. ~Mapping
      BY <2>1, NoMapping
    <2>3. memory_init
      BY <2>1, <2>2 DEF Kernel, zero_mmu_space, setup_tables, create_entries_loop, setup_registers,
                        map_kernel_region, KernelRegion
    <2>4. UNCHANGED <<tables, level0_table, tlb, fault>>
      BY <2>3 DEF memory_init
    <2>5. MemoryInit(1, ENTRIES[2])' /\ 1 \in 1 .. 4 /\ ENTRIES[2] \in 0 .. BLOCKS
      <3>1. ENTRIES[2] \in 0 .. BLOCKS
        BY BlocksAre DEF BLOCKS
      <3> QED BY <1>4, <2>3, <3>1, MemoryInitStep
    <2> QED BY <1>1, <2>4, <2>5, SameTlb DEF BootIInv, BootShape
  <1>5. ASSUME NEW n \in 1 .. 4, NEW b \in 0 .. BLOCKS, MemoryInit(n, b) PROVE BootIInv'
    <2>1. step \in DOMAIN After \cup {"done"}
      BY <1>5 DEF MemoryInit, After
    <2>2. map_kernel_region \/ Mapping
      BY <2>1 DEF Kernel, zero_mmu_space, setup_tables, create_entries_loop, setup_registers,
                  memory_init, After
    <2>3. GoesOn(b) /\ fault' = "none" /\ UNCHANGED tlb
      <3>1. CASE map_kernel_region
        <4>1. UNCHANGED <<fault, tlb>>
          BY <3>1 DEF map_kernel_region, memory_map_region
        <4> QED BY <1>1, <1>5, <3>1, <4>1, RegionMaps
      <3>2. CASE Mapping
        BY <1>1, <1>5, <3>2, MappingMaps DEF Mapping
      <3> QED BY <2>2, <3>1, <3>2
    <2>4. TlbIsCurrent'
      BY <1>1, <1>5, <2>3, StaysCurrent
    <2> QED BY <2>3, <2>4 DEF BootIInv, BootShape, GoesOn
  <1> QED BY <1>2, <1>3, <1>4, <1>5 DEF BootIInv, BootShape

\* A step of the MMU alone, or none.
LEMMA NoStep ==
  ASSUME BootShape, tlb' = tlb \/ level0_table # NULL,
         UNCHANGED <<tables, bitmap, level0_table, pc, region, todo, walk, unit, fault, step, x0>>
  PROVE  BootShape'
PROOF
  <1>1. \A n, m : Built(n, m)' <=> Built(n, m)
    BY DEF Built
  <1>2. Ends' = Ends
    BY DEF Ends
  <1>3. Idling' <=> Idling
    BY DEF Idling
  <1>4. \A b : CallFrom(b)' <=> CallFrom(b)
    BY <1>2 DEF CallFrom
  <1>5. ASSUME Unbuilt PROVE Unbuilt'
    BY <1>3, <1>5 DEF Unbuilt
  <1>6. ASSUME NEW m \in 0 .. ENTRIES[2], BootBuilds(m) PROVE BootBuilds(m)'
    BY <1>1, <1>3, <1>6 DEF BootBuilds
  <1>7. ASSUME SwitchedOn PROVE SwitchedOn'
    BY <1>1, <1>3, <1>7 DEF SwitchedOn
  <1>8. ASSUME NEW n \in 1 .. 4, NEW b \in 0 .. BLOCKS, MemoryInit(n, b) PROVE MemoryInit(n, b)'
    <2>1. Inserting(b)' <=> Inserting(b)
      BY <1>2, <1>4 DEF Inserting
    <2>2. Descending(b)' <=> Descending(b)
      BY <1>4 DEF Descending
    <2>3. Arrived(n, b)' <=> Arrived(n, b)
      BY <1>4 DEF Arrived, AtTable, InLast
    <2>4. \A a : Filling(n, a, b)' <=> Filling(n, a, b)
      BY <1>2, <1>4 DEF Filling, AtTable, InLast
    <2> QED BY <1>1, <1>2, <1>3, <1>8, <2>1, <2>2, <2>3, <2>4 DEF MemoryInit, Needed, Reached
  <1> QED BY <1>5, <1>6, <1>7, <1>8 DEF BootShape

\* Any other step: the MMU keeps a translation, or nothing happens.
LEMMA OtherBootIInv ==
  ASSUME BootIInv, (\E va \in WATCHED : Speculate(va)) \/ UNCHANGED bootVars
  PROVE  BootIInv'
PROOF
  <1>1. CASE UNCHANGED bootVars
    <2>1. UNCHANGED <<tables, bitmap, level0_table, pc, region, todo, walk, unit, fault, step, x0, tlb>>
      BY <1>1 DEF bootVars, vars, memory, request, cursor, down
    <2>2. BootShape'
      BY <2>1, NoStep DEF BootIInv
    <2> QED BY <2>1, <2>2, SameTlb DEF BootIInv
  <1>2. CASE \E va \in WATCHED : Speculate(va)
    <2>1. PICK va \in WATCHED : Speculate(va)
      BY <1>2
    <2>2. /\ UNCHANGED <<tables, bitmap, level0_table, pc, region, todo, walk, unit, fault, step, x0>>
          /\ tlb' = [tlb EXCEPT ![va] = Translate(tables, va)] /\ level0_table # NULL
      BY <2>1 DEF Speculate, MmuOn, vars, memory, request, cursor, down
    <2>4. BootShape'
      BY <2>2, NoStep DEF BootIInv
    <2>5. \A v \in WATCHED : Translate(tables, v)' = Translate(tables, v)
      BY <2>2, SameTranslation
    <2>6. \A v \in WATCHED : tlb'[v] = tlb[v] \/ tlb'[v] = Translate(tables, v)
      BY <2>2
    <2>7. TlbIsCurrent'
      BY <2>5, <2>6 DEF BootIInv, TlbIsCurrent
    <2> QED BY <2>4, <2>7 DEF BootIInv
  <1> QED BY <1>1, <1>2

\* Init and every step establish the invariant of the boot.
THEOREM BootInvariantHolds == BootSpec => []BootIInv
PROOF
  <1>1. BootIInv /\ [BootNext]_bootVars => BootIInv'
    BY KernelBootIInv, OtherBootIInv DEF BootNext, Rest_of_kernel
  <1> QED BY <1>1, InitBootIInv, PTL DEF BootSpec

\* Whatever the TLB holds is what the tables say, for every layout of memory
\* that satisfies BootAssumption, at any moment of memory_init.
THEOREM TlbIsCurrentHolds == BootSpec => []TlbIsCurrent
PROOF
  <1>1. BootIInv => TlbIsCurrent
    BY DEF BootIInv
  <1> QED BY <1>1, BootInvariantHolds, PTL

\* A page is below a block boundary when its block is.
LEMMA BelowBlock ==
  ASSUME NEW va \in VAS, NEW k \in Nat
  PROVE  va < k * SIZE[2] <=> va \div SIZE[2] < k
PROOF
  <1> DEFINE w == SIZE[2]
             b == va \div w
             o == va % w
  <1>1. va \in Nat /\ w \in Nat \ {0} /\ b \in Nat /\ o \in 0 .. (w - 1) /\ va = b * w + o
    <2>1. va \in Nat /\ w \in Nat \ {0}
      BY IndicesAre, BlocksAre
    <2> QED BY <2>1, Division
  <1> HIDE DEF w, b, o
  <1>2. b < k => va < k * w
    <2>1. b < k => (b + 1) * w <= k * w
      BY <1>1, MultipleMonotone
    <2>2. (b + 1) * w = b * w + w /\ b * w \in Nat /\ k * w \in Nat
      BY <1>1
    <2> QED BY <1>1, <2>1, <2>2
  <1>3. k <= b => k * w <= va
    <2>1. k <= b => k * w <= b * w
      BY <1>1, MultipleMonotone
    <2>2. b * w \in Nat /\ k * w \in Nat
      BY <1>1
    <2> QED BY <1>1, <2>1, <2>2
  <1>4. k * w \in Nat
    BY <1>1
  <1> QED BY <1>1, <1>2, <1>3, <1>4 DEF w, b

LEMMA FinishedIs ==
  ASSUME BootIInv, Finished
  PROVE  MemoryInit(4, BLOCKS)
PROOF
  <1>1. step = "done" /\ pc = "idle"
    BY DEF Finished
  <1>2. PICK n \in 1 .. 4, b \in 0 .. BLOCKS : MemoryInit(n, b)
    BY <1>1 DEF BootIInv, BootShape, Unbuilt, BootBuilds, SwitchedOn
  <1>3. b = Ends /\ Needed(n, b)
    BY <1>1, <1>2 DEF MemoryInit, Inserting, Descending, Arrived, Filling
  <1>4. b = BLOCKS
    BY <1>1, <1>3 DEF Ends
  <1>5. n = 4
    <2> DEFINE e == ENTRIES[2]
    <2>1. e \in Nat \ {0} /\ BLOCKS = 4 * e /\ BLOCKS \in Nat
      BY BlocksAre, MemoryIs DEF BLOCKS
    <2>2. 4 * e <= n * e
      <3>1. Reached(BLOCKS) <= n * e /\ Reached(BLOCKS) = IF BLOCKS < e THEN e ELSE BLOCKS
        BY <1>3, <1>4 DEF Needed, Reached
      <3> HIDE DEF e
      <3>2. n * e \in Nat
        BY <2>1
      <3> QED BY <2>1, <3>1, <3>2
    <2> HIDE DEF e
    <2>3. ~(n < 4)
      <3>1. n < 4 <=> n * e < 4 * e
        BY <2>1, LessTimes
      <3>2. n * e \in Nat /\ 4 * e \in Nat
        BY <2>1
      <3> QED BY <2>2, <3>1, <3>2
    <2> QED BY <2>3
  <1> QED BY <1>2, <1>4, <1>5

\* When memory_init has returned, all of memory is mapped one-to-one with its
\* types, nothing else is, and exactly the pages that module Proc takes for
\* claimed are claimed, for every layout that satisfies BootAssumption.
THEOREM BootLeavesHolds == BootSpec => []BootLeaves
PROOF
  <1>1. BootIInv => BootLeaves
    <2> SUFFICES ASSUME BootIInv, Finished PROVE MapsMemory /\ ProcLayout
      BY DEF BootLeaves
    <2>1. MemoryInit(4, BLOCKS)
      BY FinishedIs
    <2>2. /\ BLOCKS \in 0 .. BLOCKS /\ 4 \in 1 .. 4 /\ BLOCKS \in Nat
          /\ PERIPH_BLOCK \in Nat /\ PageCount \in Nat /\ Reached(BLOCKS) = BLOCKS
      <3>1. BLOCKS \in Nat /\ PERIPH_BLOCK \in Nat /\ PageCount \in Nat
        BY MemoryIs
      <3>2. Reached(BLOCKS) = BLOCKS
        BY BlocksAre DEF Reached, BLOCKS
      <3> QED BY <3>1, <3>2
    <2>3. MapsMemory
      <3>1. ASSUME NEW va \in VAS
            PROVE  Translate(tables, va) =
                     IF va \in Pages
                       THEN [page |-> va, type |-> IF va < PERIPH_START THEN NORMAL ELSE DEVICE]
                       ELSE UNMAPPED
        <4> DEFINE k == va \div SIZE[2]
        <4>1. Translate(tables, va) = IF k < BLOCKS THEN [page |-> va, type |-> TypeOf(k)] ELSE UNMAPPED
          BY <2>1, <2>2, KernelMaps DEF MapsReached
        <4>2. va \in Pages <=> k < BLOCKS
          <5>1. va < PageCount <=> k < BLOCKS
            BY <2>2, BelowBlock, MemoryIs
          <5>2. va \in Nat
            BY IndicesAre
          <5> QED BY <2>2, <5>1, <5>2 DEF Pages
        <4>3. TypeOf(k) = IF va < PERIPH_START THEN NORMAL ELSE DEVICE
          <5>1. va < PERIPH_START <=> k < PERIPH_BLOCK
            BY <2>2, BelowBlock, MemoryIs
          <5> QED BY <5>1 DEF TypeOf
        <4> QED BY <4>1, <4>2, <4>3
      <3> QED BY <3>1 DEF MapsMemory
    <2>4. ProcLayout
      <3>1. K!RESERVED_END + 4 - 2 = K!TABLES_START - 1
        BY PlacesAre
      <3>2. bitmap = Claims(4) /\ Built(4, Reached(BLOCKS))
        BY <2>1 DEF MemoryInit
      <3> QED BY <3>1, <3>2 DEF ProcLayout, Claims, Built
    <2> QED BY <2>3, <2>4
  <1> QED BY <1>1, BootInvariantHolds, PTL
=============================================================================
