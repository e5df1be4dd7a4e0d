----------------------------- MODULE ProcProofs -----------------------------
(***************************************************************************)
(* Proofs about module Proc, for every number of processes, every size of  *)
(* a block and of the memory: the layout of memory is the one LifoLayout   *)
(* describes, and from it isolation, the accounting of pages and the       *)
(* separation of translations follow; with what the steps of a call hand   *)
(* over to one another, the kernel implements the stack of processes of    *)
(* module ProcAbs.                                                         *)
(***************************************************************************)
EXTENDS Proc, AllocatorProofs, SequenceTheorems

\* The constants, as numbers.
LEMMA Sizes ==
  /\ BLOCK_PAGES \in Nat /\ BLOCK_PAGES >= PAGES_PER_ENTRY
  /\ RESERVED_END \in Nat /\ TABLES_START = RESERVED_END + KERNEL_TABLES
  /\ CHECKED_FROM \in Nat /\ CHECKED_FROM < RESERVED_END
  /\ CHECKED_FROM < PAGES_PER_ENTRY
  /\ KERNEL_TABLES \in Nat /\ KPROC_MAX_COUNT \in Nat \ {0}
  /\ TABLES_START + 3 * KPROC_MAX_COUNT <= BLOCK_PAGES
  /\ BLOCK_PAGES <= PERIPH_START
  /\ PERIPH_START \in Nat /\ PERIPH_START < PageCount /\ PageCount \in Nat
  /\ PAGES_PER_ENTRY \in Nat \ {0} /\ BLOCK_ENTRIES \in Nat \ {0}
  /\ IMAGE_END \in Nat \ {0} /\ BITMAP_PAGES \in Nat \ {0}
  /\ RESERVED_END = IMAGE_END + BITMAP_PAGES
  /\ OPEN_FROM \in Nat /\ OPEN_FROM <= PERIPH_START
PROOF
  <1>1. BLOCK_PAGES \in Nat /\ BLOCK_PAGES >= PAGES_PER_ENTRY
    <2>1. 1 * PAGES_PER_ENTRY <= BLOCK_ENTRIES * PAGES_PER_ENTRY
      BY MultipleMonotone, AllocatorAssumption, ContextAssumption
    <2> QED BY <2>1, AllocatorAssumption, ContextAssumption DEF BLOCK_PAGES
  <1> QED
    BY <1>1, PageCountType, AllocatorAssumption, ContextAssumption, ProcAssumption
       DEF RESERVED_END, TABLES_START

\* Blocks lie one after the other, below the peripherals and below the pages
\* that are open to every program.
LEMMA BlockPlaces ==
  ASSUME NEW i \in 0 .. KPROC_MAX_COUNT
  PROVE  /\ i * BLOCK_PAGES \in Nat
         /\ (i + 1) * BLOCK_PAGES = i * BLOCK_PAGES + BLOCK_PAGES
         /\ (i + 1) * BLOCK_PAGES <= OPEN_FROM
         /\ (i + 1) * BLOCK_PAGES <= PERIPH_START
         /\ \A j \in Nat : j < i => (j + 1) * BLOCK_PAGES <= i * BLOCK_PAGES
PROOF
  <1>1. i \in Nat /\ i + 1 <= KPROC_MAX_COUNT + 1 /\ BLOCK_PAGES \in Nat
    BY Sizes
  <1>2. (i + 1) * BLOCK_PAGES <= (KPROC_MAX_COUNT + 1) * BLOCK_PAGES
    BY <1>1, Sizes, MultipleMonotone
  <1>3. (KPROC_MAX_COUNT + 1) * BLOCK_PAGES <= OPEN_FROM
    BY ProcAssumption
  <1>4. /\ i * BLOCK_PAGES \in Nat
        /\ (i + 1) * BLOCK_PAGES = i * BLOCK_PAGES + BLOCK_PAGES
        /\ (KPROC_MAX_COUNT + 1) * BLOCK_PAGES \in Nat
    BY <1>1, Sizes
  <1>5. ASSUME NEW j \in Nat, j < i
        PROVE  (j + 1) * BLOCK_PAGES <= i * BLOCK_PAGES
    BY <1>1, <1>5, MultipleMonotone
  <1> QED BY <1>2, <1>3, <1>4, <1>5, Sizes

\* A block starts a bitmap entry.
LEMMA BlockStartsEntry ==
  ASSUME NEW i \in Nat
  PROVE  /\ i * BLOCK_PAGES = (i * BLOCK_ENTRIES) * PAGES_PER_ENTRY
         /\ (i * BLOCK_PAGES) % PAGES_PER_ENTRY = 0
PROOF
  <1>1. i * BLOCK_PAGES = (i * BLOCK_ENTRIES) * PAGES_PER_ENTRY
    BY Sizes DEF BLOCK_PAGES
  <1>2. i * BLOCK_ENTRIES \in Nat /\ 0 \in 0 .. (PAGES_PER_ENTRY - 1)
    BY Sizes
  <1>3. ((i * BLOCK_ENTRIES) * PAGES_PER_ENTRY + 0) % PAGES_PER_ENTRY = 0
    BY <1>2, Sizes, DivisionUnique
  <1>4. (i * BLOCK_ENTRIES) * PAGES_PER_ENTRY \in Nat
    BY <1>2, Sizes
  <1> HIDE DEF BLOCK_PAGES
  <1> QED BY <1>1, <1>3, <1>4

-----------------------------------------------------------------------------
(***************************************************************************)
(* The allocator in the states of the layout.                              *)
(***************************************************************************)

\* The layout with k more pages claimed after the tables of n processes.
Partial(kernel, n, k) ==
  (0 .. (RESERVED_END + kernel + 3 * n + k - 1))
    \cup (BLOCK_PAGES .. ((n + 1) * BLOCK_PAGES - 1))
    \cup (PERIPH_START .. (PageCount - 1))

LEMMA PartialZero ==
  ASSUME NEW kernel \in Nat, NEW n \in Nat
  PROVE  Partial(kernel, n, 0) = Layout(kernel, n)
  BY Sizes DEF Partial, Layout

LEMMA LayoutBounds ==
  ASSUME NEW kernel \in Nat, NEW n \in Nat, NEW x, NEW y,
         x = RESERVED_END + kernel + 3 * n, y = (n + 1) * BLOCK_PAGES
  PROVE  Layout(kernel, n) = (0 .. (x - 1)) \cup (BLOCK_PAGES .. (y - 1))
                               \cup (PERIPH_START .. (PageCount - 1))
PROOF
  <1>1. x - 1 = RESERVED_END + kernel + 3 * n - 1
    BY Sizes
  <1> QED BY <1>1 DEF Layout

\* A single page is taken directly after those that the kernel and the
\* tables of the processes use.
LEMMA ClaimTable ==
  ASSUME NEW kernel \in 0 .. KERNEL_TABLES, NEW n \in 0 .. KPROC_MAX_COUNT,
         NEW k \in 0 .. 2,
         NEW p \in Nat, p = RESERVED_END + kernel + 3 * n + k, p < BLOCK_PAGES
  PROVE  /\ p \in Pages
         /\ memory_allocator_claim_pages(Partial(kernel, n, k), 1, 1)
              = [page |-> p, bitmap |-> Partial(kernel, n, k + 1)]
PROOF
  <1> DEFINE bm == Partial(kernel, n, k)
  <1>1. p \in Nat /\ p < BLOCK_PAGES
    OBVIOUS
  <1>2. BLOCK_PAGES <= PERIPH_START
    BY Sizes
  <1>3. p \in Pages
    BY <1>1, <1>2, Sizes DEF Pages
  <1>4. p \notin bm
    BY <1>1, <1>2, Sizes DEF Partial
  <1>5. \A q \in Pages : q < p => q \in bm
    BY <1>1, Sizes DEF Pages, Partial
  <1>6. memory_allocator_claim_page(bm) = [page |-> p, bitmap |-> bm \cup {p}]
    <2> HIDE DEF bm
    <2> QED BY <1>3, <1>4, <1>5, ClaimPageIsLowest
  <1>7. bm \cup {p} = Partial(kernel, n, k + 1)
    BY <1>1, Sizes DEF Partial
  <1> QED
    BY <1>3, <1>6, <1>7 DEF memory_allocator_claim_pages

\* A block is taken directly after those of the processes.  Every lower
\* candidate holds a claimed page that the search sees: page CHECKED_FROM of
\* the kernel image, or the page at that offset of another block.
LEMMA ClaimBlock ==
  ASSUME NEW n \in 0 .. (KPROC_MAX_COUNT - 1)
  PROVE  memory_allocator_claim_pages(Partial(KERNEL_TABLES, n, 3), BLOCK_PAGES, BLOCK_PAGES)
           = [page |-> (n + 1) * BLOCK_PAGES, bitmap |-> Layout(KERNEL_TABLES, n + 1)]
PROOF
  <1> DEFINE bm == Partial(KERNEL_TABLES, n, 3)
             p == (n + 1) * BLOCK_PAGES
             B == BLOCK_PAGES
  <1>1. /\ n \in Nat /\ n + 1 \in 0 .. KPROC_MAX_COUNT
        /\ p \in Nat /\ (n + 2) * B = p + B /\ p + B <= PERIPH_START
        /\ B <= p /\ B \in Nat
    <2>1. n \in Nat /\ n + 1 \in 0 .. KPROC_MAX_COUNT /\ (n + 1) + 1 = n + 2
      BY Sizes
    <2>2. (0 + 1) * B <= p
      BY <2>1, BlockPlaces
    <2> QED BY <2>1, <2>2, BlockPlaces, Sizes
  <1>2. B >= 3 /\ TABLES_START + 3 * n + 3 <= B
    BY Sizes, <1>1
  <1>3. Run(p, B) \cap bm = {}
    <2> HIDE DEF p, B
    <2>1. bm \subseteq (0 .. (B - 1)) \cup (B .. (p - 1)) \cup (PERIPH_START .. (PageCount - 1))
      BY <1>1, <1>2, Sizes DEF Partial, p, B
    <2> QED BY <2>1, <1>1, Sizes DEF Run
  <1>4. p \in Fits(bm, B, B)
    <2>1. n + 1 \in 0 .. PageCount
      <3>1. (n + 1) * 1 <= (n + 1) * B
        BY <1>1, <1>2
      <3> HIDE DEF B
      <3> QED BY <1>1, <3>1, Sizes
    <2>2. p = B * (n + 1)
      BY <1>1, Sizes
    <2> HIDE DEF bm, p, B
    <2> QED BY <1>1, <1>3, <2>1, <2>2, Sizes DEF Fits, LooksFree
  <1>5. ASSUME NEW c \in Fits(bm, B, B)
        PROVE  p <= c
    <2>1. PICK k \in 0 .. PageCount : c = B * k
      BY DEF Fits
    <2>2. k \in Nat /\ c = k * B /\ c \in Nat
      BY <2>1, <1>1, Sizes
    <2> SUFFICES ASSUME c < p PROVE FALSE
      BY <1>1, <2>2
    <2>3. k < n + 1
      <3> SUFFICES ASSUME n + 1 <= k PROVE FALSE
        BY <1>1, <2>2
      <3>1. p <= k * B
        BY <1>1, <2>2, MultipleMonotone
      <3> QED BY <3>1, <2>2, <1>1
    <2> DEFINE q == c + CHECKED_FROM
    <2>4. q \in Run(c, B)
      BY <2>2, Sizes DEF Run
    <2>5. q \in bm
      <3>1. CASE k = 0
        BY <3>1, <2>2, <1>1, Sizes DEF Partial
      <3>2. CASE k # 0
        <4>1. k \in 0 .. KPROC_MAX_COUNT /\ 0 < k /\ k < n + 1
          <5>1. k # 0 /\ k \in Nat /\ k < n + 1 /\ n \in 0 .. (KPROC_MAX_COUNT - 1)
            BY <3>2, <2>2, <2>3
          <5> HIDE DEF p, B, q, bm
          <5> QED BY <5>1, Sizes
        <4>2. (0 + 1) * B <= c /\ (k + 1) * B <= p /\ (k + 1) * B = c + B
          BY <4>1, <2>2, <1>1, BlockPlaces
        <4>3. B <= q /\ q <= p - 1
          <5> HIDE DEF p, B
          <5> QED BY <4>2, <2>2, <1>1, Sizes DEF B
        <4> HIDE DEF q
        <4> QED BY <4>3, <2>4, <2>2, Sizes, <1>1 DEF Partial, Run
      <3> QED BY <3>1, <3>2
    <2>6. q \in Seen
      <3>1. q = (k * BLOCK_ENTRIES) * PAGES_PER_ENTRY + CHECKED_FROM
        BY <2>2, BlockStartsEntry
      <3>2. q \in Pages
        BY <2>2, <2>4, Sizes DEF Fits, Run, Pages
      <3>3. k * BLOCK_ENTRIES \in Nat /\ CHECKED_FROM \in 0 .. (PAGES_PER_ENTRY - 1)
        BY <2>2, Sizes
      <3>4. q \div PAGES_PER_ENTRY = k * BLOCK_ENTRIES
        <4> HIDE DEF q
        <4> QED BY <3>1, <3>3, DivisionUnique, Sizes
      <3>5. k * BLOCK_ENTRIES \in Entries
        BY <3>2, <3>4, PagePosition
      <3>6. CHECKED_FROM \in CHECKED_FROM .. (PAGES_PER_ENTRY - 1)
        BY Sizes
      <3> HIDE DEF q
      <3> QED BY <3>1, <3>5, <3>6 DEF Seen
    <2>7. LooksFree(bm, c, B)
      BY DEF Fits
    <2> QED BY <2>4, <2>5, <2>6, <2>7 DEF LooksFree
  <1>6. FirstFit(bm, B, B) = [page |-> p, bitmap |-> bm \cup Run(p, B)]
    <2> HIDE DEF bm, p, B
    <2> QED BY <1>1, <1>4, <1>5, FirstFitIsLowest
  <1>7. bm \cup Run(p, B) = Layout(KERNEL_TABLES, n + 1)
    <2>1. RESERVED_END + KERNEL_TABLES + 3 * n + 3 - 1
            = RESERVED_END + KERNEL_TABLES + 3 * (n + 1) - 1
      BY <1>1, Sizes
    <2>2. (B .. (p - 1)) \cup Run(p, B) = B .. ((n + 2) * B - 1)
      <3> HIDE DEF p, B
      <3> QED BY <1>1 DEF Run
    <2>3. (n + 1) + 1 = n + 2
      BY <1>1
    <2> QED BY <2>1, <2>2, <2>3 DEF Partial, Layout
  <1>8. memory_allocator_claim_pages(bm, B, B) = FirstFit(bm, B, B)
    BY <1>2 DEF memory_allocator_claim_pages
  <1> QED BY <1>6, <1>7, <1>8

-----------------------------------------------------------------------------
(***************************************************************************)
(* Creating and destroying a context.                                      *)
(***************************************************************************)
LEMMA InitialLayout == ReservedRanges = Layout(0, 0)
PROOF
  <1>1. memory_allocator_init = Run(IMAGE_END, BITMAP_PAGES)
    <2>1. IMAGE_END + BITMAP_PAGES <= PageCount
      BY Sizes
    <2>2. RESERVED_END # IMAGE_END /\ RESERVED_END - IMAGE_END = BITMAP_PAGES
      BY Sizes
    <2>3. memory_allocator_init
            = memory_allocator_claim_multiple_pages({}, IMAGE_END, BITMAP_PAGES)
      BY <2>2 DEF memory_allocator_init, memory_allocator_claim_range
    <2>4. IMAGE_END \in Nat /\ BITMAP_PAGES \in Nat
      BY Sizes
    <2>5. memory_allocator_claim_multiple_pages({}, IMAGE_END, BITMAP_PAGES)
            = {} \cup Run(IMAGE_END, BITMAP_PAGES)
      BY <2>1, <2>4, ClaimMultipleIsExact
    <2> QED BY <2>3, <2>5
  <1> DEFINE image == memory_allocator_claim_range(memory_allocator_init, 0, IMAGE_END)
  <1>2. image = Run(IMAGE_END, BITMAP_PAGES) \cup Run(0, IMAGE_END)
    <2>1. 0 + IMAGE_END <= PageCount /\ IMAGE_END # 0 /\ IMAGE_END - 0 = IMAGE_END
      BY Sizes
    <2> QED BY <1>1, <2>1, Sizes, ClaimMultipleIsExact DEF memory_allocator_claim_range
  <1>3. ReservedRanges = image \cup Run(PERIPH_START, PageCount - PERIPH_START)
    <2>1. /\ PERIPH_START + (PageCount - PERIPH_START) <= PageCount
          /\ PageCount # PERIPH_START /\ PageCount - PERIPH_START \in Nat
      BY Sizes
    <2> HIDE DEF image
    <2> QED BY <2>1, Sizes, ClaimMultipleIsExact
            DEF ReservedRanges, memory_allocator_claim_range, image
  <1>4. Layout(0, 0) = (0 .. (RESERVED_END - 1)) \cup (PERIPH_START .. (PageCount - 1))
    BY Sizes DEF Layout
  <1>5. Run(PERIPH_START, PageCount - PERIPH_START) = PERIPH_START .. (PageCount - 1)
    BY Sizes DEF Run
  <1>6. Run(IMAGE_END, BITMAP_PAGES) \cup Run(0, IMAGE_END) = 0 .. (RESERVED_END - 1)
    BY Sizes DEF Run
  <1> QED BY <1>2, <1>3, <1>4, <1>5, <1>6

LEMMA CreateTable ==
  ASSUME NEW m, NEW p, NEW b,
         memory_allocator_claim_pages(m.bitmap, 1, 1) = [page |-> p, bitmap |-> b]
  PROVE  memory_mmu_create_table(m)
           = [bitmap |-> b, tables |-> [m.tables EXCEPT ![p] = EMPTY], table |-> p]
  BY DEF memory_mmu_create_table

\* The context of process n + 1 when the first n live, and its region mapped.
Created(n, t) ==
  memory_create_context([bitmap |-> Layout(KERNEL_TABLES, n), tables |-> t, table |-> NULL])

CreatedAndMapped(n, t) == memory_map_region(Created(n, t))

WithChain(t, a, block) == [t EXCEPT ![a] = a + 1, ![a + 1] = a + 2, ![a + 2] = block]

\* kproc_alloc: a context for process n + 1 has its three tables in a chain
\* and the next block, and no table of another process changes.
LEMMA CreatedContext ==
  ASSUME NEW n \in 0 .. (KPROC_MAX_COUNT - 1), NEW t \in [Pages -> Pages]
  PROVE  /\ \A k \in 0 .. 2 : TABLES_START + 3 * n + k \in Pages
         /\ (n + 1) * BLOCK_PAGES \in Pages
         /\ Created(n, t).table = TABLES_START + 3 * n
         /\ CreatedAndMapped(n, t).bitmap = Layout(KERNEL_TABLES, n + 1)
         /\ CreatedAndMapped(n, t).tables
              = WithChain(t, TABLES_START + 3 * n, (n + 1) * BLOCK_PAGES)
PROOF
  <1> DEFINE K == KERNEL_TABLES
             block == (n + 1) * BLOCK_PAGES
             a == TABLES_START + 3 * n
             created == Created(n, t)
             mapped == CreatedAndMapped(n, t)
  <1>a. a = TABLES_START + 3 * n
    OBVIOUS
  <1>b. created = memory_create_context([bitmap |-> Layout(KERNEL_TABLES, n),
                                         tables |-> t, table |-> NULL])
    BY DEF Created
  <1>c. mapped = memory_map_region(created)
    BY DEF CreatedAndMapped
  <1> HIDE DEF a, created, mapped
  <1>1. /\ n \in Nat /\ n \in 0 .. KPROC_MAX_COUNT /\ n + 1 \in 0 .. KPROC_MAX_COUNT
        /\ K \in 0 .. KERNEL_TABLES
        /\ RESERVED_END + K + 3 * n = a /\ a \in Nat /\ a > 0 /\ a + 3 <= BLOCK_PAGES
    BY <1>a, Sizes
  <1>2. ASSUME NEW k \in 0 .. 2
        PROVE  /\ a + k \in Pages
               /\ memory_allocator_claim_pages(Partial(K, n, k), 1, 1)
                    = [page |-> a + k, bitmap |-> Partial(K, n, k + 1)]
    <2>1. a + k \in Nat /\ a + k = RESERVED_END + K + 3 * n + k /\ a + k < BLOCK_PAGES
      BY <1>1, Sizes
    <2> QED BY <1>1, <2>1, ClaimTable
  <1>3. /\ a \in Pages /\ a + 1 \in Pages /\ a + 2 \in Pages
        /\ a + 1 # EMPTY /\ a + 2 # EMPTY
    BY <1>1, <1>2 DEF EMPTY
  <1>p. /\ memory_allocator_claim_pages(Layout(K, n), 1, 1)
             = [page |-> a, bitmap |-> Partial(K, n, 1)]
        /\ memory_allocator_claim_pages(Partial(K, n, 1), 1, 1)
             = [page |-> a + 1, bitmap |-> Partial(K, n, 2)]
        /\ memory_allocator_claim_pages(Partial(K, n, 2), 1, 1)
             = [page |-> a + 2, bitmap |-> Partial(K, n, 3)]
    <2>1. Layout(K, n) = Partial(K, n, 0)
      BY <1>1, PartialZero
    <2>2. a + 0 = a /\ 0 + 1 = 1 /\ 1 + 1 = 2 /\ 2 + 1 = 3
      BY <1>1
    <2> QED BY <1>2, <2>1, <2>2
  <1>4. block \in Pages
    <2>1. block \in Nat /\ block + BLOCK_PAGES <= PERIPH_START
      BY <1>1, BlockPlaces
    <2> HIDE DEF block
    <2> QED BY <2>1, Sizes DEF Pages
  <1> DEFINE t0 == [t EXCEPT ![a] = EMPTY]
             t1 == [t0 EXCEPT ![a + 1] = EMPTY]
             u1 == [t1 EXCEPT ![a] = a + 1]
             t2 == [u1 EXCEPT ![a + 2] = EMPTY]
             u2 == [t2 EXCEPT ![a + 1] = a + 2]
             u3 == [u2 EXCEPT ![a + 2] = block]
  <1>5. created = [bitmap |-> Partial(K, n, 1), tables |-> t0, table |-> a]
    BY <1>b, <1>p, CreateTable DEF memory_create_context
  <1>6. NextLevel(created) = [bitmap |-> Partial(K, n, 2), tables |-> u1, table |-> a + 1]
    <2>1. created.tables[created.table] = EMPTY
      BY <1>3, <1>5
    <2>2. memory_mmu_create_table(created)
            = [bitmap |-> Partial(K, n, 2), tables |-> t1, table |-> a + 1]
      BY <1>5, <1>p, CreateTable
    <2> QED BY <1>5, <2>1, <2>2 DEF NextLevel
  <1>7. NextLevel(NextLevel(created))
          = [bitmap |-> Partial(K, n, 3), tables |-> u2, table |-> a + 2]
    <2> DEFINE m == NextLevel(created)
    <2>1. m.tables[m.table] = EMPTY
      BY <1>1, <1>3, <1>6
    <2>2. memory_mmu_create_table(m)
            = [bitmap |-> Partial(K, n, 3), tables |-> t2, table |-> a + 2]
      BY <1>6, <1>p, CreateTable
    <2> QED BY <1>6, <2>1, <2>2 DEF NextLevel
  <1>8. mapped = [bitmap |-> Layout(K, n + 1), tables |-> u3, table |-> a + 2]
    <2> DEFINE m == mmu_traverse_and_alloc_tables(created)
    <2>1. m = [bitmap |-> Partial(K, n, 3), tables |-> u2, table |-> a + 2]
      BY <1>7 DEF mmu_traverse_and_alloc_tables
    <2>2. m.tables[m.table] = EMPTY
      BY <1>1, <1>3, <2>1
    <2>3. memory_allocator_claim_pages(m.bitmap, BLOCK_PAGES, BLOCK_PAGES)
            = [page |-> block, bitmap |-> Layout(K, n + 1)]
      BY <2>1, ClaimBlock
    <2> HIDE DEF block, t2, u1, u2, m
    <2>4. mmu_map_units(m) = [m EXCEPT !.bitmap = Layout(K, n + 1),
                                       !.tables[m.table] = block]
      BY <2>2, <2>3 DEF mmu_map_units
    <2>5. mmu_map_units(m) = [bitmap |-> Layout(K, n + 1), tables |-> u3, table |-> a + 2]
      BY <2>1, <2>4
    <2> QED BY <1>c, <2>5 DEF memory_map_region, m
  <1>9. u3 = WithChain(t, a, block)
    <2> HIDE DEF block
    <2> QED BY <1>1, <1>3, <1>4 DEF WithChain
  <1>10. created.table = a
    <2> HIDE DEF t0
    <2> QED BY <1>5
  <1>11. mapped.bitmap = Layout(K, n + 1) /\ mapped.tables = u3
    <2> HIDE DEF u3
    <2> QED BY <1>8
  <1> HIDE DEF block, u3
  <1> QED BY <1>2, <1>4, <1>9, <1>10, <1>11 DEF a, created, mapped, block

\* The memory after the top one of n processes, with level 0 table a, exits.
Destroyed(n, t, a) ==
  memory_destroy_context([bitmap |-> Layout(KERNEL_TABLES, n), tables |-> t,
                          table |-> NULL], a)

\* kproc_free: destroying the context of the top process gives back exactly
\* its pages.
LEMMA DestroyedContext ==
  ASSUME NEW n \in 1 .. KPROC_MAX_COUNT, NEW t \in [Pages -> Pages], NEW a \in Nat,
         a = TABLES_START + 3 * (n - 1),
         t[a] = a + 1, t[a + 1] = a + 2, t[a + 2] = n * BLOCK_PAGES
  PROVE  /\ Destroyed(n, t, a).bitmap = Layout(KERNEL_TABLES, n - 1)
         /\ Destroyed(n, t, a).tables = [t EXCEPT ![a] = EMPTY]
PROOF
  <1> DEFINE freed == Destroyed(n, t, a)
  <1>f. freed = memory_destroy_context([bitmap |-> Layout(KERNEL_TABLES, n),
                                        tables |-> t, table |-> NULL], a)
    BY DEF Destroyed
  <1> HIDE DEF freed
  <1> DEFINE K == KERNEL_TABLES
             B == BLOCK_PAGES
             block == n * B
             m == [bitmap |-> Layout(K, n), tables |-> t, table |-> NULL]
  <1>1. /\ n \in Nat /\ n - 1 \in Nat /\ n - 1 \in 0 .. KPROC_MAX_COUNT
        /\ n \in 0 .. KPROC_MAX_COUNT /\ (n - 1) + 1 = n
        /\ a \in Nat /\ a > 0 /\ a + 3 <= B /\ B \in Nat /\ B > 0 /\ K \in Nat
        /\ RESERVED_END + K + 3 * n = a + 3
        /\ RESERVED_END + K + 3 * (n - 1) = a
    BY Sizes
  <1>2. /\ block \in Nat /\ (n + 1) * B = block + B /\ block + B <= PERIPH_START
        /\ B <= block
    <2>1. (0 + 1) * B <= block
      BY <1>1, BlockPlaces
    <2> QED BY <1>1, <2>1, BlockPlaces
  <1>3. a \in Pages /\ a + 1 \in Pages /\ a + 2 \in Pages /\ block \in Pages
    <2> HIDE DEF block, B
    <2> QED BY <1>1, <1>2, Sizes DEF Pages
  <1>4. /\ Level1(t, a) = a + 1 /\ Level2(t, a) = a + 2 /\ t[a + 2] = block
        /\ a + 1 # EMPTY /\ a + 2 # EMPTY /\ block # EMPTY
    <2> HIDE DEF block, B
    <2> QED BY <1>1, <1>2 DEF Level1, Level2, EMPTY, block, B
  <1> DEFINE b1 == memory_allocator_free_pages(Layout(K, n), block, B)
             b2 == memory_allocator_free_pages(b1, a + 2, 1)
             b3 == memory_allocator_free_pages(b2, a + 1, 1)
             cleared == [t EXCEPT ![a] = EMPTY]
  <1>5. mmu_destroy_entry(m, a) = [m EXCEPT !.bitmap = b3, !.tables[a] = EMPTY]
    <2> HIDE DEF block, B
    <2> QED BY <1>4 DEF mmu_destroy_entry, B
  <1>6. freed = [bitmap |-> memory_allocator_free_pages(b3, a, 1),
                 tables |-> cleared, table |-> NULL]
    <2>1. m.tables[a] # EMPTY
      BY <1>4 DEF Level1
    <2>2. freed = memory_mmu_destroy_table(m, a)
      BY <1>f DEF memory_destroy_context
    <2> HIDE DEF b3
    <2>3. mmu_destroy_entry(m, a)
            = [bitmap |-> b3, tables |-> cleared, table |-> NULL]
      BY <1>5
    <2> HIDE DEF cleared
    <2> QED BY <2>1, <2>2, <2>3 DEF memory_mmu_destroy_table
  <1>7. b1 = Layout(K, n) \ Run(block, B)
    <2>1. block % PAGES_PER_ENTRY = 0
      BY <1>1, BlockStartsEntry
    <2> HIDE DEF block, B
    <2> QED BY <1>1, <1>2, <2>1, Sizes, FreeMultipleIsExact DEF memory_allocator_free_pages
  <1>8. memory_allocator_free_pages(b3, a, 1) = b1 \ {a, a + 1, a + 2}
    <2> HIDE DEF b1
    <2>1. b2 = b1 \ {a + 2}
      BY <1>3, FreeOnePage
    <2>2. b3 = b2 \ {a + 1}
      BY <1>3, FreeOnePage
    <2> HIDE DEF b2, b3
    <2>3. memory_allocator_free_pages(b3, a, 1) = b3 \ {a}
      BY <1>3, FreeOnePage
    <2> QED BY <2>1, <2>2, <2>3
  <1>9. (Layout(K, n) \ Run(block, B)) \ {a, a + 1, a + 2} = Layout(K, n - 1)
    <2>1. Layout(K, n) = (0 .. ((a + 3) - 1)) \cup (B .. ((block + B) - 1))
                           \cup (PERIPH_START .. (PageCount - 1))
      <3> HIDE DEF block
      <3> QED BY <1>1, <1>2, LayoutBounds
    <2>2. Layout(K, n - 1) = (0 .. (a - 1)) \cup (B .. (block - 1))
                               \cup (PERIPH_START .. (PageCount - 1))
      <3>1. block = ((n - 1) + 1) * BLOCK_PAGES
        BY <1>1
      <3> HIDE DEF block
      <3> QED BY <1>1, <3>1, LayoutBounds
    <2> HIDE DEF block, B
    <2> QED BY <1>1, <1>2, <2>1, <2>2, Sizes DEF Run
  <1> HIDE DEF b1, b3, block, B, K
  <1>10. memory_allocator_free_pages(b3, a, 1) = Layout(KERNEL_TABLES, n - 1)
    BY <1>7, <1>8, <1>9 DEF K
  <1>11. freed.bitmap = memory_allocator_free_pages(b3, a, 1)
    BY <1>6
  <1>12. freed.tables = cleared
    <2> HIDE DEF cleared
    <2> QED BY <1>6
  <1> QED BY <1>10, <1>11, <1>12 DEF freed

-----------------------------------------------------------------------------
(***************************************************************************)
(* The inductive invariant.                                                *)
(***************************************************************************)
LEMMA LayoutInMemory ==
  ASSUME NEW kernel \in 0 .. KERNEL_TABLES, NEW n \in 0 .. KPROC_MAX_COUNT
  PROVE  Layout(kernel, n) \subseteq Pages
PROOF
  <1> DEFINE x == RESERVED_END + kernel + 3 * n
             y == (n + 1) * BLOCK_PAGES
  <1>1. x \in Nat /\ x <= PageCount /\ PageCount \in Nat /\ PERIPH_START \in Nat
    BY Sizes
  <1>2. y \in Nat /\ y <= PageCount
    <2>1. y = n * BLOCK_PAGES + BLOCK_PAGES /\ n * BLOCK_PAGES \in Nat /\ y <= PERIPH_START
      BY BlockPlaces
    <2> HIDE DEF y
    <2> QED BY <2>1, Sizes
  <1>3. Layout(kernel, n) = (0 .. (x - 1)) \cup (BLOCK_PAGES .. (y - 1))
                              \cup (PERIPH_START .. (PageCount - 1))
    BY LayoutBounds
  <1> HIDE DEF x, y
  <1> QED BY <1>1, <1>2, <1>3, Sizes DEF Pages

\* In the layout the chain of process i leads to its block.
LEMMA ChainPlaces ==
  ASSUME NEW i \in 1 .. KPROC_MAX_COUNT, Chain(i)
  PROVE  LET level0 == kproc_buffer[i].level0_table
         IN  /\ level0 = FirstTable(i)
             /\ Level1(tables, level0) = FirstTable(i) + 1
             /\ Level2(tables, level0) = FirstTable(i) + 2
             /\ Block(tables, level0) = i * BLOCK_PAGES
PROOF
  <1>1. FirstTable(i) \in Nat
    BY Sizes DEF FirstTable
  <1>2. FirstTable(i) + 1 + 1 = FirstTable(i) + 2
    BY <1>1
  <1> QED BY <1>2 DEF Chain, Level1, Level2, Block

\* What leaves the stack and the tables alone keeps the layout.
LEMMA SameLayout ==
  ASSUME LifoLayout, UNCHANGED <<memory, len>>,
         \A i \in 1 .. len : kproc_buffer'[i].level0_table = kproc_buffer[i].level0_table
  PROVE  LifoLayout'
  BY DEF LifoLayout, Layout, Chain, FirstTable, memory

LEMMA InitialState == Init => IInv
PROOF
  <1> SUFFICES ASSUME Init PROVE IInv
    OBVIOUS
  <1>1. len = 0 /\ kernel_tables = 0 /\ pc = "memory_init" /\ s_bitmap = Layout(0, 0)
    BY InitialLayout DEF Init
  <1>2. NULL \in Pages /\ EMPTY \in Pages
    BY Sizes DEF Pages, NULL, EMPTY
  <1>3. cpu \in Registers
    BY DEF Init
  <1>4. mem \in [Frames -> Contents]
    BY DEF Init, Contents, NO_TEXT
  <1>5. kproc_buffer \in [Procs -> [level0_table : Pages, suspend : Registers]]
    BY <1>2, <1>3 DEF Init
  <1>6. s_bitmap \subseteq Pages
    BY <1>1, Sizes, LayoutInMemory
  <1>7. TypeOK
    BY <1>1, <1>2, <1>3, <1>4, <1>5, <1>6, Sizes DEF Init, TypeOK, Steps, Requests
  <1>8. LifoLayout
    BY <1>1 DEF LifoLayout
  <1>9. Control
    BY <1>1 DEF Control, Doing
  <1>10. Switched
    BY <1>1 DEF Switched, Settled
  <1> QED BY <1>7, <1>8, <1>9, <1>10 DEF IInv

LEMMA InductiveStep == IInv /\ [Next]_vars => IInv'
PROOF
  <1> SUFFICES ASSUME IInv, [Next]_vars PROVE IInv'
    OBVIOUS
  <1> USE DEF IInv
  <1>1. CASE MapKernelRegion
    <2>1. /\ len = 0 /\ len' = len /\ kernel_tables \in 0 .. KERNEL_TABLES
          /\ kernel_tables < KERNEL_TABLES /\ kernel_tables' = kernel_tables + 1
          /\ pc = "memory_init" /\ pc' = pc
      BY <1>1 DEF MapKernelRegion, Control, TypeOK
    <2> DEFINE p == RESERVED_END + kernel_tables
    <2>2. p \in Nat /\ p = RESERVED_END + kernel_tables + 3 * 0 + 0 /\ p < BLOCK_PAGES
      BY <2>1, Sizes
    <2>3. s_bitmap = Partial(kernel_tables, 0, 0)
      BY <2>1, PartialZero, Sizes DEF LifoLayout
    <2>4. memory_allocator_claim_pages(s_bitmap, 1, 1)
            = [page |-> p, bitmap |-> Partial(kernel_tables, 0, 1)]
      <3>1. 0 \in 0 .. KPROC_MAX_COUNT /\ 0 \in 0 .. 2 /\ 0 + 1 = 1
        BY Sizes
      <3> HIDE DEF p
      <3> QED BY <2>1, <2>2, <2>3, <3>1, ClaimTable
    <2>5. Partial(kernel_tables, 0, 1) = Layout(kernel_tables', 0)
      BY <2>1, Sizes DEF Partial, Layout
    <2>6. s_bitmap' = Layout(kernel_tables', 0)
      BY <1>1, <2>4, <2>5 DEF MapKernelRegion
    <2>7. s_bitmap' \subseteq Pages
      BY <2>1, <2>6, LayoutInMemory, Sizes
    <2>8. TypeOK'
      BY <1>1, <2>1, <2>7, Sizes DEF MapKernelRegion, TypeOK
    <2>9. LifoLayout'
      BY <2>1, <2>6 DEF LifoLayout, Layout
    <2>10. Control' /\ Switched'
      BY <1>1, <2>1 DEF MapKernelRegion, Control, Switched, Settled, Doing
    <2> QED BY <2>8, <2>9, <2>10
  <1>2. CASE MemoryReady
    <2>1. TypeOK' /\ Control' /\ Switched'
      BY <1>2 DEF MemoryReady, memory, TypeOK, Control, Switched, Settled, Doing
    <2>2. LifoLayout'
      BY <1>2, SameLayout DEF MemoryReady
    <2> QED BY <2>1, <2>2
  <1>3. ASSUME NEW p \in PROGS, kproc_exec(p)
        PROVE  IInv'
    <2>1. TypeOK' /\ Control' /\ Switched'
      BY <1>3, Sizes
         DEF kproc_exec, memory, TypeOK, Control, Switched, Settled, Doing, Steps, Requests
    <2>2. LifoLayout'
      BY <1>3, SameLayout DEF kproc_exec
    <2> QED BY <2>1, <2>2
  <1>4. CASE StackFull
    <2>1. cpu' \in Registers
      BY <1>4 DEF StackFull, TypeOK, Registers, X0
    <2>2. TypeOK' /\ Control' /\ Switched'
      BY <1>4, <2>1
         DEF StackFull, memory, TypeOK, Control, Switched, Settled, Doing, Top
    <2>3. LifoLayout'
      BY <1>4, SameLayout DEF StackFull
    <2> QED BY <2>2, <2>3
  <1>5. CASE kproc_start
    <2>1. TypeOK' /\ Control' /\ Switched'
      BY <1>5, Sizes DEF kproc_start, Requested, Requests, SwitchThen, kbuffer_stack_full,
                         memory, TypeOK, Steps, Control, Switched, Settled, Doing
    <2>2. LifoLayout'
      BY <1>5, SameLayout DEF kproc_start
    <2> QED BY <2>1, <2>2
  <1>6. CASE LastProcess
    <2>1. cpu' \in Registers
      BY <1>6 DEF LastProcess, TypeOK, Registers, X0
    <2>2. TypeOK' /\ Control' /\ Switched'
      BY <1>6, <2>1
         DEF LastProcess, memory, TypeOK, Control, Switched, Settled, Doing, Top
    <2>3. LifoLayout'
      BY <1>6, SameLayout DEF LastProcess
    <2> QED BY <2>2, <2>3
  <1>7. CASE kproc_exit
    <2>1. TypeOK' /\ Control' /\ Switched'
      BY <1>7 DEF kproc_exit, kproc_count, memory, TypeOK, Steps, Control, Switched,
                  Settled, Doing, Top
    <2>2. LifoLayout'
      BY <1>7, SameLayout DEF kproc_exit
    <2> QED BY <2>1, <2>2
  <1>8. CASE msr_ttbr0_el1
    <2>1. len \in Procs
      BY <1>8 DEF msr_ttbr0_el1, Control, TypeOK, Doing, Procs
    <2>2. TypeOK' /\ Control' /\ Switched'
      BY <1>8, <2>1
         DEF msr_ttbr0_el1, memory, TypeOK, Steps, Control, Switched, Settled, Doing, Top
    <2>3. LifoLayout'
      BY <1>8, SameLayout DEF msr_ttbr0_el1
    <2> QED BY <2>2, <2>3
  <1>9. CASE tlbi_vmalle1
    <2>1. TypeOK' /\ Control' /\ Switched'
      BY <1>9 DEF tlbi_vmalle1, memory, TypeOK, Steps, Control, Switched, Settled,
                  Doing, Top
    <2>2. LifoLayout'
      BY <1>9, SameLayout DEF tlbi_vmalle1
    <2> QED BY <2>1, <2>2
  <1>10. CASE AllocStep
    <2> DEFINE a == TABLES_START + 3 * len
               block == (len + 1) * BLOCK_PAGES
    <2>1. /\ len \in 0 .. (KPROC_MAX_COUNT - 1) /\ kernel_tables = KERNEL_TABLES
          /\ s_bitmap = Layout(KERNEL_TABLES, len) /\ tables \in [Pages -> Pages]
      BY <1>10, Sizes DEF AllocStep, TypeOK, Control, LifoLayout
    <2>a. /\ len' = len + 1 /\ kernel_tables' = KERNEL_TABLES
          /\ kproc_buffer' = [kproc_buffer EXCEPT ![len + 1].level0_table
                                                     = Created(len, tables).table]
          /\ s_bitmap' = CreatedAndMapped(len, tables).bitmap
          /\ tables' = CreatedAndMapped(len, tables).tables
          /\ pc' = "msr" /\ then' = IF len = 0 THEN "exec" ELSE "init"
          /\ UNCHANGED <<ttbr0, tlb, mem, cpu, prog>>
      BY <1>10, <2>1
         DEF AllocStep, kproc_alloc, SwitchThen, Created, CreatedAndMapped
    <2>b. /\ \A k \in 0 .. 2 : a + k \in Pages
          /\ block \in Pages
          /\ Created(len, tables).table = a
          /\ CreatedAndMapped(len, tables).bitmap = Layout(KERNEL_TABLES, len + 1)
          /\ CreatedAndMapped(len, tables).tables = WithChain(tables, a, block)
      BY <2>1, CreatedContext
    <2> HIDE DEF a, block
    <2>2. /\ len' = len + 1 /\ kernel_tables' = KERNEL_TABLES
          /\ kproc_buffer' = [kproc_buffer EXCEPT ![len + 1].level0_table = a]
          /\ s_bitmap' = Layout(KERNEL_TABLES, len + 1)
          /\ tables' = [tables EXCEPT ![a] = a + 1, ![a + 1] = a + 2, ![a + 2] = block]
          /\ pc' = "msr" /\ then' = IF len = 0 THEN "exec" ELSE "init"
          /\ UNCHANGED <<ttbr0, tlb, mem, cpu, prog>>
      BY <2>a, <2>b DEF WithChain
    <2>3. a \in Nat /\ a \in Pages /\ a + 1 \in Pages /\ a + 2 \in Pages /\ block \in Pages
      <3>1. a \in Nat /\ a + 0 = a
        BY <2>1, Sizes DEF a
      <3> QED BY <2>b, <3>1
    <2>4. len + 1 \in Procs /\ len + 1 \in 1 .. KPROC_MAX_COUNT
      BY <2>1, Sizes DEF Procs
    <2>5. TypeOK'
      <3>1. s_bitmap' \subseteq Pages
        BY <2>2, <2>3, <2>4, LayoutInMemory, Sizes
      <3>2. tables' \in [Pages -> Pages]
        <4> HIDE DEF block
        <4> QED BY <2>1, <2>2, <2>3 DEF block
      <3>3. kproc_buffer' \in [Procs -> [level0_table : Pages, suspend : Registers]]
        BY <2>2, <2>3, <2>4 DEF TypeOK
      <3> QED BY <2>1, <2>2, <2>4, <3>1, <3>2, <3>3, Sizes DEF TypeOK, Steps
    <2>6. LifoLayout'
      <3>1. s_bitmap' = Layout(kernel_tables', len')
        BY <2>2, <2>3
      <3>2. ASSUME NEW i \in 1 .. len'
            PROVE  Chain(i)'
        <4>1. CASE i = len + 1
          <5>1. FirstTable(i) = a
            BY <2>1, <4>1, Sizes DEF FirstTable, a
          <5>2. kproc_buffer'[i].level0_table = a
            BY <2>2, <2>3, <2>4, <4>1 DEF TypeOK
          <5>3. /\ tables'[a] = a + 1 /\ tables'[a + 1] = a + 2
                /\ tables'[a + 2] = i * BLOCK_PAGES
            <6> HIDE DEF block
            <6> QED BY <2>1, <2>2, <2>3, <4>1 DEF block
          <5> QED BY <5>1, <5>2, <5>3 DEF Chain, FirstTable
        <4>2. CASE i # len + 1
          <5>1. i \in 1 .. len /\ i \in Procs
            <6>1. i \in 1 .. (len + 1)
              BY <2>2
            <6> HIDE DEF block
            <6> QED BY <2>1, <4>2, <6>1, Sizes DEF Procs
          <5>2. Chain(i)
            BY <5>1 DEF LifoLayout
          <5>3. FirstTable(i) \in Nat /\ FirstTable(i) + 2 < a
            BY <2>1, <5>1, Sizes DEF FirstTable, a
          <5>4. /\ tables'[FirstTable(i)] = tables[FirstTable(i)]
                /\ tables'[FirstTable(i) + 1] = tables[FirstTable(i) + 1]
                /\ tables'[FirstTable(i) + 2] = tables[FirstTable(i) + 2]
            <6>1. /\ FirstTable(i) \in Pages /\ FirstTable(i) + 1 \in Pages
                  /\ FirstTable(i) + 2 \in Pages
              BY <2>3, <5>3, Sizes DEF Pages
            <6> HIDE DEF block
            <6> QED BY <2>1, <2>2, <2>3, <5>3, <6>1 DEF block
          <5>5. kproc_buffer'[i].level0_table = kproc_buffer[i].level0_table
            BY <2>2, <2>4, <4>2, <5>1 DEF TypeOK
          <5> QED BY <5>2, <5>4, <5>5 DEF Chain, FirstTable
        <4> QED BY <4>1, <4>2
      <3> QED BY <3>1, <3>2 DEF LifoLayout
    <2>7. Control' /\ Switched'
      BY <2>1, <2>2 DEF Control, Switched, Settled, Doing, TypeOK
    <2> QED BY <2>5, <2>6, <2>7
  <1>11. CASE ExecStep \/ InitStep \/ CopyFaults
    <2>1. cpu' \in Registers
      BY <1>11, ProcAssumption DEF ExecStep, InitStep, CopyFaults, TypeOK, Registers, X0
    <2>2. mem' \in [Frames -> Contents]
      <3>1. mem \in [Frames -> Contents] /\ prog \in Requests /\ kproc_init
        BY <1>11 DEF ExecStep, InitStep, CopyFaults, TypeOK
      <3>2. PICK page : \/ prog \in PROGS /\ LoadText(page)
                        \/ prog = BEYOND /\ LoadAnything(page)
        BY <3>1 DEF kproc_init
      <3> QED BY <3>1, <3>2 DEF LoadText, LoadAnything, Contents, Requests
    <2>3. TypeOK' /\ Control' /\ Switched'
      BY <1>11, <2>1, <2>2 DEF ExecStep, InitStep, CopyFaults, memory, TypeOK, Steps,
                               Control, Switched, Settled, Doing, Top
    <2>4. LifoLayout'
      BY <1>11, SameLayout DEF ExecStep, InitStep, CopyFaults
    <2> QED BY <2>3, <2>4
  <1>12. CASE kproc_suspend
    <2>1. len \in Procs
      BY <1>12 DEF kproc_suspend, Control, Doing, TypeOK, Procs
    <2>2. kproc_buffer' = [kproc_buffer EXCEPT ![len].suspend = cpu]
      BY <1>12 DEF kproc_suspend
    <2>3. kproc_buffer' \in [Procs -> [level0_table : Pages, suspend : Registers]]
      BY <2>1, <2>2 DEF TypeOK
    <2>4. TypeOK' /\ Control' /\ Switched'
      BY <1>12, <2>3 DEF kproc_suspend, memory, TypeOK, Steps, Control, Switched,
                         Settled, Doing
    <2>5. \A i \in 1 .. len : kproc_buffer'[i].level0_table = kproc_buffer[i].level0_table
      BY <2>1, <2>2 DEF TypeOK, Procs
    <2>6. LifoLayout'
      BY <1>12, <2>5, SameLayout DEF kproc_suspend
    <2> QED BY <2>4, <2>6
  <1>13. CASE FreeStep
    <2> DEFINE a == TABLES_START + 3 * (len - 1)
    <2>1. /\ len \in 1 .. KPROC_MAX_COUNT /\ len > 1 /\ kernel_tables = KERNEL_TABLES
          /\ s_bitmap = Layout(KERNEL_TABLES, len) /\ tables \in [Pages -> Pages]
          /\ Chain(len) /\ len - 1 \in 0 .. KPROC_MAX_COUNT
      BY <1>13, Sizes DEF FreeStep, TypeOK, Control, LifoLayout
    <2>a. /\ Top.level0_table = a /\ tables[a] = a + 1 /\ tables[a + 1] = a + 2
          /\ tables[a + 2] = len * BLOCK_PAGES
      BY <2>1 DEF Chain, FirstTable, Top
    <2>b. a \in Nat /\ a = TABLES_START + 3 * (len - 1)
      BY <2>1, Sizes
    <2> HIDE DEF a
    <2>c. /\ Destroyed(len, tables, a).bitmap = Layout(KERNEL_TABLES, len - 1)
          /\ Destroyed(len, tables, a).tables = [tables EXCEPT ![a] = EMPTY]
      BY <2>1, <2>a, <2>b, DestroyedContext
    <2>2. /\ len' = len - 1 /\ kernel_tables' = KERNEL_TABLES
          /\ s_bitmap' = Destroyed(len, tables, a).bitmap
          /\ tables' = Destroyed(len, tables, a).tables
          /\ pc' = "msr" /\ then' = "restore"
          /\ UNCHANGED <<kproc_buffer, ttbr0, tlb, mem, cpu, prog>>
      BY <1>13, <2>1, <2>a DEF FreeStep, kproc_free, SwitchThen, Destroyed
    <2>3. s_bitmap' = Layout(KERNEL_TABLES, len - 1) /\ tables' = [tables EXCEPT ![a] = EMPTY]
      BY <2>2, <2>c
    <2>4. TypeOK'
      <3>1. s_bitmap' \subseteq Pages
        BY <2>1, <2>2, <2>3, LayoutInMemory, Sizes
      <3>2. EMPTY \in Pages
        BY Sizes DEF EMPTY, Pages
      <3>3. tables' \in [Pages -> Pages]
        BY <2>1, <2>2, <2>3, <3>2
      <3> QED BY <2>1, <2>2, <3>1, <3>3, Sizes DEF TypeOK, Steps
    <2>5. LifoLayout'
      <3>1. ASSUME NEW i \in 1 .. len'
            PROVE  Chain(i)'
        <4>1. i \in 1 .. len /\ i < len
          BY <2>1, <2>2
        <4>2. Chain(i)
          BY <4>1 DEF LifoLayout
        <4>3. FirstTable(i) \in Nat /\ FirstTable(i) + 2 < a /\ a \in Nat
          BY <2>1, <2>b, <4>1, Sizes DEF FirstTable
        <4>4. /\ tables'[FirstTable(i)] = tables[FirstTable(i)]
              /\ tables'[FirstTable(i) + 1] = tables[FirstTable(i) + 1]
              /\ tables'[FirstTable(i) + 2] = tables[FirstTable(i) + 2]
          <5>1. /\ FirstTable(i) \in Pages /\ FirstTable(i) + 1 \in Pages
                /\ FirstTable(i) + 2 \in Pages
            <6>1. a + 3 <= BLOCK_PAGES
              BY <2>1, <2>b, Sizes
            <6> QED BY <4>3, <6>1, Sizes DEF Pages
          <5> QED BY <2>1, <2>2, <2>3, <4>3, <5>1
        <4> QED BY <2>2, <4>2, <4>4 DEF Chain, FirstTable
      <3> QED BY <2>2, <2>3, <3>1 DEF LifoLayout
    <2>6. Control' /\ Switched'
      BY <2>1, <2>2 DEF Control, Switched, Settled, Doing, TypeOK
    <2> QED BY <2>4, <2>5, <2>6
  <1>14. CASE kproc_restore
    <2>1. len \in Procs
      BY <1>14 DEF kproc_restore, Control, Doing, TypeOK, Procs
    <2>2. cpu' \in Registers
      BY <1>14, <2>1 DEF kproc_restore, TypeOK, Registers, X0, Top
    <2>3. TypeOK' /\ Control' /\ Switched'
      BY <1>14, <2>2 DEF kproc_restore, memory, TypeOK, Steps, Control, Switched,
                         Settled, Doing, Top
    <2>4. LifoLayout'
      BY <1>14, SameLayout DEF kproc_restore
    <2> QED BY <2>3, <2>4
  <1>15. CASE UserComputes \/ UserWrites
    <2>1. cpu' \in Registers
      BY <1>15 DEF UserComputes, UserWrites, TypeOK, Registers, X0
    <2>2. mem' \in [Frames -> Contents]
      BY <1>15 DEF UserComputes, UserWrites, TypeOK, Contents
    <2>3. TypeOK' /\ Control' /\ Switched'
      BY <1>15, <2>1, <2>2 DEF UserComputes, UserWrites, memory, TypeOK, Steps,
                               Control, Switched, Settled, Doing, Top
    <2>4. LifoLayout'
      BY <1>15, SameLayout DEF UserComputes, UserWrites
    <2> QED BY <2>3, <2>4
  <1>16. CASE Speculate
    <2>1. Walk \subseteq Pages
      BY Sizes DEF Walk, Block, Mapped, TypeOK, Pages
    <2>2. pc \in Settled => Walk \subseteq {Block(tables, Top.level0_table)}
      <3> SUFFICES ASSUME pc \in Settled PROVE Walk \subseteq {Block(tables, ttbr0)}
        BY DEF Switched
      <3>1. len \in 1 .. KPROC_MAX_COUNT
        BY DEF Settled, Control, Doing, TypeOK
      <3>2. ttbr0 = FirstTable(len)
        BY <3>1 DEF Switched, LifoLayout, Chain, Top
      <3>3. ttbr0 # NULL
        BY <3>1, <3>2, Sizes DEF FirstTable, NULL
      <3> QED BY <3>3 DEF Walk
    <2>3. TypeOK' /\ Control' /\ Switched'
      BY <1>16, <2>1, <2>2 DEF Speculate, memory, TypeOK, Steps, Control, Switched,
                               Settled, Doing, Top
    <2>4. LifoLayout'
      BY <1>16, SameLayout DEF Speculate
    <2> QED BY <2>3, <2>4
  <1>17. CASE CopyFaultsAgain \/ UNCHANGED vars
    <2> USE DEF CopyFaultsAgain
    <2>1. TypeOK' /\ Control' /\ Switched'
      BY <1>17 DEF vars, TypeOK, Control, Switched, Settled, Doing, Top
    <2>2. LifoLayout'
      BY <1>17, SameLayout DEF vars, memory
    <2> QED BY <2>1, <2>2
  <1> QED
    BY <1>1, <1>2, <1>3, <1>4, <1>5, <1>6, <1>7, <1>8, <1>9, <1>10, <1>11, <1>12,
       <1>13, <1>14, <1>15, <1>16, <1>17
       DEF Next, memory_init, kcall_proc_start, kcall_proc_exit, KernelStep

\* The invariant of the proofs holds in every reachable state: the layout of
\* memory, the depth of the process stack at every step of the kernel and
\* the translations the TLB may hold.
THEOREM InvariantHolds == Spec => []IInv
PROOF
  <1> QED BY InitialState, InductiveStep, PTL DEF Spec

\* Every variable keeps its type: in particular the stack never grows beyond
\* kproc_buffer, and no table or TLB entry leads out of memory.
THEOREM TypesHold == Spec => []TypeOK
PROOF
  <1>1. IInv => TypeOK
    BY DEF IInv
  <1> QED BY <1>1, InvariantHolds, PTL

\* Processes lie in memory in the order in which they were started, without
\* gaps, whatever was started and has exited before.
THEOREM LayoutHolds == Spec => []LifoLayout
PROOF
  <1>1. IInv => LifoLayout
    BY DEF IInv
  <1> QED BY <1>1, InvariantHolds, PTL

-----------------------------------------------------------------------------
(***************************************************************************)
(* Isolation, accounting and separation of translations follow from the    *)
(* layout.                                                                 *)
(***************************************************************************)
LEMMA ProcessPlaces ==
  ASSUME IInv, NEW i \in 1 .. len
  PROVE  /\ i \in 1 .. KPROC_MAX_COUNT
         /\ FirstTable(i) \in Nat
         /\ TablePages(i) = {FirstTable(i), FirstTable(i) + 1, FirstTable(i) + 2}
         /\ TABLES_START <= FirstTable(i) /\ FirstTable(i) + 2 < BLOCK_PAGES
         /\ i * BLOCK_PAGES \in Nat
         /\ BlockPages(i) = (i * BLOCK_PAGES) .. (i * BLOCK_PAGES + BLOCK_PAGES - 1)
         /\ BLOCK_PAGES <= i * BLOCK_PAGES
         /\ i * BLOCK_PAGES + BLOCK_PAGES <= PERIPH_START
PROOF
  <1>1. i \in 1 .. KPROC_MAX_COUNT /\ i \in 0 .. KPROC_MAX_COUNT /\ Chain(i) /\ 0 < i
    BY Sizes DEF IInv, TypeOK, LifoLayout
  <1>2. /\ FirstTable(i) \in Nat
        /\ TABLES_START <= FirstTable(i) /\ FirstTable(i) + 2 < BLOCK_PAGES
    BY <1>1, Sizes DEF FirstTable
  <1>3. TablePages(i) = {FirstTable(i), FirstTable(i) + 1, FirstTable(i) + 2}
    BY <1>1, ChainPlaces DEF TablePages
  <1>4. BlockPages(i) = (i * BLOCK_PAGES) .. (i * BLOCK_PAGES + BLOCK_PAGES - 1)
    BY <1>1, ChainPlaces DEF BlockPages, Run
  <1>5. (0 + 1) * BLOCK_PAGES <= i * BLOCK_PAGES
    BY <1>1, BlockPlaces
  <1>6. /\ i * BLOCK_PAGES \in Nat
        /\ i * BLOCK_PAGES + BLOCK_PAGES <= PERIPH_START
    BY <1>1, BlockPlaces
  <1>7. BLOCK_PAGES <= i * BLOCK_PAGES
    BY <1>5, Sizes
  <1> QED BY <1>1, <1>2, <1>3, <1>4, <1>6, <1>7

LEMMA KernelPlaces ==
  ASSUME IInv
  PROVE  KernelPages \subseteq (0 .. (TABLES_START - 1)) \cup (PERIPH_START .. (PageCount - 1))
PROOF
  <1>1. kernel_tables \in 0 .. KERNEL_TABLES
    BY DEF IInv, TypeOK
  <1> QED BY <1>1, Sizes DEF KernelPages

LEMMA IsolationFollows == IInv => Isolation
PROOF
  <1> SUFFICES ASSUME IInv, NEW i \in 1 .. len
               PROVE  /\ ProcPages(i) \cap KernelPages = {}
                      /\ TablePages(i) \cap BlockPages(i) = {}
                      /\ \A j \in 1 .. len : i # j => ProcPages(i) \cap ProcPages(j) = {}
    BY DEF Isolation
  <1> DEFINE p == i * BLOCK_PAGES
  <1>1. /\ FirstTable(i) \in Nat /\ p \in Nat
        /\ TablePages(i) = {FirstTable(i), FirstTable(i) + 1, FirstTable(i) + 2}
        /\ TABLES_START <= FirstTable(i) /\ FirstTable(i) + 2 < BLOCK_PAGES
        /\ BlockPages(i) = p .. (p + BLOCK_PAGES - 1)
        /\ BLOCK_PAGES <= p /\ p + BLOCK_PAGES <= PERIPH_START
    BY ProcessPlaces
  <1>2. ProcPages(i) \cap KernelPages = {}
    <2> HIDE DEF p
    <2> QED BY <1>1, KernelPlaces, Sizes DEF ProcPages
  <1>3. TablePages(i) \cap BlockPages(i) = {}
    <2> HIDE DEF p
    <2> QED BY <1>1, Sizes
  <1>4. ASSUME NEW j \in 1 .. len, i # j
        PROVE  ProcPages(i) \cap ProcPages(j) = {}
    <2> DEFINE q == j * BLOCK_PAGES
    <2>1. /\ FirstTable(j) \in Nat /\ q \in Nat
          /\ TablePages(j) = {FirstTable(j), FirstTable(j) + 1, FirstTable(j) + 2}
          /\ FirstTable(j) + 2 < BLOCK_PAGES
          /\ BlockPages(j) = q .. (q + BLOCK_PAGES - 1)
          /\ BLOCK_PAGES <= q
      BY ProcessPlaces
    <2>2. i \in 0 .. KPROC_MAX_COUNT /\ j \in 0 .. KPROC_MAX_COUNT
      BY ProcessPlaces, Sizes
    <2>3. TablePages(i) \cap TablePages(j) = {}
      <3>1. FirstTable(i) + 2 < FirstTable(j) \/ FirstTable(j) + 2 < FirstTable(i)
        BY <2>2, <1>4, Sizes DEF FirstTable
      <3> HIDE DEF p, q
      <3> QED BY <1>1, <2>1, <3>1
    <2>4. p + BLOCK_PAGES <= q \/ q + BLOCK_PAGES <= p
      <3>1. CASE i < j
        <4>1. (i + 1) * BLOCK_PAGES <= q /\ (i + 1) * BLOCK_PAGES = p + BLOCK_PAGES
          BY <2>2, <3>1, BlockPlaces
        <4> QED BY <4>1
      <3>2. CASE j < i
        <4>1. (j + 1) * BLOCK_PAGES <= p /\ (j + 1) * BLOCK_PAGES = q + BLOCK_PAGES
          BY <2>2, <3>2, BlockPlaces
        <4> QED BY <4>1
      <3> QED BY <1>4, <2>2, <3>1, <3>2
    <2> HIDE DEF p, q
    <2>5. BlockPages(i) \cap BlockPages(j) = {}
      BY <1>1, <2>1, <2>4, Sizes
    <2>6. TablePages(i) \cap BlockPages(j) = {} /\ TablePages(j) \cap BlockPages(i) = {}
      BY <1>1, <2>1, Sizes
    <2> QED BY <2>3, <2>5, <2>6 DEF ProcPages
  <1> QED BY <1>2, <1>3, <1>4

\* No two processes share memory, and none shares it with the kernel, after
\* any sequence of starts and exits and although the allocator's search
\* sees only a part of its bitmap.
THEOREM IsolationHolds == Spec => []Isolation
PROOF
  <1> QED BY InvariantHolds, IsolationFollows, PTL

LEMMA AccountingFollows == IInv => Accounting
PROOF
  <1> SUFFICES ASSUME IInv PROVE Accounting
    OBVIOUS
  <1> DEFINE x == RESERVED_END + kernel_tables + 3 * len
             y == (len + 1) * BLOCK_PAGES
             Held == UNION {ProcPages(i) : i \in 1 .. len}
  <1>1. /\ len \in 0 .. KPROC_MAX_COUNT /\ kernel_tables \in 0 .. KERNEL_TABLES
        /\ s_bitmap = Layout(kernel_tables, len)
        /\ len > 0 => kernel_tables = KERNEL_TABLES
    BY DEF IInv, TypeOK, LifoLayout, Control
  <1>2. s_bitmap = (0 .. (x - 1)) \cup (BLOCK_PAGES .. (y - 1))
                     \cup (PERIPH_START .. (PageCount - 1))
    BY <1>1, LayoutBounds, Sizes
  <1>3. KernelPages = (0 .. (RESERVED_END + kernel_tables - 1))
                        \cup (PERIPH_START .. (PageCount - 1))
    BY DEF KernelPages
  <1>4. y \in Nat /\ y <= PERIPH_START
    BY <1>1, BlockPlaces, Sizes
  <1>5. ASSUME NEW i \in 1 .. len
        PROVE  ProcPages(i) \subseteq s_bitmap
    <2>1. TablePages(i) \subseteq 0 .. (x - 1)
      <3>1. /\ TablePages(i) = {FirstTable(i), FirstTable(i) + 1, FirstTable(i) + 2}
            /\ FirstTable(i) \in Nat
        BY ProcessPlaces
      <3>2. FirstTable(i) + 2 < x /\ x \in Nat
        BY <1>1, Sizes DEF FirstTable
      <3> HIDE DEF x
      <3> QED BY <3>1, <3>2
    <2>2. BlockPages(i) \subseteq BLOCK_PAGES .. (y - 1)
      <3> DEFINE p == i * BLOCK_PAGES
      <3>1. /\ BlockPages(i) = p .. (p + BLOCK_PAGES - 1)
            /\ p \in Nat /\ BLOCK_PAGES <= p
            /\ i \in 0 .. KPROC_MAX_COUNT
        BY ProcessPlaces, Sizes
      <3>2. (i + 1) * BLOCK_PAGES <= y /\ (i + 1) * BLOCK_PAGES = p + BLOCK_PAGES
        <4>1. i + 1 \in Nat /\ len + 1 \in Nat /\ i + 1 <= len + 1
          BY <1>1, <3>1
        <4> QED BY <3>1, <4>1, BlockPlaces, MultipleMonotone, Sizes
      <3> HIDE DEF p, y
      <3> QED BY <1>4, <3>1, <3>2, Sizes
    <2> QED BY <1>2, <2>1, <2>2 DEF ProcPages
  <1>6. ASSUME NEW page \in s_bitmap, page \notin KernelPages
        PROVE  page \in Held
    <2>1. CASE page \in 0 .. (x - 1)
      <3>1. page >= TABLES_START /\ kernel_tables = KERNEL_TABLES /\ page \in Nat
        BY <1>1, <1>3, <1>6, <2>1, Sizes
      <3> DEFINE d == page - TABLES_START
      <3>2. d \in Nat /\ d < 3 * len /\ page = TABLES_START + d
        BY <1>1, <2>1, <3>1, Sizes
      <3> HIDE DEF d
      <3> DEFINE k == d \div 3
      <3>3. k \in Nat /\ d % 3 \in 0 .. 2 /\ d = k * 3 + (d % 3)
        BY <3>2, Division
      <3> HIDE DEF k
      <3>4. k + 1 \in 1 .. len
        BY <1>1, <3>2, <3>3
      <3>5. FirstTable(k + 1) = TABLES_START + 3 * k
        BY <3>3, Sizes DEF FirstTable
      <3>6. page \in {FirstTable(k + 1), FirstTable(k + 1) + 1, FirstTable(k + 1) + 2}
        BY <3>2, <3>3, <3>5, Sizes
      <3>7. page \in TablePages(k + 1)
        BY <3>4, <3>6, ProcessPlaces
      <3> QED BY <3>4, <3>7 DEF ProcPages
    <2>2. CASE page \in BLOCK_PAGES .. (y - 1)
      <3>1. page \in Nat /\ BLOCK_PAGES \in Nat \ {0} /\ BLOCK_PAGES <= page /\ page < y
        BY <1>4, <2>2, Sizes
      <3> DEFINE k == page \div BLOCK_PAGES
                 p == k * BLOCK_PAGES
      <3>2. /\ k \in Nat /\ page % BLOCK_PAGES \in 0 .. (BLOCK_PAGES - 1)
            /\ page = p + (page % BLOCK_PAGES)
        BY <3>1, Division
      <3> HIDE DEF k
      <3>3. k >= 1
        <4> SUFFICES ASSUME k = 0 PROVE FALSE
          BY <3>2
        <4>1. p = 0
          BY <3>1
        <4> HIDE DEF p
        <4> QED BY <3>1, <3>2, <4>1
      <3>4. k <= len
        <4> SUFFICES ASSUME len + 1 <= k PROVE FALSE
          BY <1>1, <3>2
        <4>1. y <= p
          BY <1>1, <3>1, <3>2, MultipleMonotone
        <4>2. p \in Nat
          BY <3>1, <3>2
        <4> HIDE DEF p, y
        <4> QED BY <1>4, <3>1, <3>2, <4>1, <4>2
      <3>5. k \in 1 .. len
        BY <1>1, <3>2, <3>3, <3>4
      <3>6. BlockPages(k) = p .. (p + BLOCK_PAGES - 1) /\ p \in Nat
        BY <3>5, ProcessPlaces
      <3>7. page \in BlockPages(k)
        <4> HIDE DEF p
        <4> QED BY <3>1, <3>2, <3>6
      <3> QED BY <3>5, <3>7 DEF ProcPages
    <2> HIDE DEF x, y, Held
    <2> QED BY <1>2, <1>3, <1>6, <2>1, <2>2
  <1>7. KernelPages \subseteq s_bitmap
    <2>1. x \in Nat /\ RESERVED_END + kernel_tables <= x
      BY <1>1, Sizes
    <2> HIDE DEF x, y
    <2> QED BY <1>1, <1>2, <1>3, <2>1, Sizes
  <1> QED BY <1>5, <1>6, <1>7 DEF Accounting

\* The bitmap and the live processes agree about every page: exits give back
\* all that starts have claimed, and nothing else.
THEOREM AccountingHolds == Spec => []Accounting
PROOF
  <1> QED BY InvariantHolds, AccountingFollows, PTL

\* The block of the i-th process is the i-th block of memory.
LEMMA BlockIsFrame ==
  IInv => \A i \in 1 .. len :
            /\ i \in Procs /\ i \in Frames
            /\ Block(tables, kproc_buffer[i].level0_table) = i * BLOCK_PAGES
            /\ Frame(Block(tables, kproc_buffer[i].level0_table)) = i
PROOF
  <1> SUFFICES ASSUME IInv, NEW i \in 1 .. len
               PROVE  /\ i \in Procs /\ i \in Frames
                      /\ Block(tables, kproc_buffer[i].level0_table) = i * BLOCK_PAGES
                      /\ Frame(Block(tables, kproc_buffer[i].level0_table)) = i
    OBVIOUS
  <1>1. i \in 1 .. KPROC_MAX_COUNT /\ i \in Nat /\ Chain(i)
    BY ProcessPlaces DEF IInv, LifoLayout
  <1>2. BLOCK_PAGES \in Nat \ {0} /\ 0 \in 0 .. (BLOCK_PAGES - 1)
    BY Sizes
  <1> DEFINE block == i * BLOCK_PAGES
  <1>3. Block(tables, kproc_buffer[i].level0_table) = block
    BY <1>1, ChainPlaces
  <1>4. block \in Nat /\ block + BLOCK_PAGES <= PERIPH_START
    BY ProcessPlaces
  <1>5. block \div BLOCK_PAGES = i
    <2>1. (i * BLOCK_PAGES + 0) \div BLOCK_PAGES = i
      BY <1>1, <1>2, DivisionUnique
    <2>2. i * BLOCK_PAGES + 0 = block
      BY <1>4
    <2> QED BY <2>1, <2>2
  <1> DEFINE q == PageCount \div BLOCK_PAGES
             r == PageCount % BLOCK_PAGES
             top == q * BLOCK_PAGES
  <1>6. q \in Nat /\ r \in 0 .. (BLOCK_PAGES - 1) /\ PageCount = top + r /\ top \in Nat
    <2>1. PageCount \in Nat
      BY Sizes
    <2>2. q \in Nat /\ r \in 0 .. (BLOCK_PAGES - 1) /\ PageCount = top + r
      BY <1>2, <2>1, Division
    <2> HIDE DEF q
    <2> QED BY <1>2, <2>2
  <1>7. i <= q
    <2> HIDE DEF q, r
    <2> SUFFICES ASSUME q + 1 <= i PROVE FALSE
      BY <1>1, <1>6
    <2>1. (q + 1) * BLOCK_PAGES <= block
      BY <1>1, <1>2, <1>6, MultipleMonotone
    <2>2. (q + 1) * BLOCK_PAGES = top + BLOCK_PAGES
      BY <1>2, <1>6
    <2> HIDE DEF block, top
    <2> QED BY <1>2, <1>4, <1>6, <2>1, <2>2, Sizes
  <1>8. i \in Procs /\ i \in Frames
    <2> HIDE DEF q
    <2> QED BY <1>1, <1>6, <1>7, Sizes DEF Procs, Frames, q
  <1> HIDE DEF block
  <1> QED BY <1>3, <1>5, <1>8 DEF Frame, block

\* Between a switch and the next change of the stack, user memory is the
\* block of the top process.
LEMMA SettledTranslation ==
  ASSUME IInv, pc \in Settled
  PROVE  /\ len \in 1 .. len
         /\ Translations = {Block(tables, Top.level0_table)}
         /\ \A page \in Translations : Frame(page) = len
PROOF
  <1>1. len \in 1 .. len /\ len \in 1 .. KPROC_MAX_COUNT
    BY Sizes DEF IInv, TypeOK, Control, Settled, Doing
  <1>2. Chain(len) /\ FirstTable(len) \in Nat /\ FirstTable(len) > 0
    BY <1>1, Sizes DEF IInv, LifoLayout, FirstTable
  <1>3. ttbr0 = FirstTable(len) /\ tlb \subseteq {Block(tables, Top.level0_table)}
        /\ Top.level0_table = FirstTable(len)
    BY <1>2 DEF IInv, Switched, Chain, Top
  <1>4. Mapped(tables, ttbr0)
    BY <1>2, <1>3 DEF Mapped, Chain, EMPTY
  <1>5. Walk = {Block(tables, Top.level0_table)}
    BY <1>2, <1>3, <1>4 DEF Walk, NULL
  <1>6. Translations = {Block(tables, Top.level0_table)}
    BY <1>3, <1>5 DEF Translations
  <1>7. Frame(Block(tables, Top.level0_table)) = len
    BY <1>1, BlockIsFrame DEF Top
  <1> QED BY <1>1, <1>6, <1>7

\* The open part of the kernel half lies above all that is claimed, but for
\* the peripherals.
LEMMA OpenIsFree == IInv => s_bitmap \cap Open = {}
PROOF
  <1> SUFFICES ASSUME IInv PROVE s_bitmap \cap Open = {}
    OBVIOUS
  <1> DEFINE x == RESERVED_END + kernel_tables + 3 * len
             y == (len + 1) * BLOCK_PAGES
  <1>1. /\ len \in 0 .. KPROC_MAX_COUNT /\ kernel_tables \in 0 .. KERNEL_TABLES
        /\ s_bitmap = Layout(kernel_tables, len)
    BY DEF IInv, TypeOK, LifoLayout
  <1>2. s_bitmap = (0 .. (x - 1)) \cup (BLOCK_PAGES .. (y - 1))
                     \cup (PERIPH_START .. (PageCount - 1))
    BY <1>1, LayoutBounds, Sizes
  <1>3. /\ 0 * BLOCK_PAGES = 0 /\ (0 + 1) * BLOCK_PAGES <= OPEN_FROM
        /\ y <= OPEN_FROM
    BY <1>1, BlockPlaces, Sizes
  <1>4. BLOCK_PAGES <= OPEN_FROM
    BY <1>3, Sizes
  <1>5. x \in Nat /\ x <= BLOCK_PAGES /\ y \in Nat
    BY <1>1, Sizes
  <1> HIDE DEF x, y
  <1> QED BY <1>2, <1>3, <1>4, <1>5, Sizes DEF Open

LEMMA OwnTranslationFollows == IInv => OwnTranslation
  BY SettledTranslation, OpenIsFree DEF OwnTranslation, Settled

\* The frames of open pages are not those of processes.
LEMMA OpenFrames ==
  ASSUME NEW page \in Open, NEW i \in 1 .. KPROC_MAX_COUNT
  PROVE  Frame(page) # i
PROOF
  <1> SUFFICES ASSUME Frame(page) = i PROVE FALSE
    OBVIOUS
  <1>1. page \in Nat /\ OPEN_FROM <= page /\ BLOCK_PAGES \in Nat \ {0}
    BY Sizes DEF Open
  <1>2. page = (page \div BLOCK_PAGES) * BLOCK_PAGES + (page % BLOCK_PAGES)
        /\ page % BLOCK_PAGES \in 0 .. (BLOCK_PAGES - 1)
    BY <1>1, Division
  <1>3. page < i * BLOCK_PAGES + BLOCK_PAGES
    <2> DEFINE b == i * BLOCK_PAGES
    <2>1. page = b + (page % BLOCK_PAGES) /\ b \in Nat
      BY <1>1, <1>2 DEF Frame
    <2> HIDE DEF b
    <2>2. page < b + BLOCK_PAGES
      BY <1>1, <1>2, <2>1
    <2> QED BY <2>2 DEF b
  <1>4. (i + 1) * BLOCK_PAGES = i * BLOCK_PAGES + BLOCK_PAGES
        /\ (i + 1) * BLOCK_PAGES <= OPEN_FROM
    BY BlockPlaces, Sizes
  <1> DEFINE c == i * BLOCK_PAGES
  <1>5. c \in Nat /\ c + BLOCK_PAGES <= OPEN_FROM /\ page < c + BLOCK_PAGES
    BY <1>1, <1>3, <1>4
  <1> HIDE DEF c
  <1> QED BY <1>1, <1>5, Sizes

\* The user half of a running process leads to its own block and nothing
\* else, whatever the MMU has walked and cached while its tables and those
\* of others changed; and what the kernel half opens to it holds no table
\* and no block of anyone.
THEOREM OwnTranslationHolds == Spec => []OwnTranslation
PROOF
  <1> QED BY InvariantHolds, OwnTranslationFollows, PTL

-----------------------------------------------------------------------------
(***************************************************************************)
(* The kernel implements the abstract stack of processes.  Beside the      *)
(* layout, the argument needs what the steps of a call hand over to one    *)
(* another, and that every process on the stack has its program loaded.    *)
(***************************************************************************)
HandOver ==
  /\ Doing("suspend") => prog = Requested
  /\ Doing("init") => prog = Requested /\ kproc_buffer[len - 1].suspend = cpu
  /\ pc = "alloc" /\ len > 0 => prog = Requested /\ kproc_buffer[len].suspend = cpu
  /\ Doing("exec") \/ (pc = "alloc" /\ len = 0) => prog \in PROGS
  /\ \A i \in 1 .. Started : mem[i].text \in Requests

RInv == IInv /\ HandOver

\* What is on the abstract stack: the registers and the memory of process i.
Shown(r, m) ==
  [x0 |-> r.x0, regs |-> r.regs, sp |-> r.sp, elr |-> r.elr, text |-> m.text, data |-> m.data]

Resumed(i) == [kproc_buffer[i].suspend EXCEPT !.x0 = KSTATUS_PROC_OK]

ShownRegisters(i) == IF i = Started /\ ~Doing("restore") THEN cpu ELSE Resumed(i)

\* What the abstract stack is made of.
StackFacts ==
  /\ Started \in 0 .. len /\ len \in 0 .. KPROC_MAX_COUNT
  /\ AbstractStack = [i \in 1 .. Started |-> Shown(ShownRegisters(i), mem[i])]
  /\ \A i \in 1 .. Started : i \in Procs /\ i \in Frames /\ ShownRegisters(i) \in Registers

\* ... process by process, from the invariant.
LEMMA StackIs == IInv => StackFacts
PROOF
  <1> SUFFICES ASSUME IInv PROVE StackFacts
    OBVIOUS
  <1>1. Started \in 0 .. len /\ len \in 0 .. KPROC_MAX_COUNT
    BY Sizes DEF Started, IInv, TypeOK, Control, Doing
  <1>2. ASSUME NEW i \in 1 .. Started
        PROVE  /\ i \in Procs /\ i \in Frames /\ ShownRegisters(i) \in Registers
               /\ AbstractProc(i) = Shown(ShownRegisters(i), mem[i])
    <2>1. i \in 1 .. len
      BY <1>1
    <2>2. i \in Procs /\ i \in Frames
          /\ Frame(Block(tables, kproc_buffer[i].level0_table)) = i
      BY <2>1, BlockIsFrame
    <2>3. ShownRegisters(i) \in Registers
      BY <2>2 DEF ShownRegisters, Resumed, IInv, TypeOK, Registers, X0
    <2>4. AbstractProc(i) = Shown(ShownRegisters(i), mem[i])
      BY <2>2 DEF AbstractProc, Shown, ShownRegisters, Resumed
    <2> QED BY <2>2, <2>3, <2>4
  <1>3. AbstractStack = [i \in 1 .. Started |-> Shown(ShownRegisters(i), mem[i])]
    BY <1>2 DEF AbstractStack
  <1> QED BY <1>1, <1>2, <1>3 DEF StackFacts

\* The same in the next state.
LEMMA StackIsAfter == IInv' => StackFacts'
  BY StackIs, PTL

\* Both modules mean the same status values and the same program numbers.
LEMMA SameStatuses ==
  /\ Abstract!KSTATUS_PROC_OK = KSTATUS_PROC_OK
  /\ Abstract!KSTATUS_PROC_STACK_FULL = KSTATUS_PROC_STACK_FULL
  /\ Abstract!KSTATUS_PROC_LAST = KSTATUS_PROC_LAST
  /\ Abstract!BEYOND = BEYOND
  /\ Abstract!Texts = Requests
  /\ Abstract!X0 = X0
  BY DEF X0, Abstract!X0, KSTATUS_PROC_OK, KSTATUS_PROC_STACK_FULL, KSTATUS_PROC_LAST,
    Abstract!KSTATUS_PROC_OK, Abstract!KSTATUS_PROC_STACK_FULL, Abstract!KSTATUS_PROC_LAST,
    BEYOND, Abstract!BEYOND, Requests, Abstract!Texts

\* The abstract stack is a sequence of abstract processes.
LEMMA StackType ==
  RInv => AbstractStack \in Seq(Abstract!Process) /\ Len(AbstractStack) = Started
PROOF
  <1> SUFFICES ASSUME RInv
               PROVE  AbstractStack \in Seq(Abstract!Process) /\ Len(AbstractStack) = Started
    OBVIOUS
  <1>1. /\ Started \in Nat
        /\ AbstractStack = [i \in 1 .. Started |-> Shown(ShownRegisters(i), mem[i])]
    BY StackIs DEF RInv, StackFacts
  <1>2. ASSUME NEW i \in 1 .. Started
        PROVE  Shown(ShownRegisters(i), mem[i]) \in Abstract!Process
    <2>1. i \in Frames /\ ShownRegisters(i) \in Registers /\ mem[i].text \in Requests
      BY StackIs DEF RInv, HandOver, StackFacts
    <2>2. mem[i] \in Contents
      BY <2>1 DEF RInv, IInv, TypeOK
    <2> QED
      BY <2>1, <2>2, SameStatuses DEF Shown, Abstract!Process, Registers, Contents
  <1> QED BY <1>1, <1>2

\* The same in the next state.
LEMMA StackTypeAfter ==
  RInv' => (AbstractStack \in Seq(Abstract!Process) /\ Len(AbstractStack) = Started)'
  BY StackType, PTL

\* kproc_init writes the program into the block of the top process, and
\* nothing elsewhere.
LEMMA ProgramLoaded ==
  ASSUME IInv, pc \in Settled, kproc_init
  PROVE  /\ \E d \in DATA : mem'[len] = [text |-> prog, data |-> d]
         /\ \A i \in Frames : i # len => mem'[i] = mem[i]
PROOF
  <1>1. /\ len \in Frames /\ mem \in [Frames -> Contents] /\ prog \in Requests
        /\ \A page \in Translations : Frame(page) = len
    BY SettledTranslation, BlockIsFrame DEF IInv, TypeOK
  <1>2. PICK page \in Translations :
          \/ prog \in PROGS /\ LoadText(page)
          \/ prog = BEYOND /\ LoadAnything(page)
    BY DEF kproc_init
  <1>3. CASE LoadText(page)
    <2>1. mem' = [mem EXCEPT ![len].text = prog]
      BY <1>1, <1>3 DEF LoadText
    <2>2. mem[len] \in Contents
      BY <1>1
    <2>3. mem'[len] = [text |-> prog, data |-> mem[len].data] /\ mem[len].data \in DATA
      BY <1>1, <2>1, <2>2 DEF Contents
    <2> QED BY <1>1, <2>1, <2>3
  <1>4. CASE prog = BEYOND /\ LoadAnything(page)
    BY <1>1, <1>4 DEF LoadAnything
  <1> QED BY <1>2, <1>3, <1>4

\* In the beginning nothing has been handed over.
LEMMA InitialHandOver == Init => HandOver
PROOF
  <1> SUFFICES ASSUME Init PROVE HandOver
    OBVIOUS
  <1>1. pc = "memory_init" /\ len = 0 /\ ~Doing("suspend") /\ ~Doing("init") /\ ~Doing("exec")
    BY DEF Init, Doing
  <1>2. Started = 0
    BY <1>1 DEF Started
  <1> QED BY <1>1, <1>2 DEF HandOver

\* Every step keeps what the steps of a call hand over.
LEMMA HandOverStep == RInv /\ IInv' /\ [Next]_vars => HandOver'
PROOF
  <1> SUFFICES ASSUME RInv, IInv', [Next]_vars PROVE HandOver'
    OBVIOUS
  <1> USE DEF RInv
  <1>t. /\ len \in 0 .. KPROC_MAX_COUNT
        /\ kproc_buffer \in [Procs -> [level0_table : Pages, suspend : Registers]]
        /\ mem \in [Frames -> Contents]
    BY DEF IInv, TypeOK
  <1>f. Started \in 0 .. len /\ \A i \in 1 .. Started : i \in Frames /\ mem[i].text \in Requests
    BY StackIs DEF StackFacts, HandOver
  <1>1. CASE memory_init
    <2>1. Started' = Started
      BY <1>1 DEF memory_init, MapKernelRegion, MemoryReady, Started, Doing
    <2> QED BY <1>1, <1>f, <2>1 DEF memory_init, MapKernelRegion, MemoryReady, HandOver, Doing
  <1>2. ASSUME NEW p \in PROGS, kproc_exec(p)
        PROVE  HandOver'
    <2>1. Started' = Started /\ len = 0 /\ prog' \in PROGS
      BY <1>2 DEF kproc_exec, Started, Doing, IInv, Control
    <2> QED BY <1>2, <1>f, <2>1 DEF kproc_exec, HandOver, Doing
  <1>3. CASE kcall_proc_start \/ kcall_proc_exit
    <2>1. Started' = Started /\ mem' = mem
      BY <1>3 DEF kcall_proc_start, kcall_proc_exit, StackFull, kproc_start, LastProcess,
                  kproc_exit, SwitchThen, Started, Doing
    <2>2. /\ (Doing("suspend") => prog = Requested)' /\ ~Doing("init")'
          /\ pc' # "alloc" /\ ~Doing("exec")'
      BY <1>3 DEF kcall_proc_start, kcall_proc_exit, StackFull, kproc_start, LastProcess,
                  kproc_exit, SwitchThen, Doing, Requested
    <2> QED BY <1>f, <2>1, <2>2 DEF HandOver
  <1>4. CASE msr_ttbr0_el1 \/ tlbi_vmalle1
    <2>1. /\ UNCHANGED <<len, kproc_buffer, mem, cpu, prog, Requested>>
          /\ pc \in {"msr", "tlbi"} /\ pc' # "alloc"
          /\ \A step \in {"suspend", "init", "exec"} : Doing(step)' <=> Doing(step)
      BY <1>4 DEF msr_ttbr0_el1, tlbi_vmalle1, Doing, IInv, Control, Requested
    <2>2. Started' = Started
      BY <2>1 DEF Started
    <2> QED BY <1>f, <2>1, <2>2 DEF HandOver
  <1>5. CASE kproc_suspend
    <2>1. /\ UNCHANGED <<len, mem, cpu, prog, Requested>> /\ Doing("suspend")
          /\ pc' = "alloc" /\ kproc_buffer' = [kproc_buffer EXCEPT ![len].suspend = cpu]
          /\ ~Doing("suspend")' /\ ~Doing("init")' /\ ~Doing("exec")' /\ len \in Procs
          /\ len' # 0
      BY <1>5 DEF kproc_suspend, Doing, IInv, Control, TypeOK, Procs, Requested
    <2>2. Started' = Started
      BY <1>5 DEF kproc_suspend, Started, Doing
    <2>3. kproc_buffer'[len].suspend = cpu
      BY <1>t, <2>1
    <2> QED BY <1>f, <2>1, <2>2, <2>3 DEF HandOver
  <1>6. CASE AllocStep
    <2>1. /\ UNCHANGED <<mem, cpu, prog, Requested>> /\ len' = len + 1
          /\ pc = "alloc" /\ pc' = "msr" /\ then' = IF len = 0 THEN "exec" ELSE "init"
          /\ \A i \in 1 .. len : kproc_buffer'[i] = kproc_buffer[i]
      BY <1>6, <1>t DEF AllocStep, kproc_alloc, SwitchThen, Procs, Requested
    <2>2. /\ Started' = Started /\ ~Doing("suspend")' /\ (Doing("init")' => len > 0)
          /\ Doing("exec")' => len = 0
      BY <1>t, <2>1 DEF Started, Doing
    <2>3. (Doing("init") => prog = Requested /\ kproc_buffer[len - 1].suspend = cpu)'
      BY <1>t, <2>1, <2>2 DEF HandOver
    <2>4. (Doing("exec") => prog \in PROGS)'
      BY <2>1, <2>2 DEF HandOver
    <2> QED BY <1>f, <2>1, <2>2, <2>3, <2>4 DEF HandOver
  <1>7. CASE ExecStep \/ InitStep
    <2>1. /\ pc \in Settled /\ pc' = "user" /\ len' = len /\ Started = len - 1
          /\ kproc_init /\ prog \in Requests
      BY <1>7 DEF ExecStep, InitStep, Settled, Started, Doing, IInv, TypeOK
    <2>2. Started' = len
      BY <2>1 DEF Started, Doing
    <2>3. /\ \E d \in DATA : mem'[len] = [text |-> prog, data |-> d]
          /\ \A i \in Frames : i # len => mem'[i] = mem[i]
      BY <2>1, ProgramLoaded
    <2>4. ASSUME NEW i \in 1 .. len
          PROVE  mem'[i].text \in Requests
      <3>1. i \in Frames
        BY BlockIsFrame
      <3>2. CASE i = len
        BY <2>1, <2>3, <3>2
      <3>3. CASE i # len
        BY <1>t, <1>f, <2>1, <2>3, <3>1, <3>3
      <3> QED BY <3>2, <3>3
    <2> QED BY <2>1, <2>2, <2>4 DEF HandOver, Doing
  <1>13. CASE CopyFaults
    <2>1. /\ pc = "init" /\ pc \in Settled /\ pc' = "stuck" /\ kproc_init
          /\ UNCHANGED <<len, kproc_buffer, cpu, prog, then, Requested>>
      BY <1>13 DEF CopyFaults, Settled, Requested
    <2>2. /\ Started' = Started /\ Started = len - 1 /\ Doing("init")
          /\ Doing("init")' /\ ~Doing("suspend")' /\ ~Doing("exec")'
      BY <2>1 DEF Started, Doing
    <2>3. \A i \in Frames : i # len => mem'[i] = mem[i]
      BY <2>1, ProgramLoaded
    <2>4. \A i \in 1 .. Started : mem'[i].text \in Requests
      <3>1. \A i \in 1 .. Started : i # len
        BY <1>t, <2>2
      <3> QED BY <1>f, <2>3, <3>1
    <2> QED BY <2>1, <2>2, <2>4 DEF HandOver
  <1>8. CASE FreeStep
    <2>1. /\ len' = len - 1 /\ mem' = mem /\ pc = "free" /\ pc' = "msr" /\ then' = "restore"
      BY <1>8 DEF FreeStep, kproc_free, SwitchThen
    <2>2. Started' = len - 1 /\ Started = len
      BY <2>1 DEF Started, Doing
    <2> QED BY <1>f, <1>t, <2>1, <2>2 DEF HandOver, Doing
  <1>9. CASE kproc_restore
    <2>1. Started' = Started /\ mem' = mem /\ pc' = "user"
      BY <1>9 DEF kproc_restore, Started, Doing
    <2> QED BY <1>f, <2>1 DEF HandOver, Doing
  <1>10. CASE UserComputes
    <2>1. Started' = Started /\ mem' = mem /\ pc' = "user"
      BY <1>10 DEF UserComputes, Started, Doing
    <2> QED BY <1>f, <2>1 DEF HandOver, Doing
  <1>11. CASE UserWrites
    <2>1. Started' = Started /\ pc' = "user"
      BY <1>11 DEF UserWrites, Started, Doing
    <2>2. PICK page \in Translations \cup Open, d \in DATA :
            mem' = [mem EXCEPT ![Frame(page)].data = d]
      BY <1>11 DEF UserWrites
    <2>3. \A i \in 1 .. Started : mem'[i].text = mem[i].text
      BY <1>t, <1>f, <2>2 DEF Contents
    <2> QED BY <1>f, <2>1, <2>3 DEF HandOver, Doing
  <1>12. CASE Speculate \/ CopyFaultsAgain \/ UNCHANGED vars
    <2>1. UNCHANGED <<len, kproc_buffer, mem, cpu, pc, then, prog, Requested>>
      BY <1>12 DEF Speculate, CopyFaultsAgain, vars, Requested
    <2> QED BY <2>1 DEF HandOver, Started, Doing
  <1> QED
    BY <1>1, <1>2, <1>3, <1>4, <1>5, <1>6, <1>7, <1>8, <1>9, <1>10, <1>11, <1>12,
       <1>13
       DEF Next, KernelStep

\* The strengthened invariant holds in every reachable state.
LEMMA HandOverHolds == Spec => []RInv
PROOF
  <1>1. Init => RInv
    BY InitialState, InitialHandOver DEF RInv
  <1>2. RInv /\ [Next]_vars => RInv'
    BY InductiveStep, HandOverStep DEF RInv
  <1> QED BY <1>1, <1>2, PTL DEF Spec

-----------------------------------------------------------------------------
(***************************************************************************)
(* One lemma per kind of step.                                             *)
(***************************************************************************)
\* A new status in x0 of a process.
LEMMA StatusSet ==
  ASSUME NEW s \in Seq(Abstract!Process), NEW k \in 1 .. Len(s), NEW v \in X0
  PROVE  /\ [s EXCEPT ![k].x0 = v] \in Seq(Abstract!Process)
         /\ Len([s EXCEPT ![k].x0 = v]) = Len(s)
         /\ \A i \in 1 .. Len(s) : [s EXCEPT ![k].x0 = v][i]
                                     = IF i = k THEN [s[k] EXCEPT !.x0 = v] ELSE s[i]
PROOF
  <1> DEFINE e == [s[k] EXCEPT !.x0 = v]
  <1>1. [s EXCEPT ![k].x0 = v] = [s EXCEPT ![k] = e]
    OBVIOUS
  <1>2. e \in Abstract!Process
    <2>1. s[k] \in Abstract!Process
      OBVIOUS
    <2> QED BY <2>1, SameStatuses DEF Abstract!Process
  <1> HIDE DEF e
  <1>3. /\ [s EXCEPT ![k] = e] \in Seq(Abstract!Process)
        /\ Len([s EXCEPT ![k] = e]) = Len(s)
        /\ \A i \in 1 .. Len(s) : [s EXCEPT ![k] = e][i] = IF i = k THEN e ELSE s[i]
    BY <1>2, ExceptSeq
  <1> QED BY <1>1, <1>3 DEF e

\* A step that changes no registers and no memory that are shown.
LEMMA SameStack ==
  ASSUME RInv, RInv', Started' = Started,
         \A i \in 1 .. Started : /\ ShownRegisters(i)' = ShownRegisters(i)
                                 /\ mem'[i] = mem[i]
  PROVE  AbstractStack' = AbstractStack
PROOF
  <1>1. AbstractStack = [i \in 1 .. Started |-> Shown(ShownRegisters(i), mem[i])]
    BY StackIs DEF StackFacts, RInv
  <1>2. AbstractStack' = [i \in 1 .. Started |-> Shown(ShownRegisters(i)', mem'[i])]
    BY StackIsAfter DEF StackFacts, RInv
  <1> QED BY <1>1, <1>2

\* A call of kproc_start that finds room: nothing of the caller changes.
LEMMA CallStartRefines ==
  ASSUME RInv, RInv', kproc_start
  PROVE  Abstract!CallStart
PROOF
  <1>1. Mode = "user" /\ Mode' = "starting"
    BY DEF kproc_start, SwitchThen, Mode, Doing
  <1>2. AbstractStack' = AbstractStack
    <2>1. Started' = Started /\ ~Doing("restore") /\ ~Doing("restore")'
      BY DEF kproc_start, SwitchThen, Started, Doing
    <2>2. \A i \in 1 .. Started : ShownRegisters(i)' = ShownRegisters(i) /\ mem'[i] = mem[i]
      BY <2>1 DEF kproc_start, ShownRegisters, Resumed
    <2> QED BY <2>1, <2>2, SameStack
  <1>3. Len(AbstractStack) = len /\ len < KPROC_MAX_COUNT
    <2>1. Started = len
      BY DEF kproc_start, Started, Doing
    <2> QED BY <2>1, StackType, Sizes DEF kproc_start, kbuffer_stack_full, RInv, IInv, TypeOK
  <1> QED BY <1>1, <1>2, <1>3 DEF Abstract!CallStart, Abstract!From, Abstract!n

\* The first process, started by kproc_exec.
LEMMA ExecRefines ==
  ASSUME RInv, RInv', ExecStep
  PROVE  Abstract!Exec
PROOF
  <1>1. Mode = "booting" /\ Mode' = "user"
    BY DEF ExecStep, Mode, Doing
  <1>2. len = 1 /\ len' = 1 /\ Started' = 1 /\ ~Doing("restore")'
    BY DEF ExecStep, Started, Doing, RInv, IInv, Control
  <1>3. PICK d \in DATA : mem'[1] = [text |-> prog, data |-> d]
    BY <1>2, ProgramLoaded DEF ExecStep, Settled, RInv
  <1>4. cpu \in Registers /\ prog \in PROGS
    BY DEF RInv, IInv, TypeOK, HandOver, ExecStep, Doing
  <1>5. Shown(cpu', mem'[1]) = Abstract!Fresh(cpu.x0, cpu.regs, prog, d)
    BY <1>3, <1>4 DEF ExecStep, Shown, Abstract!Fresh, Registers
  <1>6. AbstractStack' = <<Abstract!Fresh(cpu.x0, cpu.regs, prog, d)>>
    <2>1. AbstractStack' = [i \in 1 .. 1 |-> Shown(ShownRegisters(i)', mem'[i])]
      BY <1>2, StackIsAfter DEF StackFacts, RInv
    <2>2. \A i \in 1 .. 1 : i = 1
      OBVIOUS
    <2>3. ShownRegisters(1)' = cpu'
      BY <1>2 DEF ShownRegisters
    <2>4. AbstractStack' = [i \in 1 .. 1 |-> Shown(cpu', mem'[1])]
      BY <2>1, <2>2, <2>3
    <2> QED BY <1>5, <2>4
  <1>7. cpu.x0 \in Abstract!X0 /\ cpu.regs \in REGS
    BY <1>4, SameStatuses DEF Registers
  <1> QED BY <1>1, <1>4, <1>6, <1>7 DEF Abstract!Exec, Abstract!From

\* A start: the child appears on top with the program its parent asked for
\* and the registers of its parent, which it finds suspended below it.
LEMMA StartRefines ==
  ASSUME RInv, RInv', InitStep, NEW k, k = len - 1
  PROVE  Abstract!Start
PROOF
  <1>5. PICK d \in DATA : /\ mem'[len] = [text |-> prog, data |-> d]
                         /\ \A i \in Frames : i # len => mem'[i] = mem[i]
    BY ProgramLoaded DEF InitStep, Settled, RInv
  <1> DEFINE parent == AbstractStack[k]
             child == Abstract!Fresh(KSTATUS_PROC_OK, parent.regs,
                                     Abstract!TextOf(parent.x0), d)
             waiting == [AbstractStack EXCEPT ![k].x0 = KSTATUS_PROC_OK]
  <1>1. Mode = "starting" /\ Mode' = "user"
    BY DEF InitStep, Mode, Doing
  <1>2. /\ k \in Nat \ {0} /\ len = k + 1 /\ len' = len
        /\ Started = k /\ Started' = k + 1
        /\ Doing("init") /\ ~Doing("restore") /\ ~Doing("restore")'
    BY DEF InitStep, Started, Doing, RInv, IInv, Control, TypeOK
  <1>3. AbstractStack \in Seq(Abstract!Process) /\ Len(AbstractStack) = k
    BY <1>2, StackType
  <1>4. /\ AbstractStack = [i \in 1 .. k |-> Shown(ShownRegisters(i), mem[i])]
        /\ AbstractStack' = [i \in 1 .. (k + 1) |-> Shown(ShownRegisters(i)', mem'[i])]
        /\ \A i \in 1 .. (k + 1) : i \in Procs /\ i \in Frames
    BY <1>2, StackIs, StackIsAfter DEF StackFacts, RInv
  <1>6. /\ mem \in [Frames -> Contents] /\ cpu \in Registers
        /\ kproc_buffer \in [Procs -> [level0_table : Pages, suspend : Registers]]
        /\ prog = Requested /\ kproc_buffer[k].suspend = cpu
        /\ kproc_buffer' = kproc_buffer
        /\ k \in 1 .. k /\ k \in 1 .. (k + 1) /\ k + 1 \in 1 .. (k + 1)
    BY <1>2 DEF RInv, IInv, TypeOK, HandOver, InitStep
  <1>7. parent = Shown(cpu, mem[k])
    BY <1>2, <1>4, <1>6 DEF ShownRegisters
  <1>8. Shown(ShownRegisters(k + 1)', mem'[k + 1]) = child
    <2>1. ShownRegisters(k + 1)' = cpu'
      BY <1>2 DEF ShownRegisters
    <2>3. parent.regs = cpu.regs /\ parent.x0 = cpu.x0
      BY <1>7 DEF Shown
    <2>2. mem'[k + 1] = [text |-> Abstract!TextOf(parent.x0), data |-> d]
      <3>1. prog = Abstract!TextOf(cpu.x0)
        BY <1>6, SameStatuses DEF Requested, Abstract!TextOf
      <3> HIDE DEF parent
      <3> QED BY <1>2, <1>5, <2>3, <3>1
    <2> DEFINE text == Abstract!TextOf(parent.x0)
    <2>4. mem'[k + 1].text = text /\ mem'[k + 1].data = d
      <3> HIDE DEF text
      <3> QED BY <2>2 DEF text
    <2>5. child = Abstract!Fresh(KSTATUS_PROC_OK, parent.regs, text, d)
      OBVIOUS
    <2>6. /\ cpu'.x0 = KSTATUS_PROC_OK /\ cpu'.regs = cpu.regs
          /\ cpu'.sp = KPROC_PROG_OFFSET /\ cpu'.elr = KPROC_PROG_OFFSET
      BY <1>6 DEF InitStep, Registers
    <2> HIDE DEF parent, text, child
    <2> QED BY <2>1, <2>3, <2>4, <2>5, <2>6 DEF Shown, Abstract!Fresh
  <1>9. Shown(ShownRegisters(k)', mem'[k]) = [parent EXCEPT !.x0 = KSTATUS_PROC_OK]
    <2>1. ShownRegisters(k)' = [cpu EXCEPT !.x0 = KSTATUS_PROC_OK]
      BY <1>2, <1>6 DEF ShownRegisters, Resumed
    <2>2. mem'[k] = mem[k]
      BY <1>2, <1>4, <1>5, <1>6
    <2> HIDE DEF parent
    <2> QED BY <1>6, <1>7, <2>1, <2>2 DEF Shown, Registers
  <1>10. ASSUME NEW i \in 1 .. k, i # k
         PROVE  Shown(ShownRegisters(i)', mem'[i]) = AbstractStack[i]
    <2>1. ShownRegisters(i)' = ShownRegisters(i)
      BY <1>2, <1>6, <1>10 DEF ShownRegisters, Resumed
    <2>2. mem'[i] = mem[i]
      BY <1>2, <1>4, <1>5, <1>6, <1>10
    <2> HIDE DEF parent
    <2> QED BY <1>4, <2>1, <2>2
  <1>11. child \in Abstract!Process
    <2>1. AbstractStack' \in Seq(Abstract!Process) /\ Len(AbstractStack') = k + 1
      BY <1>2, StackTypeAfter
    <2>2. AbstractStack'[k + 1] \in Abstract!Process
      BY <1>6, <2>1
    <2> HIDE DEF child
    <2> QED BY <1>4, <1>6, <1>8, <2>2
  <1>12. /\ waiting \in Seq(Abstract!Process) /\ Len(waiting) = k
         /\ \A i \in 1 .. k : waiting[i] = IF i = k THEN [parent EXCEPT !.x0 = KSTATUS_PROC_OK]
                                                  ELSE AbstractStack[i]
    <2>1. KSTATUS_PROC_OK \in X0
      BY DEF X0
    <2> QED BY <1>3, <1>6, <2>1, StatusSet
  <1>13. /\ Append(waiting, child) \in Seq(Abstract!Process)
         /\ Len(Append(waiting, child)) = k + 1
         /\ \A i \in 1 .. k : Append(waiting, child)[i] = waiting[i]
         /\ Append(waiting, child)[k + 1] = child
    <2> HIDE DEF waiting, child
    <2> QED BY <1>11, <1>12, AppendProperties
  <1>14. ASSUME NEW i \in 1 .. (k + 1)
         PROVE  AbstractStack'[i] = Append(waiting, child)[i]
    <2>1. i = k + 1 \/ i \in 1 .. k
      BY <1>2
    <2>2. AbstractStack'[i] = Shown(ShownRegisters(i)', mem'[i])
      BY <1>4
    <2> HIDE DEF waiting, child, parent
    <2> QED BY <1>8, <1>9, <1>10, <1>12, <1>13, <2>1, <2>2
  <1>15. AbstractStack' = Append(waiting, child)
    <2>1. AbstractStack' \in Seq(Abstract!Process) /\ Len(AbstractStack') = k + 1
      BY <1>2, StackTypeAfter
    <2> HIDE DEF waiting, child, parent
    <2> QED BY <1>13, <1>14, <2>1, SeqEqual
  <1> QED
    BY <1>1, <1>3, <1>11, <1>15, SameStatuses DEF Abstract!Start, Abstract!From, Abstract!n

\* While a process runs, only its own element of the stack changes.
LEMMA OnlyTopChanges ==
  ASSUME RInv, RInv', pc = "user", pc' = "user", UNCHANGED <<len, kproc_buffer>>,
         \A i \in 1 .. (len - 1) : mem'[i] = mem[i]
  PROVE  /\ Mode = "user" /\ Mode' = "user" /\ len \in Nat \ {0}
         /\ AbstractStack \in Seq(Abstract!Process) /\ Len(AbstractStack) = len
         /\ AbstractStack' \in Seq(Abstract!Process) /\ Len(AbstractStack') = len
         /\ \A i \in 1 .. (len - 1) : AbstractStack'[i] = AbstractStack[i]
         /\ AbstractStack[len] = Shown(cpu, mem[len])
         /\ AbstractStack'[len] = Shown(cpu', mem'[len])
PROOF
  <1>1. Mode = "user" /\ Mode' = "user"
    BY DEF Mode, Doing
  <1>2. /\ len \in Nat \ {0} /\ Started = len /\ Started' = len
        /\ ~Doing("restore") /\ ~Doing("restore")'
    BY DEF Started, Doing, RInv, IInv, Control, TypeOK
  <1>3. /\ AbstractStack \in Seq(Abstract!Process) /\ Len(AbstractStack) = len
        /\ AbstractStack' \in Seq(Abstract!Process) /\ Len(AbstractStack') = len
    BY <1>2, StackType, StackTypeAfter
  <1>4. /\ AbstractStack = [i \in 1 .. len |-> Shown(ShownRegisters(i), mem[i])]
        /\ AbstractStack' = [i \in 1 .. len |-> Shown(ShownRegisters(i)', mem'[i])]
    BY <1>2, StackIs, StackIsAfter DEF StackFacts, RInv
  <1>5. ASSUME NEW i \in 1 .. (len - 1)
        PROVE  AbstractStack'[i] = AbstractStack[i]
    <2>1. i \in 1 .. len /\ i # len
      BY <1>2
    <2>2. ShownRegisters(i)' = ShownRegisters(i)
      BY <1>2, <2>1 DEF ShownRegisters, Resumed
    <2> QED BY <1>4, <2>1, <2>2
  <1>6. ASSUME NEW k, k = len
        PROVE  /\ AbstractStack[k] = Shown(cpu, mem[k])
               /\ AbstractStack'[k] = Shown(cpu', mem'[k])
    <2>1. ShownRegisters(k) = cpu /\ ShownRegisters(k)' = cpu'
      BY <1>2, <1>6 DEF ShownRegisters
    <2> QED BY <1>2, <1>4, <1>6, <2>1
  <1> QED BY <1>1, <1>2, <1>3, <1>5, <1>6

\* A running process changes its own registers or its own memory.
LEMMA RunRefines ==
  ASSUME RInv, RInv', UserComputes \/ UserWrites
  PROVE  Abstract!Run
PROOF
  <1>1. /\ pc = "user" /\ pc' = "user" /\ UNCHANGED <<len, kproc_buffer>>
        /\ mem \in [Frames -> Contents]
    BY DEF UserComputes, UserWrites, RInv, IInv, TypeOK
  <1>2. /\ len \in 1 .. len
        /\ \A page \in Translations : Frame(page) = len
        /\ \A page \in Open, i \in 1 .. len : Frame(page) # i
        /\ \A i \in 1 .. len : i \in Frames
    <2>1. \A i \in 1 .. len : i \in 1 .. KPROC_MAX_COUNT
      BY Sizes DEF RInv, IInv, TypeOK
    <2> QED BY <1>1, <2>1, SettledTranslation, OpenFrames, BlockIsFrame DEF Settled, RInv
  <1>3. \A i \in 1 .. (len - 1) : mem'[i] = mem[i]
    <2>1. \A i \in 1 .. (len - 1) : i \in 1 .. len /\ i # len
      BY <1>2
    <2> QED BY <1>1, <1>2, <2>1 DEF UserComputes, UserWrites
  <1>4. mem'[len].text = mem[len].text
    BY <1>1, <1>2 DEF UserComputes, UserWrites, Contents
  <1>5. AbstractStack'[len].text = AbstractStack[len].text
    BY <1>1, <1>3, <1>4, OnlyTopChanges DEF Shown
  <1> QED BY <1>1, <1>3, <1>5, OnlyTopChanges DEF Abstract!Run, Abstract!From, Abstract!n

\* A refused call changes x0 of the caller and nothing else.
LEMMA RefusalRefines ==
  ASSUME RInv, RInv', StackFull \/ LastProcess
  PROVE  Abstract!StartFails \/ Abstract!ExitFails
PROOF
  <1> DEFINE status == IF StackFull THEN KSTATUS_PROC_STACK_FULL ELSE KSTATUS_PROC_LAST
             refused == [AbstractStack EXCEPT ![len].x0 = status]
  <1>1. /\ pc = "user" /\ pc' = "user" /\ UNCHANGED <<len, kproc_buffer, mem>>
        /\ cpu' = [cpu EXCEPT !.x0 = status]
        /\ (StackFull /\ len = KPROC_MAX_COUNT) \/ (~StackFull /\ len = 1)
    <2>1. CASE StackFull
      <3>1. status = KSTATUS_PROC_STACK_FULL
        BY <2>1
      <3>2. /\ pc = "user" /\ pc' = "user" /\ UNCHANGED <<len, kproc_buffer, mem>>
            /\ cpu' = [cpu EXCEPT !.x0 = KSTATUS_PROC_STACK_FULL] /\ len = KPROC_MAX_COUNT
        BY <2>1 DEF StackFull, kbuffer_stack_full
      <3> HIDE DEF status
      <3> QED BY <2>1, <3>1, <3>2
    <2>2. CASE ~StackFull
      <3>1. status = KSTATUS_PROC_LAST /\ LastProcess
        BY <2>2
      <3> HIDE DEF status
      <3> QED BY <2>2, <3>1 DEF LastProcess, kproc_count
    <2> QED BY <2>1, <2>2
  <1>2. status \in X0 /\ cpu \in Registers
    BY DEF X0, RInv, IInv, TypeOK
  <1>3. /\ Mode = "user" /\ Mode' = "user" /\ len \in Nat \ {0}
        /\ AbstractStack \in Seq(Abstract!Process) /\ Len(AbstractStack) = len
        /\ AbstractStack' \in Seq(Abstract!Process) /\ Len(AbstractStack') = len
        /\ \A i \in 1 .. (len - 1) : AbstractStack'[i] = AbstractStack[i]
        /\ AbstractStack[len] = Shown(cpu, mem[len])
        /\ AbstractStack'[len] = Shown(cpu', mem[len])
    BY <1>1, OnlyTopChanges
  <1>4. len \in 1 .. len
    BY <1>3
  <1> HIDE DEF status
  <1>5. /\ refused \in Seq(Abstract!Process) /\ Len(refused) = len
        /\ \A i \in 1 .. len :
             refused[i] = IF i = len THEN [AbstractStack[len] EXCEPT !.x0 = status]
                                     ELSE AbstractStack[i]
    BY <1>2, <1>3, <1>4, StatusSet
  <1>6. AbstractStack'[len] = [AbstractStack[len] EXCEPT !.x0 = status]
    BY <1>1, <1>2, <1>3 DEF Shown, Registers
  <1>7. AbstractStack' = refused
    <2>1. \A i \in 1 .. len : i = len \/ i \in 1 .. (len - 1)
      BY <1>3
    <2>2. \A i \in 1 .. len : AbstractStack'[i] = refused[i]
      <3> HIDE DEF refused
      <3> QED BY <1>3, <1>5, <1>6, <2>1
    <2> HIDE DEF refused
    <2> QED BY <1>3, <1>5, <2>2, SeqEqual
  <1>8. CASE StackFull
    <2>1. status = Abstract!KSTATUS_PROC_STACK_FULL
      BY <1>8, SameStatuses DEF status
    <2> QED BY <1>1, <1>3, <1>7, <1>8, <2>1 DEF Abstract!StartFails, Abstract!From, Abstract!n
  <1>9. CASE ~StackFull
    <2>1. status = Abstract!KSTATUS_PROC_LAST
      BY <1>9, SameStatuses DEF status
    <2> QED BY <1>1, <1>3, <1>7, <1>9, <2>1 DEF Abstract!ExitFails, Abstract!From, Abstract!n
  <1> QED BY <1>8, <1>9

\* A call of kproc_exit by any process but the last.
LEMMA CallExitRefines ==
  ASSUME RInv, RInv', kproc_exit
  PROVE  Abstract!CallExit
PROOF
  <1>1. Mode = "user" /\ Mode' = "exiting"
    BY DEF kproc_exit, Mode, Doing
  <1>2. Started' = Started /\ Started = len /\ ~Doing("restore") /\ ~Doing("restore")'
    BY DEF kproc_exit, Started, Doing
  <1>3. AbstractStack' = AbstractStack
    <2>1. \A i \in 1 .. Started : ShownRegisters(i)' = ShownRegisters(i) /\ mem'[i] = mem[i]
      BY <1>2 DEF kproc_exit, ShownRegisters, Resumed
    <2> QED BY <1>2, <2>1, SameStack
  <1>4. Len(AbstractStack) > 1
    BY <1>2, StackType DEF kproc_exit, kproc_count, RInv, IInv, TypeOK, Control
  <1> QED BY <1>1, <1>3, <1>4 DEF Abstract!CallExit, Abstract!From, Abstract!n

\* The child leaves the stack; its parent shows the registers it was
\* suspended with, which is what it showed below the child.
LEMMA ExitRefines ==
  ASSUME RInv, RInv', FreeStep
  PROVE  Abstract!Exit
PROOF
  <1>1. Mode = "exiting" /\ Mode' = "resuming"
    BY DEF FreeStep, SwitchThen, Mode, Doing
  <1>2. /\ Started = len /\ Started' = len - 1 /\ len \in Nat /\ len > 1
        /\ ~Doing("restore") /\ Doing("restore")'
    BY DEF FreeStep, kproc_free, SwitchThen, Started, Doing, RInv, IInv, Control, TypeOK
  <1>3. /\ AbstractStack \in Seq(Abstract!Process) /\ Len(AbstractStack) = len
        /\ AbstractStack' \in Seq(Abstract!Process) /\ Len(AbstractStack') = len - 1
    BY <1>2, StackType, StackTypeAfter
  <1>4. ASSUME NEW i \in 1 .. (len - 1)
        PROVE  AbstractStack'[i] = AbstractStack[i]
    <2>1. i \in 1 .. len /\ i # len
      BY <1>2
    <2>2. AbstractStack[i] = Shown(ShownRegisters(i), mem[i])
      BY <1>2, <2>1, StackIs DEF StackFacts, RInv
    <2>3. AbstractStack'[i] = Shown(ShownRegisters(i)', mem'[i])
      BY <1>2, StackIsAfter DEF StackFacts, RInv
    <2>4. ShownRegisters(i)' = ShownRegisters(i)
      BY <1>2, <2>1 DEF FreeStep, ShownRegisters, Resumed
    <2> QED BY <2>2, <2>3, <2>4 DEF FreeStep
  <1>5. /\ SubSeq(AbstractStack, 1, len - 1) \in Seq(Abstract!Process)
        /\ Len(SubSeq(AbstractStack, 1, len - 1)) = len - 1
        /\ \A i \in 1 .. (len - 1) : SubSeq(AbstractStack, 1, len - 1)[i] = AbstractStack[i]
    BY <1>2, <1>3, SubSeqProperties
  <1>6. AbstractStack' = SubSeq(AbstractStack, 1, len - 1)
    BY <1>3, <1>4, <1>5, SeqEqual
  <1> QED BY <1>1, <1>3, <1>6 DEF Abstract!Exit, Abstract!From, Abstract!n

\* kproc_restore gives the parent the registers the stack shows for it.
LEMMA ResumeRefines ==
  ASSUME RInv, RInv', kproc_restore
  PROVE  Abstract!Resume
PROOF
  <1>1. Mode = "resuming" /\ Mode' = "user"
    BY DEF kproc_restore, Mode, Doing
  <1>2. Started' = Started /\ Started = len /\ Doing("restore") /\ ~Doing("restore")'
    BY DEF kproc_restore, Started, Doing
  <1>3. ASSUME NEW i \in 1 .. Started
        PROVE  ShownRegisters(i)' = ShownRegisters(i)
    <2>1. ShownRegisters(i) = Resumed(i)
      BY <1>2 DEF ShownRegisters
    <2>2. ShownRegisters(i)' = IF i = len THEN cpu' ELSE Resumed(i)
      BY <1>2 DEF ShownRegisters, Resumed, kproc_restore
    <2>3. i = len => cpu' = Resumed(i)
      BY DEF kproc_restore, Resumed, Top
    <2> QED BY <2>1, <2>2, <2>3
  <1>4. AbstractStack' = AbstractStack
    BY <1>2, <1>3, SameStack DEF kproc_restore
  <1> QED BY <1>1, <1>4 DEF Abstract!Resume, Abstract!From

\* Everything else happens inside the kernel and shows nothing.
LEMMA HiddenSteps ==
  ASSUME RInv, RInv',
         \/ memory_init \/ \E p \in PROGS : kproc_exec(p)
         \/ kproc_suspend \/ AllocStep \/ msr_ttbr0_el1 \/ tlbi_vmalle1
         \/ CopyFaults \/ CopyFaultsAgain \/ Speculate \/ UNCHANGED vars
  PROVE  UNCHANGED <<AbstractStack, Mode>>
PROOF
  <1>t. /\ len \in Nat
        /\ kproc_buffer \in [Procs -> [level0_table : Pages, suspend : Registers]]
        /\ cpu \in Registers
    BY DEF RInv, IInv, TypeOK
  <1>1. CASE memory_init \/ \E p \in PROGS : kproc_exec(p)
    <2>1. len = 0 /\ Started = 0 /\ Started' = 0
      BY <1>1 DEF memory_init, MapKernelRegion, MemoryReady, kproc_exec, Started, Doing,
                  RInv, IInv, Control
    <2>2. Mode = "booting" /\ Mode' = "booting"
      BY <1>1, <2>1 DEF memory_init, MapKernelRegion, MemoryReady, kproc_exec, Mode, Doing
    <2>3. AbstractStack' = AbstractStack
      BY <2>1, SameStack
    <2> QED BY <2>2, <2>3
  <1>2. CASE kproc_suspend
    <2>1. /\ Started = len /\ Started' = len /\ ~Doing("restore") /\ ~Doing("restore")'
          /\ len \in Procs /\ len > 0
      BY <1>2 DEF kproc_suspend, Started, Doing, RInv, IInv, Control, TypeOK, Procs
    <2>2. Mode = "starting" /\ Mode' = "starting"
      BY <1>2, <2>1 DEF kproc_suspend, Mode, Doing
    <2>3. \A i \in 1 .. Started : ShownRegisters(i)' = ShownRegisters(i)
      BY <1>2, <1>t, <2>1 DEF kproc_suspend, ShownRegisters, Resumed
    <2>4. AbstractStack' = AbstractStack
      BY <1>2, <2>1, <2>3, SameStack DEF kproc_suspend
    <2> QED BY <2>2, <2>4
  <1>3. CASE AllocStep
    <2>1. /\ pc = "alloc" /\ pc' = "msr" /\ then' = IF len = 0 THEN "exec" ELSE "init"
          /\ len' = len + 1 /\ UNCHANGED <<mem, cpu>>
          /\ \A i \in 1 .. len : kproc_buffer'[i] = kproc_buffer[i]
      BY <1>3, <1>t DEF AllocStep, kproc_alloc, SwitchThen, Procs
    <2>2. Started = len /\ Started' = len /\ ~Doing("restore") /\ ~Doing("restore")'
      BY <1>t, <2>1 DEF Started, Doing
    <2>3. Mode' = Mode
      BY <1>t, <2>1 DEF Mode, Doing
    <2>4. \A i \in 1 .. Started : ShownRegisters(i)' = ShownRegisters(i)
      BY <2>1, <2>2 DEF ShownRegisters, Resumed
    <2>5. AbstractStack' = AbstractStack
      BY <2>1, <2>2, <2>4, SameStack
    <2> QED BY <2>3, <2>5
  <1>5. CASE CopyFaults
    <2>1. /\ pc = "init" /\ pc \in Settled /\ pc' = "stuck" /\ kproc_init
          /\ UNCHANGED <<len, kproc_buffer, cpu, then>>
      BY <1>5 DEF CopyFaults, Settled
    <2>2. /\ Started' = Started /\ Started = len - 1
          /\ ~Doing("restore") /\ ~Doing("restore")'
      BY <2>1 DEF Started, Doing
    <2>3. Mode = "starting" /\ Mode' = "starting"
      BY <2>1 DEF Mode, Doing
    <2>4. \A i \in Frames : i # len => mem'[i] = mem[i]
      BY <2>1, ProgramLoaded DEF RInv
    <2>5. \A i \in 1 .. Started : ShownRegisters(i)' = ShownRegisters(i) /\ mem'[i] = mem[i]
      <3>1. \A i \in 1 .. Started : i \in Frames /\ i # len
        BY <1>t, <2>2, StackIs DEF StackFacts, RInv
      <3> QED BY <2>1, <2>2, <2>4, <3>1 DEF ShownRegisters, Resumed
    <2>6. AbstractStack' = AbstractStack
      BY <2>2, <2>5, SameStack
    <2> QED BY <2>3, <2>6
  <1>4. CASE \/ msr_ttbr0_el1 \/ tlbi_vmalle1
             \/ Speculate \/ CopyFaultsAgain \/ UNCHANGED vars
    <2> USE DEF CopyFaultsAgain
    <2>1. /\ UNCHANGED <<len, kproc_buffer, mem, cpu, then>>
          /\ \A step \in {"suspend", "init", "exec", "restore"} : Doing(step)' <=> Doing(step)
          /\ pc' = "user" <=> pc = "user"
          /\ pc' = "free" <=> pc = "free"
          /\ pc' = "alloc" <=> pc = "alloc"
      <3>1. CASE msr_ttbr0_el1 \/ tlbi_vmalle1
        BY <3>1 DEF msr_ttbr0_el1, tlbi_vmalle1, Doing, RInv, IInv, Control
      <3>2. CASE Speculate \/ CopyFaultsAgain \/ UNCHANGED vars
        BY <3>2 DEF Speculate, vars, Doing
      <3> QED BY <1>4, <3>1, <3>2
    <2>2. Started' = Started
      BY <2>1 DEF Started
    <2>3. Mode' = Mode
      BY <2>1 DEF Mode
    <2>4. \A i \in 1 .. Started : ShownRegisters(i)' = ShownRegisters(i)
      BY <2>1, <2>2 DEF ShownRegisters, Resumed
    <2>5. AbstractStack' = AbstractStack
      BY <2>1, <2>2, <2>4, SameStack
    <2> QED BY <2>3, <2>5
  <1> QED BY <1>1, <1>2, <1>3, <1>4, <1>5

\* The kernel implements the abstract stack of processes, for every number
\* of processes and every size of memory: a parent is resumed with exactly
\* the registers it called with and the memory it left, a child gets the
\* program it was started for, and the refused calls are those the
\* specification refuses.
THEOREM ProcImplementsProcAbs == Spec => RefinesProcAbs
PROOF
  <1>1. Init => Abstract!Init
    <2> SUFFICES ASSUME Init PROVE Abstract!Init
      OBVIOUS
    <2>1. pc = "memory_init" /\ len = 0
      BY DEF Init
    <2>2. Mode = "booting" /\ Started = 0
      BY <2>1 DEF Mode, Started, Doing
    <2> QED BY <2>2 DEF AbstractStack, Abstract!Init
  <1>2. RInv /\ RInv' /\ [Next]_vars => [Abstract!Next]_(Abstract!absvars)
    <2> SUFFICES ASSUME RInv, RInv', [Next]_vars
                 PROVE  [Abstract!Next]_(Abstract!absvars)
      OBVIOUS
    <2>1. CASE kproc_start
      BY <2>1, CallStartRefines DEF Abstract!Next
    <2>2. CASE ExecStep
      BY <2>2, ExecRefines DEF Abstract!Next
    <2>3. CASE InitStep
      <3>1. Abstract!Start
        BY <2>3, StartRefines
      <3> QED BY <3>1 DEF Abstract!Next
    <2>4. CASE UserComputes \/ UserWrites
      BY <2>4, RunRefines DEF Abstract!Next
    <2>5. CASE StackFull \/ LastProcess
      BY <2>5, RefusalRefines DEF Abstract!Next
    <2>6. CASE kproc_exit
      BY <2>6, CallExitRefines DEF Abstract!Next
    <2>7. CASE FreeStep
      BY <2>7, ExitRefines DEF Abstract!Next
    <2>8. CASE kproc_restore
      BY <2>8, ResumeRefines DEF Abstract!Next
    <2>9. CASE \/ memory_init \/ \E p \in PROGS : kproc_exec(p)
               \/ kproc_suspend \/ AllocStep \/ msr_ttbr0_el1 \/ tlbi_vmalle1
               \/ CopyFaults \/ CopyFaultsAgain \/ Speculate \/ UNCHANGED vars
      BY <2>9, HiddenSteps DEF Abstract!absvars
    <2> QED
      BY <2>1, <2>2, <2>3, <2>4, <2>5, <2>6, <2>7, <2>8, <2>9
         DEF Next, kcall_proc_start, kcall_proc_exit, KernelStep
  <1> QED BY <1>1, <1>2, HandOverHolds, PTL DEF Spec, RefinesProcAbs, Abstract!Spec
=============================================================================
