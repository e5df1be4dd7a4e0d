-------------------------- MODULE AllocatorProofs --------------------------
(***************************************************************************)
(* What the operators of module Allocator return, for every size of an     *)
(* entry and of the memory.                                                *)
(***************************************************************************)
EXTENDS Allocator, WellFoundedInduction, TLAPS

-----------------------------------------------------------------------------
(***************************************************************************)
(* Numbers.                                                                *)
(***************************************************************************)
\* A number is its quotient and its remainder.
LEMMA Division ==
  ASSUME NEW x \in Nat, NEW w \in Nat \ {0}
  PROVE  /\ x \div w \in Nat
         /\ x % w \in 0 .. (w - 1)
         /\ x = (x \div w) * w + (x % w)
  BY SMT

\* ... in one way only.
LEMMA DivisionUnique ==
  ASSUME NEW w \in Nat \ {0}, NEW q \in Nat, NEW r \in 0 .. (w - 1)
  PROVE  /\ (q * w + r) \div w = q
         /\ (q * w + r) % w = r
  BY SMT

\* Multiples grow with their factor.
LEMMA MultipleMonotone ==
  ASSUME NEW w \in Nat, NEW a \in Nat, NEW b \in Nat, a <= b
  PROVE  a * w <= b * w
  BY SMT

\* A sum of multiples, written out.
LEMMA Distribute ==
  ASSUME NEW w \in Nat, NEW a \in Nat, NEW b \in Nat
  PROVE  (a + (b + 1)) * w = a * w + b * w + w
  BY SMT

\* A set of numbers has a least element.
LEMMA LowestNumber ==
  ASSUME NEW S \in SUBSET Nat, S # {}
  PROVE  \E m \in S : \A y \in S : m <= y
PROOF
  <1>1. IsWellFoundedOn(OpToRel(<, Nat), Nat)
    BY NatLessThanWellFounded
  <1>2. PICK m \in S : \A y \in S : ~(<<y, m>> \in OpToRel(<, Nat))
    BY <1>1, WFMin
  <1>3. \A y \in S : ~(y < m)
    BY <1>2 DEF OpToRel
  <1> QED BY <1>3

-----------------------------------------------------------------------------
(***************************************************************************)
(* Pages, their entries and offsets.                                       *)
(***************************************************************************)
LEMMA PageCountType == PageCount \in Nat
  BY AllocatorAssumption DEF PageCount

\* Every page has an entry and an offset.
LEMMA PagePosition ==
  ASSUME NEW p \in Pages
  PROVE  /\ p \div PAGES_PER_ENTRY \in Entries
         /\ p % PAGES_PER_ENTRY \in Offsets
         /\ p = (p \div PAGES_PER_ENTRY) * PAGES_PER_ENTRY + (p % PAGES_PER_ENTRY)
PROOF
  <1> DEFINE q == p \div PAGES_PER_ENTRY
             r == p % PAGES_PER_ENTRY
  <1>1. p \in Nat /\ p < ENTRY_COUNT * PAGES_PER_ENTRY
    BY AllocatorAssumption DEF Pages, PageCount
  <1>2. q \in Nat /\ r \in 0 .. (PAGES_PER_ENTRY - 1) /\ p = q * PAGES_PER_ENTRY + r
    BY <1>1, Division, AllocatorAssumption
  <1>3. q < ENTRY_COUNT
    <2> SUFFICES ASSUME ENTRY_COUNT <= q PROVE FALSE
      BY <1>2, AllocatorAssumption
    <2>1. ENTRY_COUNT * PAGES_PER_ENTRY <= q * PAGES_PER_ENTRY
      BY <1>2, MultipleMonotone, AllocatorAssumption
    <2> HIDE DEF q, r
    <2> QED BY <1>1, <1>2, <2>1, AllocatorAssumption
  <1> QED BY <1>2, <1>3, AllocatorAssumption DEF Entries, Offsets

\* ... and every entry and offset is a page, that no other position is.
LEMMA PositionPage ==
  ASSUME NEW e \in Entries, NEW o \in Offsets
  PROVE  /\ e * PAGES_PER_ENTRY + o \in Pages
         /\ (e * PAGES_PER_ENTRY + o) \div PAGES_PER_ENTRY = e
         /\ (e * PAGES_PER_ENTRY + o) % PAGES_PER_ENTRY = o
PROOF
  <1>1. e \in Nat /\ e + 1 <= ENTRY_COUNT /\ o \in 0 .. (PAGES_PER_ENTRY - 1)
    BY AllocatorAssumption DEF Entries, Offsets
  <1>2. (e + 1) * PAGES_PER_ENTRY <= ENTRY_COUNT * PAGES_PER_ENTRY
    BY <1>1, MultipleMonotone, AllocatorAssumption
  <1>3. (e + 1) * PAGES_PER_ENTRY = e * PAGES_PER_ENTRY + PAGES_PER_ENTRY
    BY <1>1, AllocatorAssumption
  <1>4. e * PAGES_PER_ENTRY \in Nat
    BY <1>1, AllocatorAssumption
  <1> QED
    BY <1>1, <1>2, <1>3, <1>4, DivisionUnique, AllocatorAssumption DEF Pages, PageCount

-----------------------------------------------------------------------------
(***************************************************************************)
(* The loops over several entries.                                         *)
(***************************************************************************)

\* The iterations of a claiming or freeing loop touch exactly the pages of
\* the run, if the run ends within the first entry or the later iterations
\* start at offset 0.
LEMMA TouchedIsRun ==
  ASSUME NEW p \in Nat, NEW count \in Nat, NEW later \in Offsets,
         p + count <= PageCount,
         later = 0 \/ (p % PAGES_PER_ENTRY) + count <= PAGES_PER_ENTRY
  PROVE  Touched(p, count, later) = Run(p, count)
PROOF
  <1> DEFINE W == PAGES_PER_ENTRY
             e == p \div W
             r == p % W
             first == FirstChunk(p, count)
             off(k) == IF k = 0 THEN r ELSE later
             chunk(k) == EntryPages(e + k, memory_allocator_convert_to_mask(
                                             ChunkSize(k, p, count), off(k)))
  <1>1. W \in Nat \ {0} /\ e \in Nat /\ r \in 0 .. (W - 1) /\ p = e * W + r
    BY Division, AllocatorAssumption
  <1>2. /\ first \in Nat
        /\ first = IF W - r < count THEN W - r ELSE count
    BY <1>1 DEF FirstChunk, Least
  <1>3. ASSUME NEW k \in Iterations(p, count), NEW x \in chunk(k)
        PROVE  x \in Run(p, count)
    <2>1. k \in Nat /\ Handled(k, p, count) < count
      BY <1>3, AllocatorAssumption DEF Iterations, Entries
    <2>2. PICK o \in Offsets : /\ x = (e + k) * W + o
                               /\ off(k) <= o
                               /\ o < off(k) + ChunkSize(k, p, count)
      BY <1>3 DEF EntryPages, memory_allocator_convert_to_mask
    <2>3. o \in 0 .. (W - 1)
      BY <2>2 DEF Offsets
    <2>4. CASE k = 0
      <3>1. ChunkSize(k, p, count) = first
        BY <2>4 DEF ChunkSize
      <3>2. x = e * W + o /\ r <= o /\ o < r + first
        BY <2>2, <2>4, <3>1, <1>1
      <3> QED
        BY <1>1, <1>2, <2>3, <3>2 DEF Run
    <2>5. CASE k # 0
      <3>1. Handled(k, p, count) = first + (k - 1) * W
        BY <2>5 DEF Handled
      <3>2. first = W - r
        BY <1>1, <1>2, <2>1, <2>5, <3>1
      <3>3. later = 0
        BY <1>1, <1>2, <2>1, <2>5, <3>1, <3>2 DEF Offsets
      <3>4. 0 <= o /\ o < count - Handled(k, p, count)
        BY <1>1, <1>2, <2>1, <2>2, <2>3, <2>5, <3>1, <3>3 DEF ChunkSize, Least
      <3>5. x = p + Handled(k, p, count) + o
        <4>1. (e + k) * W = e * W + W + (k - 1) * W
          BY <1>1, <2>1, <2>5
        <4> QED BY <1>1, <2>1, <2>2, <2>3, <2>5, <3>1, <3>2, <4>1
      <3>6. Handled(k, p, count) \in Nat
        BY <1>1, <1>2, <2>1, <2>5, <3>1
      <3> QED BY <3>4, <3>5, <3>6, <2>3 DEF Run
    <2> QED BY <2>4, <2>5
  <1>4. ASSUME NEW x \in Run(p, count)
        PROVE  \E k \in Iterations(p, count) : x \in chunk(k)
    <2> DEFINE d == x - p
    <2>1. d \in Nat /\ d < count /\ x = p + d /\ x \in Pages
      BY <1>4, PageCountType DEF Run, Pages
    <2>2. CASE d < first
      <3>1. 0 \in Iterations(p, count)
        BY <2>1, AllocatorAssumption DEF Iterations, Entries, Handled
      <3>2. r + d \in Offsets
        BY <1>1, <1>2, <2>1, <2>2 DEF Offsets
      <3>3. r + d \in memory_allocator_convert_to_mask(ChunkSize(0, p, count), off(0))
        BY <1>1, <1>2, <2>1, <2>2, <3>2 DEF memory_allocator_convert_to_mask, ChunkSize
      <3>4. x = (e + 0) * W + (r + d)
        BY <1>1, <2>1
      <3>5. x \in chunk(0)
        BY <3>3, <3>4 DEF EntryPages
      <3> QED BY <3>1, <3>5
    <2>3. CASE d >= first
      <3>1. first = W - r
        BY <1>1, <1>2, <2>1, <2>3
      <3>2. PICK j \in Nat, o \in 0 .. (W - 1) : d - first = j * W + o
        <4>1. d - first \in Nat
          BY <1>2, <2>1, <2>3
        <4> HIDE DEF d
        <4> QED BY <1>1, <4>1, Division
      <3> DEFINE k == j + 1
      <3>3. x = (e + k) * W + o
        <4>1. (e + k) * W = e * W + j * W + W
          BY <1>1, <3>2, Distribute
        <4>2. x = p + d
          BY <2>1
        <4>3. d = W - r + j * W + o
          BY <1>1, <2>1, <3>1, <3>2
        <4> HIDE DEF k, d, e, r, W
        <4> QED BY <1>1, <3>2, <4>1, <4>2, <4>3
      <3>4. e + k \in Entries
        <4>1. e + k \in Nat
          BY <1>1, <3>2
        <4>2. x \div W = e + k
          <5> HIDE DEF k, e
          <5> QED BY <1>1, <3>2, <3>3, <4>1, DivisionUnique
        <4> QED BY <2>1, <4>2, PagePosition
      <3>5. k \in Entries /\ k # 0
        BY <1>1, <3>2, <3>4, AllocatorAssumption DEF Entries
      <3>6. Handled(k, p, count) = first + j * W
        BY <3>2 DEF Handled
      <3>7. j * W \in Nat
        BY <1>1, <3>2
      <3>8. k \in Iterations(p, count)
        <4> HIDE DEF k
        <4> QED BY <1>2, <2>1, <3>2, <3>5, <3>6, <3>7 DEF Iterations
      <3>9. later = 0
        BY <1>1, <1>2, <2>1, <2>3, <3>1
      <3>10. o \in memory_allocator_convert_to_mask(ChunkSize(k, p, count), off(k))
        <4>1. ChunkSize(k, p, count) = Least(W, count - (first + j * W))
          BY <3>5, <3>6 DEF ChunkSize
        <4>2. o < 0 + Least(W, count - (first + j * W))
          <5> HIDE DEF k
          <5> QED BY <1>1, <1>2, <2>1, <3>2, <3>7 DEF Least
        <4> HIDE DEF k
        <4> QED BY <3>2, <3>5, <3>9, <4>1, <4>2
                DEF memory_allocator_convert_to_mask, Offsets
      <3>11. x \in chunk(k)
        BY <3>3, <3>10 DEF EntryPages
      <3> QED BY <3>8, <3>11
    <2> QED BY <1>2, <2>1, <2>2, <2>3
  <1>5. Touched(p, count, later) = UNION {chunk(k) : k \in Iterations(p, count)}
    BY DEF Touched
  <1> QED BY <1>3, <1>4, <1>5

\* Claiming a run claims its pages.
THEOREM ClaimMultipleIsExact ==
  ASSUME NEW bitmap, NEW p \in Nat, NEW count \in Nat, p + count <= PageCount
  PROVE  memory_allocator_claim_multiple_pages(bitmap, p, count) = bitmap \cup Run(p, count)
PROOF
  <1>1. 0 \in Offsets
    BY AllocatorAssumption DEF Offsets
  <1> QED BY <1>1, TouchedIsRun DEF memory_allocator_claim_multiple_pages

\* Freeing a run frees its pages, and no others, if the run starts an entry
\* or stays within one.
THEOREM FreeMultipleIsExact ==
  ASSUME NEW bitmap, NEW p \in Nat, NEW count \in Nat, p + count <= PageCount,
         p % PAGES_PER_ENTRY = 0 \/ (p % PAGES_PER_ENTRY) + count <= PAGES_PER_ENTRY
  PROVE  memory_allocator_free_multiple_pages(bitmap, p, count) = bitmap \ Run(p, count)
PROOF
  <1>1. p % PAGES_PER_ENTRY \in Offsets
    BY Division, AllocatorAssumption DEF Offsets
  <1> QED BY <1>1, TouchedIsRun DEF memory_allocator_free_multiple_pages

\* Every single page is freed exactly, wherever it lies.
LEMMA FreeOnePage ==
  ASSUME NEW bitmap, NEW p \in Pages
  PROVE  memory_allocator_free_pages(bitmap, p, 1) = bitmap \ {p}
PROOF
  <1>1. p \in Nat /\ p + 1 <= PageCount
    BY PageCountType DEF Pages
  <1>2. p % PAGES_PER_ENTRY \in 0 .. (PAGES_PER_ENTRY - 1)
    BY PagePosition DEF Offsets
  <1>3. (p % PAGES_PER_ENTRY) + 1 <= PAGES_PER_ENTRY
    BY <1>2, AllocatorAssumption
  <1>4. Run(p, 1) = {p}
    BY <1>1 DEF Run
  <1> QED BY <1>1, <1>3, <1>4, FreeMultipleIsExact DEF memory_allocator_free_pages

LEMMA ClaimSpecificPage ==
  ASSUME NEW bitmap, NEW p \in Pages
  PROVE  memory_allocator_claim_specific_page(bitmap, p) = bitmap \cup {p}
PROOF
  <1> DEFINE o == p % PAGES_PER_ENTRY
  <1>1. o \in Offsets /\ o \in Nat
    BY PagePosition DEF Offsets
  <1>2. memory_allocator_convert_to_mask(1, o) = {o}
    BY <1>1 DEF memory_allocator_convert_to_mask, Offsets
  <1>3. EntryPages(p \div PAGES_PER_ENTRY, {o}) = {p}
    BY PagePosition DEF EntryPages
  <1> QED BY <1>2, <1>3 DEF memory_allocator_claim_specific_page

-----------------------------------------------------------------------------
(***************************************************************************)
(* The searches.                                                           *)
(***************************************************************************)
LEMMA MinIs ==
  ASSUME NEW S \in SUBSET Int, NEW m \in S, \A y \in S : m <= y
  PROVE  Min(S) = m
PROOF
  <1>1. \A z \in S : (\A y \in S : z <= y) => z = m
    OBVIOUS
  <1> QED BY <1>1 DEF Min

\* claim_page takes the lowest free page.
THEOREM ClaimPageIsLowest ==
  ASSUME NEW bitmap, NEW p \in Pages, p \notin bitmap,
         \A q \in Pages : q < p => q \in bitmap
  PROVE  memory_allocator_claim_page(bitmap)
           = [page |-> p, bitmap |-> bitmap \cup {p}]
PROOF
  <1> DEFINE W == PAGES_PER_ENTRY
             e == p \div W
             o == p % W
  <1>1. /\ W \in Nat \ {0} /\ e \in Entries /\ o \in Offsets /\ p = e * W + o
        /\ e \in Nat /\ o \in Nat /\ o < W /\ p \in Nat
    BY PagePosition, PageCountType, AllocatorAssumption DEF Entries, Offsets, Pages
  <1>2. o \in FreeOffsets(bitmap, e)
    BY <1>1 DEF FreeOffsets
  <1>3. ASSUME NEW y \in FreeOffsets(bitmap, e)
        PROVE  o <= y
    <2>1. y \in Offsets /\ e * W + y \in Pages /\ e * W + y \notin bitmap
      BY <1>1, PositionPage DEF FreeOffsets
    <2>2. ~(e * W + y < p)
      BY <2>1
    <2>3. y \in Nat /\ e * W \in Nat
      BY <1>1, <2>1 DEF Offsets
    <2> HIDE DEF e, o, W
    <2> QED BY <1>1, <2>2, <2>3
  <1>4. ASSUME NEW f \in NotFull(bitmap)
        PROVE  e <= f
    <2>1. PICK y \in Offsets : f \in Entries /\ f * W + y \notin bitmap
      BY DEF NotFull, FreeOffsets
    <2>2. f * W + y \in Pages /\ ~(f * W + y < p)
      BY <2>1, PositionPage
    <2>3. f \in Nat /\ y \in Nat /\ y < W /\ f * W \in Nat
      BY <1>1, <2>1 DEF Entries, Offsets
    <2> SUFFICES ASSUME f < e PROVE FALSE
      BY <1>1, <2>3
    <2>4. (f + 1) * W <= e * W /\ (f + 1) * W = f * W + W
      BY <1>1, <2>3, MultipleMonotone
    <2> HIDE DEF e, o, W
    <2> QED BY <1>1, <2>2, <2>3, <2>4
  <1>5. e \in NotFull(bitmap)
    BY <1>1, <1>2 DEF NotFull
  <1>6. NotFull(bitmap) \in SUBSET Int /\ FreeOffsets(bitmap, e) \in SUBSET Int
    BY AllocatorAssumption DEF NotFull, FreeOffsets, Entries, Offsets
  <1>7. Min(NotFull(bitmap)) = e
    <2> HIDE DEF e
    <2> QED BY <1>4, <1>5, <1>6, MinIs
  <1>8. Min(FreeOffsets(bitmap, e)) = o
    <2> HIDE DEF e, o
    <2> QED BY <1>2, <1>3, <1>6, MinIs
  <1>9. NotFull(bitmap) # {}
    BY <1>5
  <1> HIDE DEF e, o
  <1> QED BY <1>1, <1>7, <1>8, <1>9, ClaimSpecificPage DEF memory_allocator_claim_page

\* The search for several pages takes the lowest run that looks free.
LEMMA FirstFitIsLowest ==
  ASSUME NEW bitmap, NEW number \in Nat, NEW align \in Nat,
         NEW p \in Fits(bitmap, number, align),
         \A c \in Fits(bitmap, number, align) : p <= c
  PROVE  FirstFit(bitmap, number, align)
           = [page |-> p, bitmap |-> bitmap \cup Run(p, number)]
PROOF
  <1>1. Fits(bitmap, number, align) \in SUBSET Int
    BY PageCountType DEF Fits
  <1>2. Min(Fits(bitmap, number, align)) = p
    BY <1>1, MinIs
  <1>3. p \in Nat /\ p + number <= PageCount
    BY PageCountType DEF Fits
  <1> QED BY <1>2, <1>3, ClaimMultipleIsExact DEF FirstFit

\* ... or nothing, if there is none.
LEMMA FirstFitIs ==
  ASSUME NEW bitmap, NEW number \in Nat, NEW align \in Nat
  PROVE  LET claimed == FirstFit(bitmap, number, align)
         IN  \/ claimed = [page |-> NULL, bitmap |-> bitmap]
             \/ \E p \in Fits(bitmap, number, align) :
                  claimed = [page |-> p, bitmap |-> bitmap \cup Run(p, number)]
PROOF
  <1>1. CASE Fits(bitmap, number, align) = {}
    BY <1>1 DEF FirstFit
  <1>2. CASE Fits(bitmap, number, align) # {}
    <2>1. Fits(bitmap, number, align) \in SUBSET Nat
      BY PageCountType DEF Fits
    <2>2. PICK p \in Fits(bitmap, number, align) :
                 \A c \in Fits(bitmap, number, align) : p <= c
      BY <1>2, <2>1, LowestNumber
    <2> QED BY <2>2, FirstFitIsLowest
  <1> QED BY <1>1, <1>2

\* claim_page takes some free page, unless there is none.
LEMMA ClaimPageIs ==
  ASSUME NEW bitmap \in SUBSET Pages
  PROVE  LET claimed == memory_allocator_claim_page(bitmap)
         IN  \/ bitmap = Pages /\ claimed = [page |-> NULL, bitmap |-> bitmap]
             \/ \E p \in Pages \ bitmap : claimed = [page |-> p, bitmap |-> bitmap \cup {p}]
PROOF
  <1>1. CASE bitmap = Pages
    <2>1. \A e \in Entries : FreeOffsets(bitmap, e) = {}
      BY <1>1, PositionPage DEF FreeOffsets
    <2>2. NotFull(bitmap) = {}
      BY <2>1 DEF NotFull
    <2> QED BY <1>1, <2>2 DEF memory_allocator_claim_page
  <1>2. CASE bitmap # Pages
    <2>0. Pages \subseteq Nat
      BY PageCountType DEF Pages
    <2>1. (Pages \ bitmap) \in SUBSET Nat /\ Pages \ bitmap # {}
      BY <1>2, <2>0
    <2>2. PICK p \in Pages \ bitmap : \A y \in Pages \ bitmap : p <= y
      BY <2>1, LowestNumber
    <2>3. \A q \in Pages : q < p => q \in bitmap
      BY <2>1, <2>2
    <2> QED BY <2>2, <2>3, ClaimPageIsLowest
  <1> QED BY <1>1, <1>2
=============================================================================
