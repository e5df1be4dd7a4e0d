----------------------------- MODULE Allocator -----------------------------
(***************************************************************************)
(* The physical page allocator (pivos/src/memory/allocator.c): a bitmap    *)
(* with one bit per page, kept in entries of PAGES_PER_ENTRY bits, the     *)
(* most significant bit of an entry standing for its lowest page.          *)
(*                                                                         *)
(* A bitmap is modelled by the set of its claimed page numbers, a mask by  *)
(* the set of page offsets within one entry that it selects.  An address   *)
(* is its page number, so NULL (address 0) is page 0.  All operators are   *)
(* pure: they take a bitmap and return a bitmap or a page.                 *)
(***************************************************************************)
EXTENDS Integers, FiniteSetsExt

CONSTANTS
  PAGES_PER_ENTRY,  \* bits of a bitmap entry: 64
  CHECKED_FROM,     \* first page offset claim_pages can see: 32 (see Seen)
  ENTRY_COUNT       \* s_bitmap_entry_count

ASSUME AllocatorAssumption ==
  /\ PAGES_PER_ENTRY \in Nat \ {0}
  /\ CHECKED_FROM \in 0 .. (PAGES_PER_ENTRY - 1)
  /\ ENTRY_COUNT \in Nat \ {0}

NULL == 0
Entries == 0 .. (ENTRY_COUNT - 1)
Offsets == 0 .. (PAGES_PER_ENTRY - 1)
PageCount == ENTRY_COUNT * PAGES_PER_ENTRY
Pages == 0 .. (PageCount - 1)

Least(a, b) == IF a < b THEN a ELSE b

\* The `count` pages from `page` on.
Run(page, count) == page .. (page + count - 1)

(***************************************************************************)
(* Masks.  The shift by `offset` drops the bits that leave the entry at    *)
(* its right end.                                                          *)
(***************************************************************************)
memory_allocator_convert_to_mask(number, offset) ==
  {o \in Offsets : offset <= o /\ o < offset + number}

EntryPages(entry, mask) == {entry * PAGES_PER_ENTRY + o : o \in mask}

(***************************************************************************)
(* The loops of claim_multiple_pages and free_multiple_pages: iteration k  *)
(* works on entry page_number \div PAGES_PER_ENTRY + k and is done when    *)
(* `Handled` pages have been accounted for.                                *)
(***************************************************************************)
FirstChunk(page_number, count) ==
  Least(PAGES_PER_ENTRY - (page_number % PAGES_PER_ENTRY), count)

Handled(k, page_number, count) ==
  IF k = 0 THEN 0
           ELSE FirstChunk(page_number, count) + (k - 1) * PAGES_PER_ENTRY

Iterations(page_number, count) ==
  {k \in Entries : Handled(k, page_number, count) < count}

ChunkSize(k, page_number, count) ==
  IF k = 0 THEN FirstChunk(page_number, count)
           ELSE Least(PAGES_PER_ENTRY, count - Handled(k, page_number, count))

\* The pages whose bits such a loop touches: the first iteration starts at
\* the page's own offset in its entry, the others at offset `later`.
Touched(page_number, count, later) ==
  UNION {EntryPages((page_number \div PAGES_PER_ENTRY) + k,
                    memory_allocator_convert_to_mask(
                      ChunkSize(k, page_number, count),
                      IF k = 0 THEN page_number % PAGES_PER_ENTRY ELSE later)) :
           k \in Iterations(page_number, count)}

\* A claiming loop that, like the freeing one, does not reset `offset`.
ClaimNoReset(bitmap, page_number, count) ==
  bitmap \cup Touched(page_number, count, page_number % PAGES_PER_ENTRY)

memory_allocator_claim_multiple_pages(bitmap, page_number, count) ==
  bitmap \cup Touched(page_number, count, 0)

\* A freeing loop that leaves its last page claimed.
FreeShort(bitmap, page_number, count) ==
  bitmap \ Touched(page_number, count - 1, page_number % PAGES_PER_ENTRY)

\* Unlike the claiming loop, this one keeps `offset` in every iteration.
memory_allocator_free_multiple_pages(bitmap, page_number, count) ==
  bitmap \ Touched(page_number, count, page_number % PAGES_PER_ENTRY)

memory_allocator_claim_specific_page(bitmap, page_number) ==
  bitmap \cup EntryPages(page_number \div PAGES_PER_ENTRY,
                memory_allocator_convert_to_mask(1, page_number % PAGES_PER_ENTRY))

memory_allocator_free_specific_page(bitmap, page_number) ==
  bitmap \ EntryPages(page_number \div PAGES_PER_ENTRY,
             memory_allocator_convert_to_mask(1, page_number % PAGES_PER_ENTRY))

(***************************************************************************)
(* The claiming functions return the page (the address they give their     *)
(* caller) and the new bitmap.  claim_page takes the first free bit of the *)
(* first entry that is not full.                                           *)
(***************************************************************************)
FreeOffsets(bitmap, entry) ==
  {o \in Offsets : entry * PAGES_PER_ENTRY + o \notin bitmap}

NotFull(bitmap) == {e \in Entries : FreeOffsets(bitmap, e) # {}}

memory_allocator_claim_page(bitmap) ==
  IF NotFull(bitmap) = {}
    THEN [page |-> NULL, bitmap |-> bitmap]
    ELSE LET entry_idx   == Min(NotFull(bitmap))
             page_number == entry_idx * PAGES_PER_ENTRY
                              + Min(FreeOffsets(bitmap, entry_idx))
         IN  [page   |-> page_number,
              bitmap |-> memory_allocator_claim_specific_page(bitmap, page_number)]

\* An empty range still claims (and frees) one page.
memory_allocator_claim_range(bitmap, from, to) ==
  memory_allocator_claim_multiple_pages(bitmap, from,
    IF to = from THEN 1 ELSE to - from)

(***************************************************************************)
(* claim_pages.  The search compares the mask with `current_entry`, a      *)
(* uint32_t that holds the low half of the 64-bit entry: of each entry it  *)
(* sees only the pages at offset CHECKED_FROM and above.  The page it      *)
(* finds is the first fit; module ClaimPages has the search loop itself.   *)
(***************************************************************************)
Seen == {e * PAGES_PER_ENTRY + o : e \in Entries, o \in CHECKED_FROM .. (PAGES_PER_ENTRY - 1)}

LooksFree(bitmap, page, number) == Run(page, number) \cap Seen \cap bitmap = {}

Fits(bitmap, number, align) ==
  {c \in {align * k : k \in 0 .. PageCount} :
     c + number <= PageCount /\ LooksFree(bitmap, c, number)}

FirstFit(bitmap, number, align) ==
  IF Fits(bitmap, number, align) = {}
    THEN [page |-> NULL, bitmap |-> bitmap]
    ELSE LET page == Min(Fits(bitmap, number, align))
         IN  [page   |-> page,
              bitmap |-> memory_allocator_claim_multiple_pages(bitmap, page, number)]

memory_allocator_claim_pages(bitmap, number, align) ==
  IF number = 1 /\ align = 1 THEN memory_allocator_claim_page(bitmap)
                             ELSE FirstFit(bitmap, number, align)

memory_allocator_free_page(bitmap, page) ==
  memory_allocator_free_specific_page(bitmap, page)

memory_allocator_free_range(bitmap, from, to) ==
  memory_allocator_free_multiple_pages(bitmap, from,
    IF to = from THEN 1 ELSE to - from)

memory_allocator_free_pages(bitmap, page, count) ==
  memory_allocator_free_multiple_pages(bitmap, page, count)
=============================================================================
