----------------------------- MODULE ClaimPages -----------------------------
(***************************************************************************)
(* The search loop of memory_allocator_claim_pages                         *)
(* (pivos/src/memory/allocator.c), one step per iteration, called on any   *)
(* bitmap, and the caller that gives the pages back with                   *)
(* memory_allocator_free_pages or keeps them.  The reference it is checked *)
(* against is the first fit of module Allocator.                           *)
(***************************************************************************)
EXTENDS Allocator

CONSTANTS
  NUMBERS,   \* requested numbers of pages
  ALIGNS     \* requested alignments, powers of two (ALIGN_UP is a bit mask)

ASSUME RequestAssumption ==
  /\ NUMBERS \subseteq 1 .. PageCount
  /\ ALIGNS \subseteq 1 .. PageCount

VARIABLES
  s_bitmap,      \* the claimed pages
  number, align, \* the arguments of the call
  current_page, offset, entry_idx, pages_left,  \* locals of the loop
  pc,            \* "idle", "scan" (the loop head) or "returned"
  result,        \* the page claim_pages returned
  before         \* s_bitmap when claim_pages was called (history)

locals == <<current_page, offset, entry_idx, pages_left>>
vars == <<s_bitmap, number, align, locals, pc, result, before>>

\* The counters of the loop stay below the memory and one step of alignment:
\* the code has nothing else that keeps its 32-bit sums from wrapping.
TypeOK ==
  /\ s_bitmap \subseteq Pages
  /\ before \subseteq Pages
  /\ number \in NUMBERS
  /\ align \in ALIGNS
  /\ current_page \in Nat /\ current_page < PageCount + align
  /\ offset \in Offsets
  /\ entry_idx \in Nat /\ entry_idx * PAGES_PER_ENTRY < PageCount + align
  /\ pages_left \in 0 .. number
  /\ pc \in {"idle", "scan", "returned"}
  /\ result \in Pages

Init ==
  /\ s_bitmap \in SUBSET Pages
  /\ before = s_bitmap
  /\ number \in NUMBERS
  /\ align \in ALIGNS
  /\ current_page = 0 /\ offset = 0 /\ entry_idx = 0 /\ pages_left = 0
  /\ pc = "idle"
  /\ result = NULL

ALIGN_UP(addr, al) == ((addr + al - 1) \div al) * al

(***************************************************************************)
(* The call.  A request for one page with no alignment is claim_page's,    *)
(* every other one enters the loop.                                        *)
(***************************************************************************)
ClaimOnePage(n, al) ==
  /\ pc = "idle"
  /\ n = 1 /\ al = 1
  /\ number' = n /\ align' = al
  /\ before' = s_bitmap
  /\ LET claimed == memory_allocator_claim_page(s_bitmap)
     IN  result' = claimed.page /\ s_bitmap' = claimed.bitmap
  /\ current_page' = 0 /\ offset' = 0 /\ entry_idx' = 0 /\ pages_left' = 0
  /\ pc' = "returned"

EnterLoop(n, al) ==
  /\ pc = "idle"
  /\ ~(n = 1 /\ al = 1)
  /\ number' = n /\ align' = al
  /\ before' = s_bitmap
  /\ current_page' = 0 /\ offset' = 0 /\ entry_idx' = 0 /\ pages_left' = n
  /\ pc' = "scan"
  /\ UNCHANGED <<s_bitmap, result>>

(***************************************************************************)
(* One iteration: the pages of the current entry that the run covers look  *)
(* free, or the search moves on to a later candidate.                      *)
(***************************************************************************)
\* The rest of the entry, even where the run ends before it.
WholeEntry == PAGES_PER_ENTRY - offset

pages_to_claim == Least(PAGES_PER_ENTRY - offset, pages_left)

current_mask == memory_allocator_convert_to_mask(pages_to_claim, offset)

InLoop == pc = "scan" /\ pages_left > 0 /\ entry_idx < ENTRY_COUNT

\* A comparison with the whole 64-bit entry would not need Seen.
MaskLooksFree == EntryPages(entry_idx, current_mask) \cap Seen \cap s_bitmap = {}

EntryLooksFree ==
  /\ InLoop
  /\ MaskLooksFree
  /\ pages_left' = pages_left - pages_to_claim
  /\ entry_idx' = entry_idx + 1
  /\ offset' = 0
  /\ UNCHANGED <<s_bitmap, number, align, current_page, pc, result, before>>

\* A skip that rounds the checked pages up even when they end exactly at an
\* alignment boundary, and so jumps over a candidate.
SkipTooFar(checked_pages) == ALIGN_UP(checked_pages + 1, align) + align

\* A skip without the minimum of one alignment step: it stays where it is
\* when the first entry of a candidate is occupied.
SkipNothing(checked_pages) == ALIGN_UP(checked_pages, align)

Skip(checked_pages) ==
  IF checked_pages > align THEN ALIGN_UP(checked_pages, align) ELSE align

EntryOccupied ==
  /\ InLoop
  /\ ~MaskLooksFree
  /\ LET next_page == current_page + Skip(number - pages_left)
     IN  /\ current_page' = next_page
         /\ offset' = next_page % PAGES_PER_ENTRY
         /\ entry_idx' = next_page \div PAGES_PER_ENTRY
  /\ pages_left' = number
  /\ UNCHANGED <<s_bitmap, number, align, pc, result, before>>

Found ==
  /\ pc = "scan"
  /\ pages_left = 0
  /\ s_bitmap' = memory_allocator_claim_multiple_pages(s_bitmap, current_page, number)
  /\ result' = current_page
  /\ pc' = "returned"
  /\ UNCHANGED <<number, align, locals, before>>

\* A failing search that claims the candidate it stopped at all the same.
NotFoundClaims ==
  /\ pc = "scan"
  /\ pages_left > 0
  /\ entry_idx >= ENTRY_COUNT
  /\ s_bitmap' = s_bitmap \cup (Run(current_page, number) \cap Pages)
  /\ result' = NULL
  /\ pc' = "returned"
  /\ UNCHANGED <<number, align, locals, before>>

NotFound ==
  /\ pc = "scan"
  /\ pages_left > 0
  /\ entry_idx >= ENTRY_COUNT
  /\ result' = NULL
  /\ pc' = "returned"
  /\ UNCHANGED <<s_bitmap, number, align, locals, before>>

(***************************************************************************)
(* The caller keeps what it got, or gives it back.                         *)
(***************************************************************************)
Keep ==
  /\ pc = "returned"
  /\ pc' = "idle"
  /\ UNCHANGED <<s_bitmap, number, align, locals, result, before>>

GiveBack ==
  /\ pc = "returned"
  /\ result # NULL
  /\ s_bitmap' = memory_allocator_free_pages(s_bitmap, result, number)
  /\ pc' = "idle"
  /\ UNCHANGED <<number, align, locals, result, before>>

SearchStep == EntryLooksFree \/ EntryOccupied \/ Found \/ NotFound

Next ==
  \/ \E n \in NUMBERS, al \in ALIGNS : ClaimOnePage(n, al) \/ EnterLoop(n, al)
  \/ SearchStep
  \/ Keep
  \/ GiveBack

\* The kernel's code is not preempted for ever: a call that runs goes on.
Spec == Init /\ [][Next]_vars /\ WF_vars(SearchStep)

-----------------------------------------------------------------------------
(***************************************************************************)
(* Properties.                                                             *)
(***************************************************************************)

\* The loop invariant: every aligned candidate below current_page holds a
\* seen claimed page, and the pages already checked, number - pages_left from
\* current_page on, look free and end where the loop continues.  This is what
\* the comment on the skip (allocator.c:157-159) argues.
SearchInvariant ==
  pc = "scan" =>
    /\ current_page % align = 0
    /\ \A c \in {align * k : k \in 0 .. PageCount} :
         c < current_page /\ c + number <= PageCount => ~LooksFree(s_bitmap, c, number)
    /\ LooksFree(s_bitmap, current_page, number - pages_left)
    /\ pages_left > 0 =>
         entry_idx * PAGES_PER_ENTRY + offset = current_page + number - pages_left

OnePage == number = 1 /\ align = 1

NoRoom == IF OnePage THEN before = Pages ELSE Fits(before, number, align) = {}

\* claim_pages returns the first aligned run whose seen pages are all free
\* (for a single page, the first free one) and claims exactly that run; when
\* there is none it returns NULL and claims nothing.
ResultIsFirstFit ==
  pc = "returned" =>
    /\ result = memory_allocator_claim_pages(before, number, align).page
    /\ s_bitmap = IF NoRoom THEN before ELSE before \cup Run(result, number)

\* The caller can tell failure from success by the returned pointer as long
\* as the run from page 0 on is visibly in use (memory_init claims it for the
\* kernel image): then a call that returns NULL has claimed nothing.
NullClaimsNothing ==
  pc = "returned" /\ result = NULL =>
    \/ s_bitmap = before
    \/ IF OnePage THEN 0 \notin before ELSE LooksFree(before, 0, number)

\* Giving back a run frees exactly its pages, provided that the run starts an
\* entry or stays within one.  Any other run would be freed wrongly, since
\* free_multiple_pages keeps its first offset for the entries that follow
\* (allocator.c:60-67); the kernel frees only single pages and whole blocks.
FreeIsExact ==
  [][GiveBack /\ (result % PAGES_PER_ENTRY = 0
                    \/ (result % PAGES_PER_ENTRY) + number <= PAGES_PER_ENTRY)
       => s_bitmap' = s_bitmap \ Run(result, number)]_vars

\* A call of claim_pages returns: the skip always moves the search forward.
ClaimReturns == pc = "scan" ~> pc = "returned"
=============================================================================
