-------------------------- MODULE ClaimPagesProofs --------------------------
(***************************************************************************)
(* The search loop of claim_pages finds the first fit, for every size of   *)
(* an entry, every part of it that the search sees, and all requests.  The *)
(* proofs about processes rest on the first fit; this one ties it to the   *)
(* loop.                                                                   *)
(***************************************************************************)
EXTENDS ClaimPages, AllocatorProofs

\* Where the loop has got to in memory.
Position == entry_idx * PAGES_PER_ENTRY + offset

\* A candidate as the search meets it: a multiple of the alignment.
Candidates(al) == {al * k : k \in 0 .. PageCount}

\* SearchInvariant, and what makes it inductive: the loop is never beyond
\* the memory with a finished run, and a run is claimed whole.
Loop ==
  pc = "scan" =>
    /\ \E m \in 0 .. current_page : current_page = align * m
    /\ \A c \in Candidates(align) :
         c < current_page /\ c + number <= PageCount => ~LooksFree(s_bitmap, c, number)
    /\ LooksFree(s_bitmap, current_page, number - pages_left)
    /\ pages_left > 0 => Position = current_page + number - pages_left
    /\ pages_left = 0 => current_page + number <= PageCount
    /\ before = s_bitmap
    /\ ~OnePage

Returned ==
  pc = "returned" =>
    /\ result + number <= PageCount
    /\ ResultIsFirstFit
    /\ NullClaimsNothing

IInv == TypeOK /\ Loop /\ Returned
-----------------------------------------------------------------------------
(***************************************************************************)
(* Numbers.                                                                *)
(***************************************************************************)
\* Rounding up gives a multiple, less than one step away ...
LEMMA AlignUp ==
  ASSUME NEW x \in Nat, NEW a \in Nat \ {0}
  PROVE  \E q \in Nat : ALIGN_UP(x, a) = q * a /\ x <= q * a /\ q * a < x + a
PROOF
  <1> DEFINE q == (x + a - 1) \div a
             r == (x + a - 1) % a
  <1>1. x + a - 1 \in Nat
    OBVIOUS
  <1>2. q \in Nat /\ r \in 0 .. (a - 1) /\ x + a - 1 = q * a + r
    BY <1>1, Division
  <1>3. ALIGN_UP(x, a) = q * a
    BY DEF ALIGN_UP
  <1> HIDE DEF q, r
  <1>4. q * a \in Nat
    BY <1>2
  <1> QED BY <1>2, <1>3, <1>4

\* ... so that the multiples below it are below the number itself.
LEMMA MultipleBelow ==
  ASSUME NEW x \in Nat, NEW a \in Nat \ {0}, NEW q \in Nat, q * a < x + a,
         NEW j \in Nat, j < q
  PROVE  j * a < x
PROOF
  <1>1. (j + 1) * a <= q * a
    BY MultipleMonotone
  <1>2. (j + 1) * a = j * a + a /\ j * a \in Nat /\ q * a \in Nat
    OBVIOUS
  <1> QED BY <1>1, <1>2

\* The skip reaches the next multiple from which on nothing is known: those
\* it passes over begin among the pages that have been looked at.
LEMMA SkipIs ==
  ASSUME align \in Nat \ {0}, NEW checked \in Nat
  PROVE  \E q \in Nat \ {0} :
           /\ Skip(checked) = align * q
           /\ Skip(checked) <= checked + align
           /\ \A j \in Nat : j < q => j = 0 \/ align * j < checked
PROOF
  <1>1. CASE checked > align
    <2>1. PICK q \in Nat : /\ ALIGN_UP(checked, align) = q * align
                           /\ checked <= q * align /\ q * align < checked + align
      BY AlignUp
    <2>2. q # 0
      BY <1>1, <2>1
    <2>3. Skip(checked) = align * q /\ Skip(checked) <= checked + align
      <3>1. Skip(checked) = q * align
        BY <1>1, <2>1 DEF Skip
      <3>2. q * align = align * q /\ q * align \in Nat
        BY <2>1
      <3> QED BY <2>1, <3>1, <3>2
    <2>4. ASSUME NEW j \in Nat, j < q PROVE align * j < checked
      BY <2>1, <2>4, MultipleBelow
    <2> QED BY <2>2, <2>3, <2>4
  <1>2. CASE ~(checked > align)
    <2>1. Skip(checked) = align * 1 /\ Skip(checked) <= checked + align
      BY <1>2 DEF Skip
    <2> QED BY <2>1
  <1> QED BY <1>1, <1>2

-----------------------------------------------------------------------------
(***************************************************************************)
(* Runs of pages that look free.                                           *)
(***************************************************************************)
LEMMA NothingLooksFree ==
  ASSUME NEW bitmap, NEW p \in Nat
  PROVE  LooksFree(bitmap, p, 0)
  BY DEF LooksFree, Run

LEMMA RunGrows ==
  ASSUME NEW bitmap, NEW p \in Nat, NEW a \in Nat, NEW b \in Nat,
         LooksFree(bitmap, p, a), Run(p + a, b) \cap Seen \cap bitmap = {}
  PROVE  LooksFree(bitmap, p, a + b)
PROOF
  <1>1. Run(p, a + b) = Run(p, a) \cup Run(p + a, b)
    BY DEF Run
  <1> QED BY <1>1 DEF LooksFree

\* The pages of a mask that stays within its entry.
LEMMA MaskIsRun ==
  ASSUME NEW e \in Nat, NEW o \in Offsets, NEW n \in Nat, o + n <= PAGES_PER_ENTRY
  PROVE  EntryPages(e, memory_allocator_convert_to_mask(n, o))
           = Run(e * PAGES_PER_ENTRY + o, n)
PROOF
  <1> DEFINE b == e * PAGES_PER_ENTRY
             M == memory_allocator_convert_to_mask(n, o)
  <1>1. b \in Nat /\ o \in Nat
    BY AllocatorAssumption DEF Offsets
  <1>2. M = o .. (o + n - 1)
    BY AllocatorAssumption DEF memory_allocator_convert_to_mask, Offsets
  <1>3. EntryPages(e, M) = {b + x : x \in M}
    BY DEF EntryPages
  <1> HIDE DEF b, M
  <1>4. ASSUME NEW y \in Run(b + o, n) PROVE \E x \in M : y = b + x
    <2>1. y - b \in M /\ y = b + (y - b)
      BY <1>1, <1>2 DEF Run
    <2> QED BY <2>1
  <1>5. ASSUME NEW x \in M PROVE b + x \in Run(b + o, n)
    BY <1>1, <1>2 DEF Run
  <1>6. {b + x : x \in M} = Run(b + o, n)
    BY <1>4, <1>5
  <1> QED BY <1>3, <1>6 DEF b, M

\* A search starts within its bounds.
LEMMA StartsBelow ==
  ASSUME NEW al \in Nat \ {0}
  PROVE  0 < PageCount + al /\ 0 * PAGES_PER_ENTRY < PageCount + al
  BY PageCountType, AllocatorAssumption

-----------------------------------------------------------------------------
(***************************************************************************)
(* The iteration.                                                          *)
(***************************************************************************)
LEMMA RequestIs ==
  ASSUME TypeOK
  PROVE  /\ number \in Nat /\ 1 <= number /\ number <= PageCount
         /\ align \in Nat \ {0}
         /\ PageCount \in Nat \ {0}
         /\ 0 \in Offsets /\ 0 \in Pages
  BY RequestAssumption, PageCountType, AllocatorAssumption DEF TypeOK, Offsets, Pages

\* What one iteration looks at: the next pages of the run, at least one of
\* them, up to the end of the run or of the entry.
LEMMA LooksAt ==
  ASSUME TypeOK, Loop, InLoop
  PROVE  /\ pages_to_claim \in 1 .. pages_left
         /\ offset + pages_to_claim <= PAGES_PER_ENTRY
         /\ pages_left > pages_to_claim => offset + pages_to_claim = PAGES_PER_ENTRY
         /\ EntryPages(entry_idx, current_mask)
              = Run(current_page + (number - pages_left), pages_to_claim)
PROOF
  <1>1. /\ pages_left \in Nat /\ pages_left > 0 /\ pages_left <= number
        /\ number \in Nat /\ current_page \in Nat
        /\ entry_idx \in Nat /\ offset \in Offsets
    BY RequestIs DEF TypeOK, InLoop
  <1>2. /\ pages_to_claim \in 1 .. pages_left
        /\ offset + pages_to_claim <= PAGES_PER_ENTRY
        /\ pages_left > pages_to_claim => offset + pages_to_claim = PAGES_PER_ENTRY
    BY <1>1, AllocatorAssumption DEF pages_to_claim, Least, Offsets
  <1>3. EntryPages(entry_idx, current_mask)
          = Run(entry_idx * PAGES_PER_ENTRY + offset, pages_to_claim)
    BY <1>1, <1>2, MaskIsRun DEF current_mask
  <1>4. Position = current_page + number - pages_left
    BY <1>1 DEF Loop, InLoop
  <1>5. entry_idx * PAGES_PER_ENTRY + offset = current_page + (number - pages_left)
    BY <1>1, <1>4 DEF Position
  <1> QED BY <1>2, <1>3, <1>5

LEMMA LooksFreeStep ==
  ASSUME TypeOK, Loop, EntryLooksFree
  PROVE  TypeOK' /\ Loop' /\ Returned'
PROOF
  <1> DEFINE W == PAGES_PER_ENTRY
             checked == number - pages_left
  <1>1. /\ pc = "scan" /\ pages_left > 0 /\ entry_idx < ENTRY_COUNT
        /\ pages_left' = pages_left - pages_to_claim
        /\ entry_idx' = entry_idx + 1 /\ offset' = 0
        /\ s_bitmap' = s_bitmap /\ number' = number /\ align' = align
        /\ current_page' = current_page /\ pc' = pc /\ result' = result
        /\ before' = before
    BY DEF EntryLooksFree, InLoop
  <1>2. /\ pages_to_claim \in 1 .. pages_left
        /\ offset + pages_to_claim <= W
        /\ pages_left > pages_to_claim => offset + pages_to_claim = W
        /\ EntryPages(entry_idx, current_mask)
             = Run(current_page + checked, pages_to_claim)
    BY LooksAt DEF EntryLooksFree
  <1>3. /\ pages_left \in Nat /\ pages_left <= number
        /\ number \in Nat /\ current_page \in Nat /\ checked \in Nat
        /\ entry_idx \in Nat /\ offset \in Nat /\ W \in Nat
    BY RequestIs, AllocatorAssumption DEF TypeOK, Offsets
  <1>4. TypeOK'
    <2>1. entry_idx' * W < PageCount + align
      <3>1. (entry_idx + 1) * W <= ENTRY_COUNT * W
        BY <1>1, <1>3, AllocatorAssumption, MultipleMonotone
      <3>2. (entry_idx + 1) * W \in Nat
        BY <1>3
      <3> QED BY <1>1, <3>1, <3>2, RequestIs DEF PageCount
    <2> QED BY <1>1, <1>2, <1>3, <2>1, RequestIs DEF TypeOK
  <1>5. Returned'
    BY <1>1 DEF Returned
  <1>6. LooksFree(s_bitmap, current_page, number - pages_left')
    <2>1. LooksFree(s_bitmap, current_page, checked)
      BY <1>1 DEF Loop
    <2>2. Run(current_page + checked, pages_to_claim) \cap Seen \cap s_bitmap = {}
      BY <1>2 DEF EntryLooksFree, MaskLooksFree
    <2>3. LooksFree(s_bitmap, current_page, checked + pages_to_claim)
      BY <1>2, <1>3, <2>1, <2>2, RunGrows
    <2>4. number - pages_left' = checked + pages_to_claim
      BY <1>1, <1>2, <1>3
    <2> QED BY <2>3, <2>4
  <1>7. entry_idx * W + offset = current_page + checked
    BY <1>1, <1>3 DEF Loop, Position
  <1>8. (entry_idx + 1) * W = entry_idx * W + W /\ entry_idx * W \in Nat
    BY <1>3
  <1>9. pages_left' > 0 => Position' = current_page + number - pages_left'
    <2> DEFINE b == entry_idx * W
    <2>1. Position' = (entry_idx + 1) * W + 0
      BY <1>1 DEF Position
    <2>2. Position' = b + W /\ b \in Nat /\ b + offset = current_page + checked
      BY <2>1, <1>3, <1>7, <1>8
    <2> HIDE DEF b
    <2> QED BY <1>1, <1>2, <1>3, <2>2
  <1>10. pages_left' = 0 => current_page + number <= PageCount
    <2> DEFINE b == entry_idx * W
    <2>1. (entry_idx + 1) * W <= ENTRY_COUNT * W
      BY <1>1, <1>3, AllocatorAssumption, MultipleMonotone
    <2>2. b + W <= PageCount /\ b \in Nat /\ b + offset = current_page + checked
      BY <2>1, <1>7, <1>8 DEF PageCount
    <2> HIDE DEF b
    <2> QED BY <1>1, <1>2, <1>3, <2>2, PageCountType
  <1>11. Loop'
    BY <1>1, <1>6, <1>9, <1>10 DEF Loop, OnePage
  <1> QED BY <1>4, <1>5, <1>11

LEMMA OccupiedStep ==
  ASSUME TypeOK, Loop, EntryOccupied
  PROVE  TypeOK' /\ Loop' /\ Returned'
PROOF
  <1> DEFINE W == PAGES_PER_ENTRY
             checked == number - pages_left
             next == current_page + Skip(checked)
  <1>1. /\ pc = "scan" /\ pages_left > 0 /\ InLoop
        /\ current_page' = next /\ offset' = next % W /\ entry_idx' = next \div W
        /\ pages_left' = number
        /\ s_bitmap' = s_bitmap /\ number' = number /\ align' = align
        /\ pc' = pc /\ result' = result /\ before' = before
    BY DEF EntryOccupied, InLoop
  <1>2. /\ pages_to_claim \in 1 .. pages_left
        /\ EntryPages(entry_idx, current_mask)
             = Run(current_page + checked, pages_to_claim)
    BY <1>1, LooksAt
  <1>3. /\ pages_left \in Nat /\ pages_left <= number /\ number \in Nat /\ 1 <= number
        /\ current_page \in Nat /\ checked \in Nat /\ align \in Nat \ {0}
        /\ W \in Nat \ {0}
    BY RequestIs, AllocatorAssumption DEF TypeOK
  <1>4. PICK q \in Nat \ {0} :
          /\ Skip(checked) = align * q
          /\ Skip(checked) <= checked + align
          /\ \A j \in Nat : j < q => j = 0 \/ align * j < checked
    BY <1>3, SkipIs
  <1>5. PICK m \in 0 .. current_page : current_page = align * m
    BY <1>1 DEF Loop
  <1>6. next = align * (m + q) /\ next \in Nat
    BY <1>3, <1>4, <1>5
  <1>7. m + q <= next
    <2>1. (m + q) * 1 <= (m + q) * align
      BY <1>3, <1>4, <1>5
    <2>2. (m + q) * align = align * (m + q)
      BY <1>3, <1>4, <1>5
    <2> QED BY <1>3, <1>4, <1>5, <1>6, <2>1, <2>2
  <1>8. PICK x \in Run(current_page + checked, pages_to_claim) : x \in Seen /\ x \in s_bitmap
    BY <1>2 DEF EntryOccupied, MaskLooksFree
  <1>9. x \in Nat /\ current_page + checked <= x /\ x < current_page + number
    BY <1>2, <1>3, <1>8 DEF Run
  <1>10. ASSUME NEW c \in Candidates(align), c < next, c + number <= PageCount
         PROVE  ~LooksFree(s_bitmap, c, number)
    <2>1. PICK k \in 0 .. PageCount : c = align * k
      BY DEF Candidates
    <2>2. k \in Nat /\ m \in Nat /\ align \in Nat /\ c \in Nat
      BY <1>3, <1>5, <2>1, PageCountType
    <2>3. CASE k < m
      <3>1. (k + 1) * align <= m * align
        BY <2>2, <2>3, MultipleMonotone
      <3>2. (k + 1) * align = align * k + align /\ m * align = align * m
        BY <2>2
      <3>3. c < current_page
        BY <1>3, <1>5, <2>1, <2>2, <3>1, <3>2
      <3> QED BY <1>1, <1>10, <3>3 DEF Loop
    <2>4. CASE ~(k < m)
      <3> DEFINE j == k - m
      <3>1. j \in Nat /\ k = m + j
        BY <2>2, <2>4
      <3>2. c = current_page + align * j /\ align * j \in Nat
        BY <1>5, <2>1, <2>2, <3>1
      <3>3. j < q
        <4>1. SUFFICES ASSUME q <= j PROVE FALSE
          BY <1>4, <3>1
        <4>2. (m + q) * align <= k * align
          BY <1>4, <2>2, <3>1, <4>1, MultipleMonotone
        <4>3. (m + q) * align = align * (m + q) /\ k * align = align * k
          BY <1>4, <2>2
        <4> QED BY <1>6, <1>10, <2>1, <2>2, <4>2, <4>3
      <3>4. j = 0 \/ align * j < checked
        BY <1>4, <3>1, <3>3
      <3>5. j = 0 => align * j = 0
        BY <2>2
      <3> DEFINE d == align * j
      <3>6. c = current_page + d /\ d \in Nat /\ (d = 0 \/ d < checked)
        BY <3>2, <3>4, <3>5
      <3> HIDE DEF d, j
      <3>7. x \in Run(c, number)
        BY <1>3, <1>9, <3>6 DEF Run
      <3> QED BY <1>8, <3>7 DEF LooksFree
    <2> QED BY <2>3, <2>4
  <1>11. /\ next % W \in 0 .. (W - 1) /\ next \div W \in Nat
         /\ next = (next \div W) * W + (next % W)
    BY <1>3, <1>6, Division
  <1>12. TypeOK'
    <2>1. current_page' \in Nat /\ offset' \in Offsets /\ entry_idx' \in Nat
      BY <1>1, <1>6, <1>11 DEF Offsets
    <2>2. pages_left' \in 0 .. number
      BY <1>1, <1>3
    <2>3. next < PageCount + align
      <3>1. x < PageCount
        BY <1>8, PageCountType DEF TypeOK, Pages
      <3>2. Skip(checked) \in Nat
        BY <1>3, <1>4
      <3> QED BY <1>3, <1>4, <1>9, <3>1, <3>2, RequestIs
    <2>4. (next \div W) * W <= next
      <3> DEFINE b == (next \div W) * W
      <3>1. b \in Nat /\ next % W \in Nat /\ next = b + (next % W)
        BY <1>3, <1>11
      <3> HIDE DEF b, next
      <3>2. b <= next
        BY <3>1
      <3> QED BY <3>2 DEF b
    <2> HIDE DEF next
    <2>5. entry_idx' * W < PageCount + align
      <3>1. (next \div W) * W \in Nat /\ next \in Nat
        BY <1>3, <1>6, <1>11
      <3> QED BY <1>1, <1>3, <2>3, <2>4, <3>1, RequestIs
    <2> QED BY <1>1, <2>1, <2>2, <2>3, <2>5 DEF TypeOK
  <1>13. LooksFree(s_bitmap, next, number - number)
    BY <1>3, <1>6, NothingLooksFree
  <1>14. Position' = next + number - number
    <2>1. Position' = (next \div W) * W + (next % W)
      BY <1>1 DEF Position
    <2>2. Position' = next
      BY <2>1, <1>11
    <2> HIDE DEF next
    <2> QED BY <2>2, <1>3, <1>6
  <1>15. /\ ~OnePage /\ before = s_bitmap
    BY <1>1 DEF Loop
  <1>16. \E n \in 0 .. next : next = align * n
    <2>1. m + q \in 0 .. next
      BY <1>4, <1>5, <1>6, <1>7
    <2> QED BY <1>6, <2>1
  <1> HIDE DEF next, checked
  <1>17. Loop'
    BY <1>1, <1>3, <1>10, <1>13, <1>14, <1>15, <1>16 DEF Loop, OnePage
  <1>18. Returned'
    BY <1>1 DEF Returned
  <1> QED BY <1>12, <1>17, <1>18

LEMMA FoundStep ==
  ASSUME TypeOK, Loop, Found
  PROVE  TypeOK' /\ Loop' /\ Returned'
PROOF
  <1>1. /\ pc = "scan" /\ pages_left = 0
        /\ s_bitmap' = memory_allocator_claim_multiple_pages(s_bitmap, current_page, number)
        /\ result' = current_page /\ pc' = "returned"
        /\ number' = number /\ align' = align /\ before' = before
        /\ current_page' = current_page /\ offset' = offset
        /\ entry_idx' = entry_idx /\ pages_left' = pages_left
    BY DEF Found, locals
  <1>2. /\ number \in Nat /\ 1 <= number /\ align \in Nat \ {0}
        /\ current_page \in Nat /\ PageCount \in Nat
    BY RequestIs DEF TypeOK
  <1>3. /\ current_page + number <= PageCount /\ before = s_bitmap /\ ~OnePage
        /\ LooksFree(s_bitmap, current_page, number - pages_left)
    BY <1>1 DEF Loop
  <1>4. s_bitmap' = s_bitmap \cup Run(current_page, number)
    BY <1>1, <1>2, <1>3, ClaimMultipleIsExact
  <1>5. LooksFree(s_bitmap, current_page, number)
    <2>1. number - pages_left = number
      BY <1>1, <1>2
    <2> QED BY <1>3, <2>1
  <1>6. current_page \in Fits(s_bitmap, number, align)
    <2>1. PICK m \in 0 .. current_page : current_page = align * m
      BY <1>1 DEF Loop
    <2>2. m \in 0 .. PageCount
      BY <1>2, <1>3
    <2>3. current_page \in {align * k : k \in 0 .. PageCount}
      BY <2>1, <2>2
    <2> QED BY <1>3, <1>5, <2>3 DEF Fits
  <1>7. ASSUME NEW c \in Fits(s_bitmap, number, align) PROVE current_page <= c
    <2>1. /\ c \in Candidates(align) /\ c + number <= PageCount
          /\ LooksFree(s_bitmap, c, number)
      BY DEF Fits, Candidates
    <2>2. ~(c < current_page)
      BY <1>1, <2>1 DEF Loop
    <2>3. c \in Nat
      BY <1>2, <2>1 DEF Candidates
    <2> QED BY <1>2, <2>2, <2>3
  <1>8. FirstFit(s_bitmap, number, align)
          = [page |-> current_page, bitmap |-> s_bitmap \cup Run(current_page, number)]
    BY <1>2, <1>6, <1>7, FirstFitIsLowest
  <1>9. TypeOK'
    <2>1. Run(current_page, number) \subseteq Pages
      BY <1>2, <1>3 DEF Run, Pages
    <2>2. current_page \in Pages
      BY <1>2, <1>3 DEF Pages
    <2>3. s_bitmap' \subseteq Pages
      BY <1>4, <2>1 DEF TypeOK
    <2> QED BY <1>1, <2>2, <2>3 DEF TypeOK
  <1>10. ResultIsFirstFit'
    <2>1. ~NoRoom'
      BY <1>1, <1>3, <1>6 DEF NoRoom, OnePage
    <2>2. memory_allocator_claim_pages(before, number, align).page = current_page
      BY <1>3, <1>8 DEF memory_allocator_claim_pages, OnePage
    <2>3. result' = memory_allocator_claim_pages(before', number', align').page
      BY <1>1, <2>2
    <2>4. s_bitmap' = before' \cup Run(result', number')
      BY <1>1, <1>3, <1>4
    <2> QED BY <2>1, <2>3, <2>4 DEF ResultIsFirstFit
  <1>11. NullClaimsNothing'
    BY <1>1, <1>3, <1>5 DEF NullClaimsNothing, OnePage, NULL
  <1>12. Loop' /\ Returned'
    BY <1>1, <1>3, <1>10, <1>11 DEF Loop, Returned
  <1> QED BY <1>9, <1>12

LEMMA NotFoundStep ==
  ASSUME TypeOK, Loop, NotFound
  PROVE  TypeOK' /\ Loop' /\ Returned'
PROOF
  <1>1. /\ pc = "scan" /\ pages_left > 0 /\ entry_idx >= ENTRY_COUNT
        /\ result' = NULL /\ pc' = "returned" /\ s_bitmap' = s_bitmap
        /\ number' = number /\ align' = align /\ before' = before
        /\ current_page' = current_page /\ offset' = offset
        /\ entry_idx' = entry_idx /\ pages_left' = pages_left
    BY DEF NotFound, locals
  <1>2. /\ number \in Nat /\ 1 <= number /\ align \in Nat \ {0}
        /\ current_page \in Nat /\ PageCount \in Nat /\ number <= PageCount
        /\ pages_left \in Nat /\ entry_idx \in Nat /\ offset \in Nat
    BY RequestIs, AllocatorAssumption DEF TypeOK, Offsets
  <1>3. before = s_bitmap /\ ~OnePage
    BY <1>1 DEF Loop
  <1>4. PageCount <= current_page + number - pages_left
    <2> DEFINE b == entry_idx * PAGES_PER_ENTRY
    <2>1. PageCount <= b /\ b \in Nat
      BY <1>1, <1>2, AllocatorAssumption, MultipleMonotone DEF PageCount
    <2>2. b + offset = current_page + number - pages_left
      BY <1>1 DEF Loop, Position
    <2> HIDE DEF b
    <2> QED BY <1>2, <2>1, <2>2
  <1>5. Fits(s_bitmap, number, align) = {}
    <2>1. SUFFICES ASSUME NEW c \in Fits(s_bitmap, number, align) PROVE FALSE
      OBVIOUS
    <2>2. /\ c \in Candidates(align) /\ c + number <= PageCount
          /\ LooksFree(s_bitmap, c, number)
      BY DEF Fits, Candidates
    <2>3. ~(c < current_page)
      BY <1>1, <2>2 DEF Loop
    <2>4. c \in Nat
      BY <1>2, <2>2 DEF Candidates
    <2> QED BY <1>1, <1>2, <1>4, <2>2, <2>3, <2>4
  <1>6. TypeOK'
    BY <1>1, RequestIs DEF TypeOK, NULL
  <1>7. ResultIsFirstFit'
    <2>1. NoRoom'
      BY <1>1, <1>3, <1>5 DEF NoRoom, OnePage
    <2>2. memory_allocator_claim_pages(before, number, align).page = NULL
      BY <1>3, <1>5 DEF memory_allocator_claim_pages, OnePage, FirstFit
    <2> QED BY <1>1, <1>3, <2>1, <2>2 DEF ResultIsFirstFit
  <1>8. NullClaimsNothing'
    BY <1>1, <1>3 DEF NullClaimsNothing
  <1>9. Loop' /\ Returned'
    BY <1>1, <1>2, <1>7, <1>8 DEF Loop, Returned, NULL
  <1> QED BY <1>6, <1>9

-----------------------------------------------------------------------------
(***************************************************************************)
(* The call, and what the caller does with the run it got.                 *)
(***************************************************************************)
LEMMA OnePageStep ==
  ASSUME TypeOK, NEW n \in NUMBERS, NEW al \in ALIGNS, ClaimOnePage(n, al)
  PROVE  TypeOK' /\ Loop' /\ Returned'
PROOF
  <1> DEFINE claimed == memory_allocator_claim_page(s_bitmap)
  <1>1. /\ n = 1 /\ al = 1 /\ number' = 1 /\ align' = 1 /\ before' = s_bitmap
        /\ result' = claimed.page /\ s_bitmap' = claimed.bitmap
        /\ current_page' = 0 /\ offset' = 0 /\ entry_idx' = 0 /\ pages_left' = 0
        /\ pc' = "returned"
    BY DEF ClaimOnePage
  <1>2. \/ s_bitmap = Pages /\ claimed = [page |-> NULL, bitmap |-> s_bitmap]
        \/ \E p \in Pages \ s_bitmap :
             claimed = [page |-> p, bitmap |-> s_bitmap \cup {p}]
    BY ClaimPageIs DEF TypeOK
  <1>3. OnePage' /\ (NoRoom' <=> before' = Pages)
    BY <1>1 DEF OnePage, NoRoom
  <1>4. result' = memory_allocator_claim_pages(before', number', align').page
    BY <1>1 DEF memory_allocator_claim_pages
  <1>5. /\ PageCount \in Nat \ {0} /\ 0 \in Offsets /\ 0 \in Pages
        /\ 0 < PageCount + 1 /\ 0 * PAGES_PER_ENTRY < PageCount + 1
    BY RequestIs, StartsBelow
  <1>6. CASE s_bitmap = Pages /\ claimed = [page |-> NULL, bitmap |-> s_bitmap]
    <2>1. result' = 0 /\ s_bitmap' = s_bitmap
      BY <1>1, <1>6 DEF NULL
    <2>2. TypeOK'
      BY <1>1, <1>5, <2>1 DEF TypeOK
    <2>3. ResultIsFirstFit'
      BY <1>1, <1>3, <1>4, <1>6, <2>1 DEF ResultIsFirstFit
    <2>4. NullClaimsNothing'
      BY <1>1, <2>1 DEF NullClaimsNothing
    <2>5. Loop' /\ Returned'
      BY <1>1, <1>5, <2>1, <2>3, <2>4 DEF Loop, Returned
    <2> QED BY <2>2, <2>5
  <1>7. ASSUME NEW p \in Pages \ s_bitmap,
               claimed = [page |-> p, bitmap |-> s_bitmap \cup {p}]
        PROVE  TypeOK' /\ Loop' /\ Returned'
    <2>1. result' = p /\ s_bitmap' = s_bitmap \cup {p}
      BY <1>1, <1>7
    <2>2. p \in Nat /\ p + 1 <= PageCount /\ Run(p, 1) = {p}
      BY <1>5 DEF Pages, Run
    <2>3. TypeOK'
      BY <1>1, <1>5, <2>1 DEF TypeOK
    <2>4. ~NoRoom'
      BY <1>1, <1>3, <1>7
    <2>5. ResultIsFirstFit'
      BY <1>1, <1>4, <2>1, <2>2, <2>4 DEF ResultIsFirstFit
    <2>6. NullClaimsNothing'
      BY <1>1, <1>3, <1>7, <2>1 DEF NullClaimsNothing, NULL
    <2>7. Loop' /\ Returned'
      BY <1>1, <2>1, <2>2, <2>5, <2>6 DEF Loop, Returned
    <2> QED BY <2>3, <2>7
  <1> QED BY <1>2, <1>6, <1>7

LEMMA EnterStep ==
  ASSUME TypeOK, NEW n \in NUMBERS, NEW al \in ALIGNS, EnterLoop(n, al)
  PROVE  TypeOK' /\ Loop' /\ Returned'
PROOF
  <1>1. /\ ~(n = 1 /\ al = 1) /\ number' = n /\ align' = al /\ before' = s_bitmap
        /\ current_page' = 0 /\ offset' = 0 /\ entry_idx' = 0 /\ pages_left' = n
        /\ pc' = "scan" /\ s_bitmap' = s_bitmap /\ result' = result
    BY DEF EnterLoop
  <1>2. /\ n \in Nat /\ 1 <= n /\ al \in Nat \ {0} /\ 0 \in Offsets
        /\ PAGES_PER_ENTRY \in Nat
    BY RequestAssumption, RequestIs, PageCountType, AllocatorAssumption
  <1>3. TypeOK'
    BY <1>1, <1>2, StartsBelow DEF TypeOK
  <1>4. \E m \in 0 .. 0 : 0 = al * m
    BY <1>2
  <1>5. ASSUME NEW c \in Candidates(al) PROVE ~(c < 0)
    BY <1>2, PageCountType DEF Candidates
  <1>6. n - n = 0 /\ LooksFree(s_bitmap, 0, 0)
    BY <1>2, NothingLooksFree
  <1>7. Position' = 0 + n - n
    BY <1>1, <1>2 DEF Position
  <1>8. ~OnePage'
    BY <1>1 DEF OnePage
  <1>9. Loop' /\ Returned'
    BY <1>1, <1>2, <1>4, <1>5, <1>6, <1>7, <1>8 DEF Loop, Returned
  <1> QED BY <1>3, <1>9

LEMMA CallerStep ==
  ASSUME IInv, Keep \/ GiveBack \/ UNCHANGED vars
  PROVE  IInv'
PROOF
  <1>1. CASE Keep
    BY <1>1 DEF IInv, TypeOK, Loop, Returned, Keep, locals
  <1>2. CASE GiveBack
    <2>1. s_bitmap' \subseteq s_bitmap
      BY <1>2 DEF GiveBack, memory_allocator_free_pages, memory_allocator_free_multiple_pages
    <2>2. TypeOK'
      BY <1>2, <2>1 DEF IInv, TypeOK, GiveBack, locals
    <2> QED BY <1>2, <2>2 DEF IInv, Loop, Returned, GiveBack
  <1>3. CASE UNCHANGED vars
    BY <1>3 DEF IInv, TypeOK, Loop, Returned, Position, OnePage, NoRoom,
                ResultIsFirstFit, NullClaimsNothing, vars, locals
  <1> QED BY <1>1, <1>2, <1>3

-----------------------------------------------------------------------------
(***************************************************************************)
(* The inductive invariant and the theorems.                               *)
(***************************************************************************)
LEMMA InitIInv == Init => IInv
PROOF
  <1> SUFFICES ASSUME Init PROVE IInv
    OBVIOUS
  <1>1. number \in 1 .. PageCount
    BY RequestAssumption DEF Init
  <1>2. 0 \in Offsets /\ 0 \in Pages
    BY <1>1, PageCountType, AllocatorAssumption DEF Offsets, Pages
  <1>3. TypeOK
    <2>1. align \in Nat \ {0}
      BY RequestAssumption, PageCountType DEF Init
    <2> QED BY <1>1, <1>2, <2>1, PageCountType, StartsBelow DEF Init, TypeOK, NULL
  <1> QED BY <1>3 DEF Init, IInv, Loop, Returned

LEMMA NextIInv == IInv /\ [Next]_vars => IInv'
PROOF
  <1> SUFFICES ASSUME IInv, [Next]_vars PROVE IInv'
    OBVIOUS
  <1> USE DEF IInv
  <1>1. ASSUME NEW n \in NUMBERS, NEW al \in ALIGNS, ClaimOnePage(n, al) PROVE IInv'
    BY <1>1, OnePageStep
  <1>2. ASSUME NEW n \in NUMBERS, NEW al \in ALIGNS, EnterLoop(n, al) PROVE IInv'
    BY <1>2, EnterStep
  <1>3. CASE EntryLooksFree
    BY <1>3, LooksFreeStep
  <1>4. CASE EntryOccupied
    BY <1>4, OccupiedStep
  <1>5. CASE Found
    BY <1>5, FoundStep
  <1>6. CASE NotFound
    BY <1>6, NotFoundStep
  <1>7. CASE Keep \/ GiveBack \/ UNCHANGED vars
    BY <1>7, CallerStep
  <1> QED BY <1>1, <1>2, <1>3, <1>4, <1>5, <1>6, <1>7 DEF Next, SearchStep

LEMMA IInvAlways == Spec => []IInv
PROOF
  <1> QED BY InitIInv, NextIInv, PTL DEF Spec

\* The locals of the search stay in their ranges: its page and its entry never
\* get further than one step of alignment beyond the end of the memory, so
\* that the unsigned sums of allocator.c:160-162 do not wrap around as long
\* as the memory and the alignment together have fewer than 2^32 pages.
THEOREM TypesHold == Spec => []TypeOK
PROOF
  <1>1. IInv => TypeOK
    BY DEF IInv
  <1> QED BY <1>1, IInvAlways, PTL

\* The comment on the skip is right (allocator.c:157-159): the search passes
\* over no aligned run whose seen pages are free, and what it has counted as
\* free is free.
THEOREM SearchInvariantHolds == Spec => []SearchInvariant
PROOF
  <1>1. IInv => SearchInvariant
    <2> SUFFICES ASSUME IInv, pc = "scan" PROVE SearchInvariant
      BY DEF SearchInvariant
    <2>1. align \in Nat \ {0} /\ current_page \in Nat /\ number \in Nat
      BY RequestIs DEF IInv, TypeOK
    <2>2. PICK m \in 0 .. current_page : current_page = align * m
      BY DEF IInv, Loop
    <2>3. current_page % align = 0
      <3>1. m \in Nat /\ current_page = m * align + 0 /\ 0 \in 0 .. (align - 1)
        BY <2>1, <2>2
      <3> QED BY <2>1, <3>1, DivisionUnique
    <2> QED BY <2>3 DEF IInv, Loop, SearchInvariant, Candidates, Position
  <1> QED BY <1>1, IInvAlways, PTL

\* claim_pages is a first fit: the loop finds what the reference definition
\* names, and claims that run and nothing else; without room it claims
\* nothing.
THEOREM FirstFitFound == Spec => []ResultIsFirstFit
PROOF
  <1>1. IInv => ResultIsFirstFit
    BY DEF IInv, Returned, ResultIsFirstFit
  <1> QED BY <1>1, IInvAlways, PTL

\* A claim that returns NULL has claimed nothing, unless the run at page 0
\* was free to be claimed.
THEOREM NullClaimsNothingHolds == Spec => []NullClaimsNothing
PROOF
  <1>1. IInv => NullClaimsNothing
    BY DEF IInv, Returned, NullClaimsNothing
  <1> QED BY <1>1, IInvAlways, PTL

\* What claim_pages gave, free_pages takes back exactly, if the run starts an
\* entry or stays within one.
THEOREM FreeIsExactHolds == Spec => FreeIsExact
PROOF
  <1> DEFINE Apart == result % PAGES_PER_ENTRY = 0
                        \/ (result % PAGES_PER_ENTRY) + number <= PAGES_PER_ENTRY
  <1>1. IInv /\ [Next]_vars
          => [GiveBack /\ Apart => s_bitmap' = s_bitmap \ Run(result, number)]_vars
    <2> SUFFICES ASSUME IInv, GiveBack, Apart
                 PROVE  s_bitmap' = s_bitmap \ Run(result, number)
      OBVIOUS
    <2>1. result \in Nat /\ number \in Nat
      BY RequestIs DEF IInv, TypeOK, Pages
    <2>2. result + number <= PageCount
      BY DEF IInv, Returned, GiveBack
    <2> QED BY <2>1, <2>2, FreeMultipleIsExact DEF GiveBack, memory_allocator_free_pages
  <1> QED BY <1>1, IInvAlways, PTL DEF Spec, FreeIsExact

=============================================================================
