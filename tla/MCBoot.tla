-------------------------------- MODULE MCBoot -------------------------------
(***************************************************************************)
(* Values for the constants of Boot: blocks of 8 pages, eight of them to a *)
(* level 2 table, and four such tables of memory.                          *)
(***************************************************************************)
EXTENDS Boot

MCEntries == [level \in Levels |->
  CASE level = 0 -> 2 [] level = 1 -> 5 [] level = 2 -> 8 [] level = 3 -> 8]
MCRegions == {KernelRegion[r] : r \in DOMAIN KernelRegion}

\* The kernel's own first page, the last page the boot code maps, and the
\* first peripheral.
MCWatched == {0, SIZE[1] - 1, PERIPH_START}

MCJunk == {EMPTY_ENTRY, [bits |-> BLOCK, page |-> 0, type |-> 1]}
=============================================================================
