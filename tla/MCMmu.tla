-------------------------------- MODULE MCMmu --------------------------------
(***************************************************************************)
(* Values for the constants of Mmu.                                        *)
(***************************************************************************)
EXTENDS Mmu

Region(va, size, type) == [va |-> va, size |-> size, type |-> type]

\* Tables of 2, 3, 3 and 2 entries: a block is 2 pages, a level 2 table 6.
MCEntries == [level \in Levels |-> IF level \in {1, 2} THEN 3 ELSE 2]

\* Regions of pages, of blocks (one of them is as a process has it), and
\* across two level 2 tables.  A page in the last block of a level 2 table
\* makes the last entry of that table a table.
MCRegions ==
  {Region(1, 2, 0), Region(0, 3, 1), Region(0, 2, 0), Region(4, 6, 0), Region(5, 1, 1)}

\* The pages around which tables and blocks must go.  These leave tables the
\* even pages up to 14, and blocks what is above ...
MCReserved == {{0} \cup {p \in 1 .. 15 : p % 2 = 1}}

\* ... and these let the search find a block over a table.
MCUsed == MCReserved \cup {{0, 1, 3, 6}}

\* A region that starts one page before a block.
MCHead == {Region(1, 3, 0)}

\* A page alone, then two blocks over it.
MCTwoBlocks == {Region(3, 1, 0), Region(0, 4, 1)}
=============================================================================
