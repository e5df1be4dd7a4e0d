---------------------------- MODULE AddressSpace ----------------------------
(***************************************************************************)
(* What a memory context promises (pivos/include/kernel/memory.h): a map   *)
(* from virtual pages to physical ones with a memory type.  Mapping a      *)
(* region proceeds by pieces; a page that has memory keeps it and only     *)
(* takes the new type, any other gets memory that no page of the context   *)
(* has, and pages outside of the region are left alone.                    *)
(***************************************************************************)
EXTENDS Integers

CONSTANTS
  VAS,      \* virtual pages
  PAS,      \* physical pages
  TYPES,    \* memory types
  REGIONS   \* regions that are mapped: records of va, size and type

VARIABLES
  mode,     \* "none" before creation, "idle", or "mapping" a region
  space,    \* where each virtual page leads, and the type of memory there
  type,     \* the type of the region being mapped, else 0
  pending   \* its pages that are not mapped yet

vars == <<mode, space, type, pending>>

UNMAPPED == [page |-> 0, type |-> -1]
Frames == [page : PAS, type : TYPES]

Init ==
  /\ mode = "none"
  /\ space = [va \in VAS |-> UNMAPPED]
  /\ type = 0
  /\ pending = {}

Create ==
  /\ mode = "none"
  /\ mode' = "idle"
  /\ UNCHANGED <<space, type, pending>>

Map(region) ==
  /\ mode = "idle"
  /\ mode' = "mapping"
  /\ type' = region.type
  /\ pending' = region.va .. (region.va + region.size - 1)
  /\ UNCHANGED space

Used(map) == {map[va].page : va \in {v \in VAS : map[v] # UNMAPPED}}

\* The pages of `some` are mapped: in place, or to memory of their own.
MapSome(some) ==
  /\ mode = "mapping"
  /\ some # {}
  /\ pending' = pending \ some
  /\ LET old   == space
         new   == space'
         fresh == {va \in some : old[va] = UNMAPPED}
     IN  /\ \A va \in VAS \ some : new[va] = old[va]
         /\ \A va \in some : new[va] \in Frames /\ new[va].type = type
         /\ \A va \in some \ fresh : new[va].page = old[va].page
         /\ Used(old) \cap {new[va].page : va \in fresh} = {}
         /\ \A va, v \in fresh : va # v => new[va].page # new[v].page
  /\ UNCHANGED <<mode, type>>

Return ==
  /\ mode = "mapping" /\ pending = {}
  /\ mode' = "idle"
  /\ type' = 0
  /\ UNCHANGED <<space, pending>>

Destroy ==
  /\ mode = "idle"
  /\ mode' = "none"
  /\ space' = [va \in VAS |-> UNMAPPED]
  /\ UNCHANGED <<type, pending>>

Next ==
  \/ Create
  \/ \E region \in REGIONS : Map(region)
  \/ \E some \in SUBSET pending : MapSome(some)
  \/ Return
  \/ Destroy

Spec == Init /\ [][Next]_vars
=============================================================================
