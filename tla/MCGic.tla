------------------------------- MODULE MCGic --------------------------------
(***************************************************************************)
(* Values for the constants of Gic: two settings that differ in every      *)
(* field, two groups, one pattern of bits before the first call.           *)
(***************************************************************************)
EXTENDS Gic

MCParams == {[priority |-> {}, cpu |-> {0}, trigger |-> {1}],
             [priority |-> {0, 3}, cpu |-> {1, 2}, trigger |-> {0}]}
MCGroups == {{}, {0}}
MCReset == {{1, 2, 4, 7}}
=============================================================================
