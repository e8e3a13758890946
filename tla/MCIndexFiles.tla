------------------------------ MODULE MCIndexFiles -----------------------------
(***************************************************************************)
(* Small instance of IndexFiles for TLC: clustering may find one community *)
(* or two, or none.                                                        *)
(***************************************************************************)
EXTENDS IndexFiles

CONSTANTS c1, c2
MCCommunities == {c1, c2}
MCHierarchies == {{}, {c1}, {c1, c2}}
================================================================================
