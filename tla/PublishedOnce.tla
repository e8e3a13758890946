----------------------------- MODULE PublishedOnce -----------------------------
(***************************************************************************)
(* What an index directory promises those who load it, as long as it was   *)
(* not damaged.  One hierarchy is published in it, once.  A load that      *)
(* finds the directory complete, and that nobody writes into meanwhile,    *)
(* gets this hierarchy with all its rows.  Any other load may raise, or    *)
(* get tables with rows missing, but never rows of another hierarchy.      *)
(***************************************************************************)
CONSTANTS Hierarchies, NoHierarchy
VARIABLES
    Published,   \* the hierarchy of the directory
    Complete,    \* its tables are all there, with all their rows
    Loading,     \* the load under way: "no", "clean" or "disturbed"
    Served,      \* the tables the last load returned: what they are of, their rows
    damaged      \* the directory was damaged: nothing is promised any more

vars == <<Published, Complete, Loading, Served, damaged>>

Init ==
    /\ Published = NoHierarchy /\ Complete = FALSE
    /\ Loading = "no" /\ Served = {} /\ damaged = FALSE

Publish ==
    /\ Published = NoHierarchy
    /\ Published' \in Hierarchies
    /\ UNCHANGED <<Complete, Loading, Served, damaged>>

\* a table is emptied or completed: a load under way may notice, and does so if
\* the directory is not complete any more
Write ==
    /\ Complete' \in BOOLEAN
    /\ Complete' => Published # NoHierarchy
    /\ Loading' = Loading \/ (Loading # "no" /\ Loading' = "disturbed")
    /\ Loading' = "clean" => Complete'
    /\ UNCHANGED <<Published, Served, damaged>>

Begin ==
    /\ Loading = "no"
    /\ Loading' = IF Complete THEN "clean" ELSE "disturbed"
    /\ Served' = {}
    /\ UNCHANGED <<Published, Complete, damaged>>

Return ==
    /\ Loading # "no"
    /\ Loading' = "no"
    /\ \A table \in Served' : table.of = Published /\ table.rows \subseteq Published
    /\ Loading = "clean" => Served' = {[of |-> Published, rows |-> Published]}
    /\ UNCHANGED <<Published, Complete, damaged>>

Damage ==
    /\ Published' = NoHierarchy /\ Complete' = FALSE
    /\ Loading' = "no" /\ Served' = {} /\ damaged' = TRUE

Next == Publish \/ Write \/ Begin \/ Return \/ Damage

Spec == Init /\ [][Next]_vars
================================================================================
