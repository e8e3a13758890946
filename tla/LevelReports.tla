------------------------------ MODULE LevelReports ------------------------------
(***************************************************************************)
(* What community_report_batch promises to attr_cluster(): the level gets  *)
(* one embedded row per community, in the order of the communities, or the *)
(* call raises and there is no row at all.                                 *)
(***************************************************************************)
EXTENDS Naturals

CONSTANTS
    N,          \* communities of the level, in the order of the dictionary
    Extractive  \* those whose report is made of source texts

\* "report" is what the language model wrote (text as a rule), "placeholder" what replaces it
RowOf(c) == IF c \in Extractive THEN {"extract"} ELSE {"report", "placeholder"}
Frames == {f \in [1 .. N -> {"extract", "report", "placeholder"}] :
              \A c \in 1 .. N : f[c] \in RowOf(c)}

VARIABLES
    outcome,  \* "pending", "returned" or "raised"
    frame     \* community_df, or <<>>

Init == outcome = "pending" /\ frame = <<>>

Return ==
    /\ outcome = "pending"
    /\ outcome' = "returned"
    /\ frame' \in Frames

Raise ==
    /\ outcome = "pending"
    /\ outcome' = "raised"
    /\ frame' = <<>>

Next == Return \/ Raise

Spec == Init /\ [][Next]_<<outcome, frame>>
================================================================================
