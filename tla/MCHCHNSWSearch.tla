----------------------------- MODULE MCHCHNSWSearch -----------------------------
(***************************************************************************)
(* Small finished indexes for HCHNSWSearch: vectors on a line, two above   *)
(* four, the lower ones linked in any way to one other or two; queries lie *)
(* on the line too, one of them as far from one vector as from another.    *)
(***************************************************************************)
EXTENDS HCHNSWSearch

MCVectors == {1, 2, 4, 6, 7, 9}
MCLevel == [v \in MCVectors |-> IF v \in {2, 7} THEN 1 ELSE 0]
MCLower == {v \in MCVectors : MCLevel[v] = 0}

\* the lower lists: one other vector, or two for those in the middle
MCLists(v) ==
    {<<w>> : w \in MCLower \ {v}}
        \cup {<<p[1], p[2]>> : p \in {p \in (MCLower \ {v}) \X (MCLower \ {v}) :
                                       v \in {4, 6} /\ p[1] < p[2]}}
MCIndexes ==
    {lists \in [MCVectors -> UNION {MCLists(v) : v \in MCLower} \cup {<<2>>, <<7>>}] :
        /\ lists[2] = <<7>> /\ lists[7] = <<2>>
        /\ \A v \in MCLower : lists[v] \in MCLists(v)}
MCCross == [v \in MCVectors |-> CASE v = 2 -> 1 [] v = 7 -> 6 [] OTHER -> NoVector]

MCQueries == {0, 5}
MCEfSearches == {2, 4}
MCDist == [q \in MCQueries |-> [v \in MCVectors |-> IF q > v THEN q - v ELSE v - q]]
================================================================================
