-------------------------------- MODULE MCHCHNSW -------------------------------
(***************************************************************************)
(* Small instances of HCHNSW for TLC: vectors on a line, identified by     *)
(* their place on it, the distance being the length between two of them.   *)
(***************************************************************************)
EXTENDS HCHNSW

MCDist == [v \in Vectors |-> [w \in Vectors |-> IF v > w THEN v - w ELSE w - v]]

\* three levels: two vectors below three below one; nothing of the lowest level is near
\* the last two of the level above, and of those the one in the middle is as far from the
\* first as from the last
MCThreeLevels == {1, 2, 3, 5, 6, 10}
MCThreeLevelsLevel ==
    [v \in MCThreeLevels |-> CASE v = 5 -> 2 [] v \in {2, 6, 10} -> 1 [] OTHER -> 0]

\* two levels, six vectors
MCTwoOverFour == {1, 2, 4, 5, 7, 8}
MCTwoOverFourLevel == [v \in MCTwoOverFour |-> IF v \in {2, 7} THEN 1 ELSE 0]
================================================================================
