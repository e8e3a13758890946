----------------------------- MODULE MCAttrCluster -----------------------------
(***************************************************************************)
(* Small instances of AttrCluster for TLC: paths of three and of four      *)
(* entities, and a related pair with three entities that have none.        *)
(***************************************************************************)
EXTENDS AttrCluster

MCThree == 0 .. 2
MCFour == 0 .. 3
MCFive == 0 .. 4
MCOnePair == {<<0, 1>>}
MCPathOfThree == {<<0, 1>>, <<1, 2>>}
MCPathOfFour == {<<0, 1>>, <<1, 2>>, <<2, 3>>}
================================================================================
