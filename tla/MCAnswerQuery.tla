----------------------------- MODULE MCAnswerQuery -----------------------------
(***************************************************************************)
(* Small instance of AnswerQuery for TLC: two entities, and a community on *)
(* each level above, two on the first; communities come first, as in       *)
(* get_vector_hchnsw.                                                      *)
(***************************************************************************)
EXTENDS AnswerQuery, TLC

MCIds == 0 .. 6
MCLevelOf == <<1, 2, 3, 4, 0, 0>> @@ (0 :> 1)
MCDist == <<2, 1, 3, 2, 1, 2>> @@ (0 :> 1)
MCRelations == 1 .. 4
MCSource == <<5, 6, 5, 5>>
MCTarget == <<6, 5, 6, 6>>
MCRowSize == <<2, 1, 3, 1, 0, 0>> @@ (0 :> 1)
MCChunkSize == <<1, 3, 2>>

Asked == [strategy |-> "global", type |-> "single_hop", llmScoring |-> FALSE,
          onlyEntity |-> FALSE, woHierarchical |-> FALSE, hypernode |-> FALSE, ppr |-> "no",
          direct |-> FALSE, topkChunk |-> 0, corpus |-> FALSE, room |-> 3]
MCQueries ==
    {Asked,
     [Asked EXCEPT !.onlyEntity = TRUE, !.hypernode = TRUE],
     [Asked EXCEPT !.direct = TRUE],
     [Asked EXCEPT !.topkChunk = 3, !.corpus = TRUE],
     [Asked EXCEPT !.topkChunk = 3, !.corpus = TRUE, !.room = -1],
     [Asked EXCEPT !.topkChunk = 3],
     [Asked EXCEPT !.ppr = "replace"],
     [Asked EXCEPT !.ppr = "merge"],
     [Asked EXCEPT !.strategy = "all", !.woHierarchical = TRUE],
     [Asked EXCEPT !.strategy = "inference", !.woHierarchical = TRUE]}
    \cup {[Asked EXCEPT !.strategy = "adaptive", !.woHierarchical = TRUE, !.type = t,
                        !.llmScoring = s] : t \in {"single_hop", "multi_hop", "global"}, s \in BOOLEAN}
================================================================================
