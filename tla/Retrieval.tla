------------------------------- MODULE Retrieval -------------------------------
(***************************************************************************)
(* hcarag_retrieval() (src/src/inference.py): what a question gets out of  *)
(* the index.                                                              *)
(*                                                                         *)
(* A strategy fixes how many results each level gives: the same for every  *)
(* level, shares of a budget by the type of the question, or shares by the *)
(* ratings that problem_reasoning() (client_reasoning.py) asks the         *)
(* language model for.  The levels are then searched from the entities     *)
(* upwards; paths (hypernodes) and PageRank may add entities.              *)
(*                                                                         *)
(* One search is one step: any vectors of the level, at most as many as    *)
(* asked for (HCHNSWSearch); what is missing is made up by results         *)
(* without a vector (-1), further than all others.  They are counted when  *)
(* final_k is limited, and select no row.  An exception ends the           *)
(* retrieval.                                                              *)
(***************************************************************************)
EXTENDS Integers, FiniteSets, Sequences, Functions

CONSTANTS
    TopLevel,      \* hc_index.hchnsw.max_level
    Ids,           \* index_id of the vectors
    LevelOf,       \* their level; 0: entities
    Dist,          \* their distance to the question
    Relations,     \* relation_df, in the order of degree_sum, greatest first
    Source, Target,  \* their entities
    Queries,       \* query_paras the question may be asked with
    KEachLevel, KFinal, AllKInference, AllKAdaptive, RangeLevel, TopkE,  \* further ones
    MaxRetries,    \* args.max_retries
    Rates,         \* what the language model may rate a level with
    Farthest       \* bound: distances of paths and PageRank are 0 .. Farthest

Levels == 0 .. TopLevel
Entities == {v \in Ids : LevelOf[v] = 0}

QueryParas ==
    [strategy : {"global", "all", "inference", "adaptive"},
     type : {"single_hop", "multi_hop", "global"},    \* classify_query_type
     llmScoring : BOOLEAN, onlyEntity : BOOLEAN, woHierarchical : BOOLEAN,
     hypernode : BOOLEAN, ppr : {"no", "replace", "merge"},
     direct : BOOLEAN,                                \* generate_strategy
     topkChunk : Nat, corpus : BOOLEAN,               \* villa_index is loaded
     room : Int]      \* of args.max_tokens, what the frame of a prompt of chunks leaves

ASSUME IndexAssumption ==
    /\ TopLevel \in Nat \ {0} /\ IsFiniteSet(Ids)
    /\ LevelOf \in [Ids -> Levels] /\ Dist \in [Ids -> Nat]
    /\ \A l \in Levels : \E v \in Ids : LevelOf[v] = l
    /\ Relations \subseteq Nat /\ IsFiniteSet(Relations)
    /\ Source \in [Relations -> Entities] /\ Target \in [Relations -> Entities]
ASSUME ParasAssumption ==
    /\ Queries \subseteq QueryParas
    /\ {KEachLevel, KFinal, AllKInference, AllKAdaptive, TopkE, MaxRetries} \subseteq Nat \ {0}
    /\ RangeLevel \in 1 .. TopLevel /\ Rates \subseteq Nat /\ Farthest \in Nat

VARIABLES
    phase,        \* where the query is
    q,            \* query_paras
    asked,        \* problem_reasoning: retry
    rating,       \* problem_reasoning: reason_level
    text,         \* ... which is still the text of the answer
    bound,        \* problem_reasoning: raw_result has a value
    weights,      \* level_weight, as integers; <<>> without weights
    k,            \* k_per_level
    level,        \* the level searched next
    results,      \* all_results: <<distance, id, where from>>
    onPaths,      \* _hypernode_relation_ids
    finalK,       \* final_k
    predictions,  \* final_predictions
    retrieved     \* retrieval_dict

locals == <<asked, rating, text, bound, weights, k, level, results, onPaths, finalK, predictions>>
retrieval == <<phase, q, locals, retrieved>>

Total(f) == FoldFunction(+, 0, f)
SmallerOf(a, b) == IF a <= b THEN a ELSE b

Nothing == [entities |-> {}, communities |-> {}, relations |-> {}]

Fresh ==
    /\ asked = 0 /\ rating = <<>> /\ text = FALSE /\ bound = FALSE
    /\ weights = <<>> /\ k = <<>> /\ level = 0 /\ results = {} /\ onPaths = {} /\ finalK = 0 /\ predictions = {}

RetrievalInit ==
    /\ phase = "strategy"
    /\ q \in Queries
    /\ Fresh
    /\ retrieved = Nothing

\* an exception leaves hcarag_retrieval, and hcarag
Raise == phase' = "raised"

--------------------------------------------------------------------------------
(***************************************************************************)
(* load_strategy()                                                         *)
(***************************************************************************)
AsksLevels == q.strategy = "inference" \/ (q.strategy = "adaptive" /\ q.llmScoring)

\* get_type_priors, in percent, each times the number of levels that share the
\* last of the four entries
BasePriors ==
    [single_hop |-> <<60, 30, 10, 0>>, multi_hop |-> <<35, 30, 20, 15>>,
     global |-> <<10, 20, 35, 35>>]
Sharing == IF TopLevel < 4 THEN 1 ELSE TopLevel - 2
Priors == [l \in Levels |-> IF l < 3 THEN BasePriors[q.type][l + 1] * Sharing
                                     ELSE BasePriors[q.type][4]]

\* embed_query: the embedding service fails
EmbeddingRaises ==
    /\ phase = "strategy"
    /\ Raise
    /\ UNCHANGED <<q, locals, retrieved>>

FixedShares ==
    /\ phase = "strategy"
    /\ q.strategy \in {"global", "all"}
    /\ k' = IF q.strategy = "global" THEN [l \in Levels |-> KEachLevel]
            ELSE [l \in 0 .. RangeLevel |-> IF l = 0 THEN KEachLevel ELSE 200]
    /\ phase' = "search"
    /\ UNCHANGED <<q, asked, rating, text, bound, weights, level, results, onPaths, finalK,
                   predictions, retrieved>>

PriorWeights ==
    /\ phase = "strategy"
    /\ q.strategy = "adaptive" /\ ~q.llmScoring
    /\ weights' = Priors
    /\ phase' = "share"
    /\ UNCHANGED <<q, asked, rating, text, bound, k, level, results, onPaths, finalK,
                   predictions, retrieved>>

StartReasoning ==
    /\ phase = "strategy"
    /\ AsksLevels
    /\ phase' = "reason"
    /\ UNCHANGED <<q, locals, retrieved>>

(***************************************************************************)
(* problem_reasoning(): an answer is no JSON object (its text stays in     *)
(* reason_level), has no list of the right length, rates every level, or   *)
(* holds a rate that is no number; no content at all counts as an empty    *)
(* text.                                                                   *)
(***************************************************************************)
Unusable == text' = TRUE /\ rating' = <<>> /\ bound' = bound
Empty == text' = FALSE /\ rating' = <<>> /\ bound' = bound
WrongLength == text' = FALSE /\ rating' = <<>> /\ bound' = TRUE
Rated == text' = FALSE /\ rating' \in [1 .. TopLevel -> Rates] /\ bound' = TRUE

AskLevels ==
    /\ phase = "reason"
    /\ asked < MaxRetries
    /\ \/ (Unusable \/ Empty \/ WrongLength) /\ asked' = asked + 1
       \/ Rated /\ asked' = MaxRetries                      \* break
    /\ UNCHANGED <<phase, q, weights, k, level, results, onPaths, finalK, predictions,
                   retrieved>>

\* the entities get the mean of the ratings; everything times TopLevel
Ratings ==
    IF rating = <<>> THEN [l \in Levels |-> 5 * TopLevel]
    ELSE [l \in Levels |-> IF l = 0 THEN Total(rating) ELSE TopLevel * rating[l]]

WeightsOf ==
    IF q.strategy = "inference" THEN Ratings
    ELSE [l \in Levels |-> 6 * TopLevel * Priors[l] + 400 * Sharing * Ratings[l]]

Weigh ==
    /\ phase = "reason"
    /\ asked = MaxRetries
    /\ ~text /\ bound
    /\ weights' = WeightsOf
    /\ phase' = "share"
    /\ UNCHANGED <<q, asked, rating, text, bound, k, level, results, onPaths, finalK,
                   predictions, retrieved>>

\* llm_invoker gives up; sum() of a text; raw_result was never assigned
ReasoningRaises ==
    /\ phase = "reason"
    /\ asked < MaxRetries \/ text \/ ~bound
    /\ Raise
    /\ UNCHANGED <<q, locals, retrieved>>

(***************************************************************************)
(* calculate_k_per_level()                                                 *)
(***************************************************************************)
\* all_k
AllK == IF q.strategy = "inference" THEN AllKInference ELSE AllKAdaptive

\* round(): a tie goes either way
Twice(l) == 2 * weights[l] * AllK + Total(weights)
RoundShares ==
    /\ phase = "share"
    /\ Total(weights) > 0
    /\ \E down \in SUBSET {l \in Levels : Twice(l) % (2 * Total(weights)) = 0} :
          k' = [l \in Levels |-> (Twice(l) \div (2 * Total(weights))) - (IF l \in down THEN 1 ELSE 0)]
    /\ phase' = "adjust"
    /\ UNCHANGED <<q, asked, rating, text, bound, weights, level, results, onPaths, finalK,
                   predictions, retrieved>>

\* every level rated 0: division by zero
SharesRaise ==
    /\ phase = "share"
    /\ Total(weights) = 0
    /\ Raise
    /\ UNCHANGED <<q, locals, retrieved>>

\* levels that are reduced before l
PositiveBelow(l) == {m \in 0 .. l - 1 : k[m] > 0}

\* faulty: level 0 takes the difference
AdjustFirst ==
    /\ phase = "adjust"
    /\ Total(k) # AllK
    /\ k' = [k EXCEPT ![0] = @ + (AllK - Total(k))]
    /\ UNCHANGED <<phase, q, asked, rating, text, bound, weights, level, results, onPaths,
                   finalK, predictions, retrieved>>

\* one iteration of the while loop: at most one more, or one less, per level
Adjust ==
    /\ phase = "adjust"
    /\ Total(k) # AllK
    /\ LET more == AllK - Total(k) IN
       k' = [l \in Levels |->
               IF more > 0 /\ l < more THEN k[l] + 1
               ELSE IF k[l] > 0 /\ Cardinality(PositiveBelow(l)) < -more THEN k[l] - 1
               ELSE k[l]]
    /\ UNCHANGED <<phase, q, asked, rating, text, bound, weights, level, results, onPaths,
                   finalK, predictions, retrieved>>

Adjusted ==
    /\ phase = "adjust"
    /\ Total(k) = AllK
    /\ phase' = "search"
    /\ UNCHANGED <<q, locals, retrieved>>

--------------------------------------------------------------------------------
(***************************************************************************)
(* hcarag_retrieval()                                                      *)
(***************************************************************************)
\* faulty: every level is searched, also those without a share
QueryMaxLevelAll == IF q.strategy = "all" THEN RangeLevel + 1 ELSE TopLevel + 1

\* query_max_levl
QueryMaxLevel ==
    CASE q.onlyEntity -> 1
      [] ~q.onlyEntity /\ ~q.woHierarchical -> 2
      [] ~q.onlyEntity /\ q.woHierarchical ->
            CASE q.strategy = "all" -> RangeLevel + 1
              [] q.strategy = "adaptive" /\ q.type = "single_hop" -> 2
              [] q.strategy = "adaptive" /\ q.type = "multi_hop" -> TopLevel
              [] OTHER -> TopLevel + 1

\* HCHNSWSearch: some vectors of the level
SearchLevel ==
    /\ phase = "search"
    /\ level < QueryMaxLevel
    /\ k[level] > 0
    /\ \E found \in SUBSET {v \in Ids : LevelOf[v] = level} :
          /\ Cardinality(found) \in 1 .. k[level]
          /\ results' = results \cup {<<Dist[v], v, "search">> : v \in found}
    /\ level' = level + 1
    /\ UNCHANGED <<phase, q, asked, rating, text, bound, weights, k, onPaths, finalK,
                   predictions, retrieved>>

\* FAISS_THROW_IF_NOT(k > 0)
SearchRaises ==
    /\ phase = "search"
    /\ level < QueryMaxLevel
    /\ k[level] = 0
    /\ Raise
    /\ UNCHANGED <<q, locals, retrieved>>

\* The hypernode channel: entities on paths of relations, at distances that come
\* from the scores of the paths.
Paths ==
    /\ phase = "search"
    /\ level = QueryMaxLevel
    /\ \E paths \in IF q.hypernode THEN SUBSET Relations ELSE {{}} :
          LET onThem == {Source[r] : r \in paths} \cup {Target[r] : r \in paths} IN
          \E d \in [onThem -> 0 .. Farthest] :
             /\ results' = results \cup {<<d[v], v, "path">> : v \in onThem}
             /\ onPaths' = paths
    /\ phase' = "select"
    /\ UNCHANGED <<q, asked, rating, text, bound, weights, k, level, finalK, predictions, retrieved>>

\* sorted(all_results)[:n], ties in any order; the results without a vector are last
Nearest(from, n) ==
    {s \in SUBSET from : /\ Cardinality(s) = SmallerOf(n, Cardinality(from))
                         /\ \A r \in s, o \in from \ s : r[1] <= o[1]}
IdsOf(s) == {r[2] : r \in s}

\* len(all_results): every search gives as many as it was asked for, a path an entity
Padded == Total([l \in 0 .. QueryMaxLevel - 1 |-> k[l]])
              + Cardinality({r \in results : r[3] = "path"})

Select ==
    /\ phase = "select"
    /\ finalK' = SmallerOf(Padded, KFinal)
    /\ \E s \in IF q.direct THEN Nearest(results, finalK') ELSE {results} :
          predictions' = IdsOf(s)
    /\ phase' = IF q.topkChunk > 0 /\ ~q.corpus THEN "raised" ELSE "refine"
    /\ UNCHANGED <<q, asked, rating, text, bound, weights, k, level, results, onPaths, retrieved>>

\* ppr_refine: nx.pagerank ranks all entities; without a start entity it is left out
Replace == \E top \in SUBSET Entities :
              /\ Cardinality(top) = SmallerOf(KFinal, Cardinality(Entities))
              /\ predictions' = top
              /\ results' = results

Merge == \E d \in [Entities -> 0 .. Farthest] :
              /\ \E v \in Entities : d[v] = 0
              /\ results' = results \cup {<<d[v], v, "rank">> : v \in Entities}
              /\ \E s \in Nearest(results', finalK) : predictions' = IdsOf(s)

Refine ==
    /\ phase = "refine"
    /\ IF q.ppr = "no" \/ predictions \cap Entities = {} THEN UNCHANGED <<results, predictions>>
       ELSE IF q.ppr = "replace" THEN Replace ELSE Merge
    /\ phase' = "collect"
    /\ UNCHANGED <<q, asked, rating, text, bound, weights, k, level, onPaths, finalK, retrieved>>

\* The rows of the predictions, the TopkE relations from their entities that are
\* most like the question, and those on the paths; the locals are gone.
Collect ==
    /\ phase = "collect"
    /\ LET from == {r \in Relations : Source[r] \in predictions} IN
       \E rel \in SUBSET from :
          /\ Cardinality(rel) = SmallerOf(TopkE, Cardinality(from))
          /\ retrieved' = [entities |-> predictions \cap Entities,
                           communities |-> predictions \ Entities,
                           relations |-> rel \cup onPaths]
    /\ phase' = "retrieved"
    /\ asked' = 0 /\ rating' = <<>> /\ text' = FALSE /\ bound' = FALSE
    /\ weights' = <<>> /\ k' = <<>> /\ level' = 0 /\ results' = {} /\ onPaths' = {} /\ finalK' = 0 /\ predictions' = {}
    /\ UNCHANGED q

--------------------------------------------------------------------------------
RetrievalNext ==
    \/ EmbeddingRaises \/ FixedShares \/ PriorWeights
    \/ StartReasoning \/ AskLevels \/ Weigh \/ ReasoningRaises
    \/ RoundShares \/ SharesRaise \/ Adjust \/ Adjusted
    \/ SearchLevel \/ SearchRaises \/ Paths \/ Select \/ Refine \/ Collect
--------------------------------------------------------------------------------
(***************************************************************************)
(* Properties.                                                             *)
(***************************************************************************)
Apart(a, b) == IF a <= b THEN b - a ELSE a - b

\* The budget is spent to the last result, and no level is further from its exact
\* share than rounding (a half) and one adjustment.
SharesFollowWeights ==
    phase \in {"search", "select", "refine", "collect"} /\ weights # <<>> =>
        /\ Total(k) = AllK
        /\ \A l \in Levels :
              2 * Apart(k[l] * Total(weights), weights[l] * AllK) <= 3 * Total(weights)

\* A question that asks the language model for no ratings is never refused by the
\* index: its fixed numbers, and the shares of the priors, leave no level that is
\* searched without a result (IndexHCHNSW.cpp:329).  With ratings a level may.
PriorsNeverStarve == phase = "search" /\ level < QueryMaxLevel /\ ~AsksLevels => k[level] > 0

\* The project guide on the strategies (lines 246 and 252): "global: 每层固定取
\* k_each_level 个" (a fixed number from each level), for level in range(max_level);
\* and on the option wo_hierarchical, false by default (line 385): "不使用层次社区"
\* (use no hierarchical communities).
GlobalSearchesEachLevel ==
    phase = "select" /\ q.strategy = "global" /\ ~q.onlyEntity /\ ~q.woHierarchical =>
        \A l \in Levels : \E r \in results : LevelOf[r[2]] = l
================================================================================
