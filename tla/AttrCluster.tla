------------------------------ MODULE AttrCluster ------------------------------
(***************************************************************************)
(* The level loop of attr_cluster() (src/src/attr_cluster.py) and the      *)
(* resume hook of make_hc_index() (src/src/index.py) around it.            *)
(*                                                                         *)
(* One run of the indexer clusters the current graph, writes a report for  *)
(* every community, saves the level to tmp_community_df_<level>.csv,       *)
(* rebuilds a coarser graph from it and goes up one level, until a stop    *)
(* condition holds; the hierarchy then goes to                             *)
(* community_df_intermediate.csv.  The process may die anywhere and be     *)
(* started again in the same output directory.                             *)
(*                                                                         *)
(* External parts, modelled from their use: Leiden (seeded, hence the same *)
(* answer for the same graph), the language model (any rating, or none)    *)
(* and the file system (a write is all or, if TornWrites, part of a file). *)
(***************************************************************************)
EXTENDS Integers, FiniteSets, FiniteSetsExt

CONSTANTS
    Entities,          \* human_readable_id of the entities of the graph
    Relationships,     \* pairs <<head_id, tail_id>>
    MaxLevel,          \* --max_level
    MinClusters,       \* --min_clusters
    Ratings,           \* ratings the language model may give
    NoRating,          \* rating of a placeholder report (None, NaN in a CSV)
    QualityThreshold,  \* --quality_threshold
    MinRating,         \* --min_community_rating
    SmartStop,         \* --smart_stop
    QualityFilter,     \* --quality_filter
    Backfill,          \* TRUE: mutual_knn_leiden; FALSE: weighted_leiden
    NoFile,            \* a file that does not exist
    MaxRuns,           \* bound: how often the indexer is started
    TornWrites         \* TRUE: a crash may leave part of the file being written

ASSUME EntitiesAssumption == Entities \subseteq Nat /\ IsFiniteSet(Entities)
ASSUME RelationshipsAssumption == Relationships \subseteq Entities \X Entities
ASSUME BoundsAssumption ==
    /\ MaxLevel \in Nat \ {0} /\ MinClusters \in Nat /\ MaxRuns \in Nat
    /\ QualityThreshold \in Nat /\ MinRating \in Nat
ASSUME RatingsAssumption == Ratings \subseteq Nat /\ NoRating \notin Nat
ASSUME FlagsAssumption ==
    {SmartStop, QualityFilter, Backfill, TornWrites} \subseteq BOOLEAN

VARIABLES
    pc,            \* where the indexer is; "down" when no process runs
    level,         \* attr_cluster: level
    graph,         \* attr_cluster: graph (node keys, their type, the edges)
    communityDf,   \* attr_cluster: community_df, a set of rows
    newDf,         \* attr_cluster: new_community_df, a set of rows
    cnMapping,     \* attr_cluster: c_n_mapping, a set of clusters
    prevMapping,   \* attr_cluster: prev_c_n_mapping, <<>> when None
    tmp,           \* tmp_community_df_<level>.csv, by level
    intermediate,  \* community_df_intermediate.csv
    cut,           \* history: a process died while it wrote a file
    leiden,        \* answers Leiden has given, by level and graph nodes
    runs           \* number of times the indexer was started

memory == <<level, graph, communityDf, newDf, cnMapping, prevMapping>>
disk == <<tmp, intermediate, cut>>
vars == <<pc, memory, disk, leiden, runs>>

--------------------------------------------------------------------------------
(***************************************************************************)
(* Community rows.  The type of a community_id changes on its way through  *)
(* a CSV file: cluster numbers are written as strings and read_csv makes   *)
(* them numbers, unless one id of the column is not numeric.               *)
(***************************************************************************)
Levels == 1 .. MaxLevel
Kinds == {"str", "int"}

NanId == -1                     \* str(nan), from nan + 1
IsolatedId(n) == -2 - n         \* the id "isolated_<n>"
IsNumeric(id) == id >= 0        \* what pd.to_numeric does not coerce to NaN

Row == [id : Int, kind : Kinds, level : Levels, nodes : SUBSET Entities,
        rating : Ratings \cup {NoRating}]

\* pd.read_csv on a file of community rows
LoadCsv(rows) ==
    IF \A r \in rows : IsNumeric(r.id) \/ r.id = NanId
    THEN {[r EXCEPT !.kind = "int"] : r \in rows}
    ELSE rows

--------------------------------------------------------------------------------
(***************************************************************************)
(* Clustering.                                                             *)
(***************************************************************************)
Partitions(S) == {{{x \in S : f[x] = f[y]} : y \in S} : f \in [S -> S]}

Singletons(P) == {c \in P : Cardinality(c) = 1}

\* _is_effective_partition: fewer clusters than nodes, and singletons < 80%
IsEffective(P, nodes) ==
    /\ P # {}
    /\ Cardinality(P) < Cardinality(nodes)
    /\ 10 * Cardinality(Singletons(P)) < 8 * Cardinality(P)

IsIsolated(n, g) == \A e \in g.edges : n \notin e

NoPartition == [clusters |-> {}, isolated |-> {}]

\* faulty: isolated nodes are not put back
LeidenAnswersNoBackfill(g) ==
    UNION {{[clusters |-> P, isolated |-> isolated] : P \in Partitions(g.nodes \ isolated)} :
             isolated \in {I \in SUBSET g.nodes : \A n \in I : IsIsolated(n, g)}}

\* What the clustering step may return for graph g.  hierarchical_leiden drops
\* nodes without an edge (the augmented graph may give them one): the mutual-kNN
\* method puts them back as singletons and keeps an effective partition, if there
\* is one; the other method leaves them out.
LeidenAnswers(g) ==
    (IF Backfill THEN {NoPartition} ELSE {}) \cup
    UNION {LET covered == g.nodes \ isolated
               clusters(P) == IF Backfill THEN P \cup {{n} : n \in isolated} ELSE P
           IN  {[clusters |-> clusters(P), isolated |-> isolated] :
                   P \in {Q \in Partitions(covered) :
                            Backfill => IsEffective(clusters(Q), g.nodes)}} :
           isolated \in {I \in SUBSET g.nodes : \A n \in I : IsIsolated(n, g)}}

\* check_convergence: as many clusters as before, and the mean over the previous
\* clusters of the best Jaccard index above 0.85.  The index is scaled by 840,
\* which is exact for unions of up to 8 nodes.
Jaccard(a, b) == (840 * Cardinality(a \cap b)) \div Cardinality(a \cup b)
Converged(mapping, kind, prev) ==
    /\ prev # <<>>
    /\ Cardinality(mapping) = Cardinality(prev.clusters)
    /\ mapping # {}
    /\ LET best(p) == IF prev.kind = kind
                      THEN Max({Jaccard(p, c) : c \in mapping}) ELSE 0
       IN  100 * MapThenSumSet(best, prev.clusters)
             > 85 * 840 * Cardinality(prev.clusters)

--------------------------------------------------------------------------------
(***************************************************************************)
(* From clusters to rows.                                                  *)
(***************************************************************************)
\* position of cluster c in the order of the dictionary c_n_mapping
Rank(c, mapping) == Cardinality({d \in mapping : Min(d) < Min(c)})

NumericIds(rows) == {r.id : r \in {s \in rows : IsNumeric(s.id)}}

\* faulty: numbering starts at the largest id, not after it
CurMaxIdNotNext(rows) == IF NumericIds(rows) = {} THEN 0 ELSE Max(NumericIds(rows))

\* faulty: one id that is not numeric makes the maximum NaN
CurMaxIdNoSkip(rows) ==
    IF rows = {} THEN 0
    ELSE IF \E r \in rows : ~IsNumeric(r.id) THEN NanId
    ELSE Max(NumericIds(rows)) + 1

\* community_id_node_resize, first part: max numeric id + 1, NaN if there is none
CurMaxId(rows) ==
    IF rows = {} THEN 0
    ELSE IF NumericIds(rows) = {} THEN NanId
    ELSE Max(NumericIds(rows)) + 1

\* the rows of community_df whose community_id equals the graph node n; a NaN
\* read back from a file equals nothing
RowsOf(n, kind, rows) ==
    {r \in rows : r.id = n /\ r.kind = kind /\ ~(n = NanId /\ kind = "int")}

CommunityNodes(cluster, kind, rows) ==
    UNION {UNION {r.nodes : r \in RowsOf(n, kind, rows)} : n \in cluster}

\* updated_c_n_mapping as a set of [id, nodes].  On level 1 the ids are Leiden's
\* labels; above, they continue from the largest id, and when that is NaN every
\* cluster overwrites the key "nan" of the one before it.
Resized(lvl, answer, g, rows) ==
    LET named == {c \in answer.clusters : ~ \E n \in answer.isolated : c = {n}}
        cur == CurMaxId(rows)
        last == {c \in answer.clusters : \A d \in answer.clusters :
                    Rank(d, answer.clusters) <= Rank(c, answer.clusters)}
    IN  IF lvl = 1
        THEN {[id |-> Rank(c, named), nodes |-> c] : c \in named}
               \cup {[id |-> IsolatedId(Min(c)), nodes |-> c] :
                        c \in answer.clusters \ named}
        ELSE IF cur = NanId
        THEN {[id |-> NanId, nodes |-> CommunityNodes(c, g.kind, rows)] : c \in last}
        ELSE {[id |-> cur + Rank(c, answer.clusters),
               nodes |-> CommunityNodes(c, g.kind, rows)] : c \in answer.clusters}

\* faulty: levels are counted from 0
ReportsFromZero(lvl, communities) ==
    {{[id |-> c.id, kind |-> "str", level |-> lvl - 1, nodes |-> c.nodes,
       rating |-> rating[c]] : c \in communities} :
        rating \in [communities -> Ratings \cup {NoRating}]}

\* community_report_batch: one row per community, rated by the language model
Reports(lvl, communities) ==
    {{[id |-> c.id, kind |-> "str", level |-> lvl, nodes |-> c.nodes,
       rating |-> rating[c]] : c \in communities} :
        rating \in [communities -> Ratings \cup {NoRating}]}

Rated(rows) == {r \in rows : r.rating # NoRating}

\* avg_rating < quality_threshold, over the rows that have a rating
BelowThreshold(rows) ==
    /\ Rated(rows) # {}
    /\ MapThenSumSet(LAMBDA r : r.rating, Rated(rows))
         < QualityThreshold * Cardinality(Rated(rows))

\* faulty: the comparison is the wrong way round
FilteredLow(rows) ==
    IF QualityFilter THEN {r \in Rated(rows) : r.rating <= MinRating} ELSE rows

\* filter_low_quality_communities; NaN >= min_rating is false
Filtered(rows) ==
    IF QualityFilter THEN {r \in Rated(rows) : r.rating >= MinRating} ELSE rows

\* faulty: node keys are always strings
ReconstructStr(rows) ==
    [nodes |-> {r.id : r \in rows}, kind  |-> "str",
     edges |-> {{ends[1].id, ends[2].id} : ends \in
                  {p \in rows \X rows :
                     /\ p[1].id # p[2].id
                     /\ \E rel \in Relationships : rel[1] \in p[1].nodes
                                                /\ rel[2] \in p[2].nodes}}]

\* reconstruct_graph: the communities become nodes, relationships between
\* different communities become edges
Reconstruct(rows) ==
    [nodes |-> {r.id : r \in rows},
     kind  |-> IF \E r \in rows : r.kind = "int" THEN "int" ELSE "str",
     edges |-> {{ends[1].id, ends[2].id} : ends \in
                  {p \in rows \X rows :
                     /\ p[1].id # p[2].id
                     /\ \E rel \in Relationships : rel[1] \in p[1].nodes
                                                /\ rel[2] \in p[2].nodes}}]

InitGraph ==
    [nodes |-> Entities, kind |-> "int",
     edges |-> {{rel[1], rel[2]} : rel \in {r \in Relationships : r[1] # r[2]}}]

--------------------------------------------------------------------------------
FreshMemory ==
    /\ level' = 1
    /\ graph' = InitGraph
    /\ communityDf' = {}
    /\ newDf' = {}
    /\ cnMapping' = NoPartition
    /\ prevMapping' = <<>>

Init ==
    /\ pc = "down"
    /\ level = 1
    /\ graph = InitGraph
    /\ communityDf = {}
    /\ newDf = {}
    /\ cnMapping = NoPartition
    /\ prevMapping = <<>>
    /\ tmp = [l \in Levels |-> NoFile]
    /\ intermediate = NoFile
    /\ cut = FALSE
    /\ leiden = {}
    /\ runs = 0

\* make_hc_index is started (again) and finds no intermediate file
StartFresh ==
    /\ pc \in {"down", "failed", "built"}
    /\ runs < MaxRuns
    /\ intermediate = NoFile
    /\ runs' = runs + 1
    /\ pc' = "cluster"
    /\ FreshMemory
    /\ UNCHANGED <<disk, leiden>>

\* ... or finds one, skips clustering and reports, and goes on to write it again.
\* read_csv raises on the file an empty DataFrame leaves.
StartResume ==
    /\ pc \in {"down", "failed", "built"}
    /\ runs < MaxRuns
    /\ intermediate # NoFile
    /\ runs' = runs + 1
    /\ level' = 1 /\ graph' = InitGraph /\ newDf' = {} /\ prevMapping' = <<>>
    /\ cnMapping' = NoPartition
    /\ IF intermediate = {}
       THEN pc' = "failed" /\ communityDf' = {}
       ELSE pc' = "finish" /\ communityDf' = LoadCsv(intermediate)
    /\ UNCHANGED <<disk, leiden>>

\* the process is killed, or the batch of reports raises
Crash ==
    /\ pc \in {"cluster", "report", "saveFinal", "save", "finish"}
    /\ pc' = "down"
    /\ FreshMemory
    /\ UNCHANGED <<disk, leiden, runs>>

\* while level <= max_level
LevelLimit ==
    /\ pc = "cluster"
    /\ level > MaxLevel
    /\ pc' = "finish"
    /\ UNCHANGED <<memory, disk, leiden, runs>>

LeidenKey == <<level, graph.nodes>>
Remembered == {a \in leiden : a.key = LeidenKey}

\* Clustering, and the two stops right after it: no effective partition found by
\* compute_dynamic_leiden, and smart stop 1 (convergence)
Cluster ==
    /\ pc = "cluster"
    /\ level <= MaxLevel
    /\ \E answer \in IF Remembered # {} THEN {a.answer : a \in Remembered}
                     ELSE LeidenAnswers(graph) :
        /\ leiden' = leiden \cup {[key |-> LeidenKey, answer |-> answer]}
        /\ cnMapping' = answer
        /\ pc' = IF \/ Backfill /\ answer = NoPartition
                    \/ /\ SmartStop /\ level > 1
                       /\ Converged(answer.clusters, graph.kind, prevMapping)
                 THEN "finish" ELSE "report"
    /\ UNCHANGED <<level, graph, communityDf, newDf, prevMapping, disk, runs>>

\* hierarchical_leiden (or the kNN index before it) may raise on a graph without
\* a single edge
LeidenFails ==
    /\ pc = "cluster"
    /\ level <= MaxLevel
    /\ graph.edges = {}
    /\ Remembered = {}
    /\ pc' = "failed"
    /\ FreshMemory
    /\ UNCHANGED <<disk, leiden, runs>>

TooFewClusters == Cardinality(cnMapping.clusters) < MinClusters

\* Nothing to report on: an empty DataFrame has no column "title", which
\* reprot_embedding_batch needs
NoCommunities ==
    /\ pc = "report"
    /\ cnMapping.clusters = {}
    /\ tmp[level] = NoFile
    /\ pc' = "failed"
    /\ FreshMemory
    /\ UNCHANGED <<disk, leiden, runs>>

\* faulty: reports are asked for although the level is on disk
ReportAnyway ==
    /\ pc = "report"
    /\ cnMapping.clusters # {}
    /\ newDf' \in Reports(level, Resized(level, cnMapping, graph, communityDf))
    /\ pc' = IF TooFewClusters THEN "saveFinal" ELSE "save"
    /\ UNCHANGED <<level, graph, communityDf, cnMapping, prevMapping, disk, leiden, runs>>

\* community_report_batch, on both of its call sites
Report ==
    /\ pc = "report"
    /\ cnMapping.clusters # {}
    /\ tmp[level] = NoFile
    /\ newDf' \in Reports(level, Resized(level, cnMapping, graph, communityDf))
    /\ pc' = IF TooFewClusters THEN "saveFinal" ELSE "save"
    /\ UNCHANGED <<level, graph, communityDf, cnMapping, prevMapping, disk, leiden, runs>>

\* smart stop 2 finds the file of the level: stop at once
SkipFinal ==
    /\ pc = "report"
    /\ TooFewClusters
    /\ tmp[level] # NoFile
    /\ pc' = "finish"
    /\ UNCHANGED <<memory, disk, leiden, runs>>

\* the file of the level exists: load it instead of asking for reports
LoadLevel ==
    /\ pc = "report"
    /\ ~TooFewClusters
    /\ tmp[level] # NoFile
    /\ newDf' = LoadCsv(tmp[level])
    /\ pc' = "save"
    /\ UNCHANGED <<level, graph, communityDf, cnMapping, prevMapping, disk, leiden, runs>>

\* smart stop 2: save the last level, add it and stop
SaveFinal ==
    /\ pc = "saveFinal"
    /\ tmp' = [tmp EXCEPT ![level] = newDf]
    /\ communityDf' = communityDf \cup newDf
    /\ pc' = "finish"
    /\ UNCHANGED <<level, graph, newDf, cnMapping, prevMapping, intermediate, cut, leiden, runs>>

\* smart stop 3: the reports are not good enough
QualityStop == SmartStop /\ level > 1 /\ BelowThreshold(newDf)

StopOnQuality ==
    /\ pc = "save"
    /\ QualityStop
    /\ pc' = "finish"
    /\ UNCHANGED <<memory, disk, leiden, runs>>

\* faulty: the new level replaces the levels below it
SaveLevelReplaces ==
    /\ pc = "save"
    /\ ~QualityStop
    /\ LET rows == Filtered(newDf)
       IN  /\ newDf' = rows
           /\ graph' = Reconstruct(rows)
           /\ tmp' = [tmp EXCEPT ![level] = rows]
           /\ communityDf' = rows
    /\ prevMapping' = [kind |-> graph.kind, clusters |-> cnMapping.clusters]
    /\ level' = level + 1
    /\ pc' = "cluster"
    /\ UNCHANGED <<cnMapping, intermediate, cut, leiden, runs>>

\* faulty: the level is saved before it is filtered
SaveLevelUnfiltered ==
    /\ pc = "save"
    /\ ~QualityStop
    /\ LET rows == Filtered(newDf)
       IN  /\ newDf' = rows
           /\ graph' = Reconstruct(rows)
           /\ tmp' = [tmp EXCEPT ![level] = newDf]
           /\ communityDf' = communityDf \cup rows
    /\ prevMapping' = [kind |-> graph.kind, clusters |-> cnMapping.clusters]
    /\ level' = level + 1
    /\ pc' = "cluster"
    /\ UNCHANGED <<cnMapping, intermediate, cut, leiden, runs>>

\* filter, rebuild the graph, save the level, add it and go up
SaveLevel ==
    /\ pc = "save"
    /\ ~QualityStop
    /\ LET rows == Filtered(newDf)
       IN  /\ newDf' = rows
           /\ graph' = Reconstruct(rows)
           /\ tmp' = [tmp EXCEPT ![level] = rows]
           /\ communityDf' = communityDf \cup rows
    /\ prevMapping' = [kind |-> graph.kind, clusters |-> cnMapping.clusters]
    /\ level' = level + 1
    /\ pc' = "cluster"
    /\ UNCHANGED <<cnMapping, intermediate, cut, leiden, runs>>

\* attr_cluster returns; make_hc_index writes the intermediate file.  Without a
\* single row, create_hchnsw_index has no column "level" and raises.
Finish ==
    /\ pc = "finish"
    /\ intermediate' = communityDf
    /\ pc' = IF communityDf = {} THEN "failed" ELSE "built"
    /\ UNCHANGED <<memory, tmp, cut, leiden, runs>>

\* the process dies while to_csv writes a file: some of the rows are in it
TornSave ==
    /\ TornWrites
    /\ \/ /\ \/ pc = "saveFinal"
             \/ pc = "save" /\ ~QualityStop
          /\ \E part \in SUBSET (IF pc = "saveFinal" THEN newDf ELSE Filtered(newDf)) :
                tmp' = [tmp EXCEPT ![level] = part]
          /\ UNCHANGED intermediate
       \/ /\ pc = "finish"
          /\ intermediate' \in SUBSET communityDf
          /\ UNCHANGED tmp
    /\ cut' = TRUE
    /\ pc' = "down"
    /\ FreshMemory
    /\ UNCHANGED <<leiden, runs>>

\* what a run of the indexer does by itself
Step ==
    \/ LevelLimit \/ Cluster \/ LeidenFails \/ NoCommunities \/ Report
    \/ SkipFinal \/ LoadLevel \/ SaveFinal \/ StopOnQuality \/ SaveLevel \/ Finish

Next == StartFresh \/ StartResume \/ Crash \/ TornSave \/ Step

Spec == Init /\ [][Next]_vars

--------------------------------------------------------------------------------
(***************************************************************************)
(* Properties.                                                             *)
(***************************************************************************)
MappingType == [clusters : SUBSET SUBSET Int, isolated : SUBSET Int]
FileType == {NoFile} \cup SUBSET Row

\* Every variable has its type; in particular a row always carries the level of
\* the file it is in.
TypeOK ==
    /\ pc \in {"down", "cluster", "report", "saveFinal", "save", "finish",
               "built", "failed"}
    /\ level \in 1 .. MaxLevel + 1
    /\ graph.nodes \subseteq Int /\ graph.kind \in Kinds
    /\ communityDf \subseteq Row
    /\ newDf \subseteq Row
    /\ cnMapping \in MappingType
    /\ tmp \in [Levels -> FileType]
    /\ intermediate \in FileType
    /\ runs \in 0 .. MaxRuns

LevelRows(l, rows) == {r \in rows : r.level = l}

\* what a file round trip keeps of a set of rows
Untyped(rows) == {[id |-> r.id, nodes |-> r.nodes, level |-> r.level,
                   rating |-> r.rating] : r \in rows}

\* No two communities of the hierarchy share an id, whichever of them were
\* generated by this run and whichever came back from a file with another type
\* (community_id_node_resize numbers on from the largest id).
UniqueIds == \A r, s \in communityDf : r.id = s.id => r = s

\* A community above level 1 is exactly the union of communities one level
\* below, after filtering, crashes and reloading too.
CommunitiesNest ==
    \A r \in communityDf : r.level > 1 =>
        r.nodes = UNION {s.nodes : s \in
            {x \in communityDf : x.level = r.level - 1 /\ x.nodes \subseteq r.nodes}}

\* The levels of a built hierarchy have no gap: C-HNSW descends one level at a
\* time and needs every one of them.
LevelsContiguous ==
    pc = "built" =>
        LET used == {r.level : r \in intermediate}
        IN  used = 1 .. Max(used)

\* While the loop runs, what it holds of the levels below the current one is
\* what their files hold: a restart continues the same hierarchy.
MemoryMatchesFiles ==
    pc \in {"cluster", "report", "save", "saveFinal"} =>
        \A l \in 1 .. level - 1 :
            /\ tmp[l] # NoFile
            /\ Untyped(LevelRows(l, communityDf)) = Untyped(tmp[l])

\* The lookup of community_id_node_resize finds exactly one row for every graph
\* node: the type of the node is the type of the row, before and after a reload.
EveryNodeFound ==
    pc = "report" /\ level > 1 =>
        \A n \in graph.nodes : Cardinality(RowsOf(n, graph.kind, communityDf)) = 1

\* A level that passed smart stop 3 when it was generated passes it again when it
\* is loaded, although only the rows that survived the filter are in the file.
LoadedLevelPasses == pc = "save" /\ tmp[level] # NoFile => ~QualityStop

\* With the backfill and without the filter, every level built covers every entity,
\* restarts included, as long as no process died while it wrote a file.
LevelsCoverEntities ==
    ~cut => \A l \in Levels : LevelRows(l, communityDf) # {} =>
        UNION {r.nodes : r \in LevelRows(l, communityDf)} = Entities

\* A saved level is never replaced by other communities or other ratings.
SavedLevelsStable ==
    [][\A l \in Levels : tmp[l] # NoFile =>
          tmp'[l] # NoFile /\ Untyped(tmp'[l]) = Untyped(tmp[l])]_vars

\* Said at attr_cluster.py:746: the communities of the last level get their
\* reports before the loop stops.  When the hierarchy is built, every level that
\* has a file is in it.
NoLevelLost ==
    pc = "built" => \A l \in Levels : tmp[l] # NoFile =>
        Untyped(tmp[l]) \subseteq Untyped(intermediate)

\* Said at attr_cluster.py:609: a level that repeats the cluster structure of the
\* level below it is not built.
ConvergedLevelNotBuilt ==
    \A l \in Levels \ {1} :
        LevelRows(l, communityDf) # {} =>
            {r.nodes : r \in LevelRows(l, communityDf)}
              # {r.nodes : r \in LevelRows(l - 1, communityDf)}

\* There are communities below, and they are all isolated nodes: no id to number on
\* from.
NothingNumeric == communityDf # {} /\ NumericIds(communityDf) = {}

\* Every cluster of c_n_mapping gets a number and a community of its own
\* (attr_cluster.py:486-517).  There is one exception, where clusters overwrite each
\* other under the id "nan": above a level of isolated nodes only, and such a level
\* never comes from Leiden, only from a file that was cut or from the filter.
EveryClusterReported ==
    pc \in {"save", "saveFinal"} /\ tmp[level] = NoFile =>
        \/ Cardinality(newDf) = Cardinality(cnMapping.clusters)
        \/ level > 1 /\ NothingNumeric /\ (cut \/ QualityFilter)

================================================================================
