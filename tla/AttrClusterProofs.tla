---------------------------- MODULE AttrClusterProofs --------------------------
(***************************************************************************)
(* What holds of AttrCluster for any graph, any ratings and thresholds,    *)
(* any number of levels and of restarts.                                   *)
(***************************************************************************)
EXTENDS AttrCluster, SumProofs, FiniteSetTheorems, WellFoundedInduction, TLAPS

--------------------------------------------------------------------------------
(***************************************************************************)
(* Finite sets of numbers, rows and nodes.                                 *)
(***************************************************************************)
LEMMA ImageFinite ==
    ASSUME NEW S, IsFiniteSet(S), NEW f
    PROVE  IsFiniteSet({f[x] : x \in S})
<1> DEFINE T == {f[x] : x \in S}
           g == [x \in S |-> f[x]]
<1>1. g \in Surjection(S, T)
  BY DEF Surjection
<1> QED
  BY <1>1, FS_Surjection

\* A set of natural numbers has a least element.
LEMMA LeastExists ==
    ASSUME NEW S \in SUBSET Nat, S # {}
    PROVE  Min(S) \in S /\ \A y \in S : Min(S) <= y
<1> DEFINE Less == {p \in Nat \X Nat : p[1] < p[2]}
<1>1. IsWellFoundedOn(Less, Nat)
  BY NatLessThanWellFounded, Zenon DEF OpToRel
<1>2. PICK x \in S : \A y \in S : x <= y
  <2>1. PICK x \in S : \A y \in S : ~ (<<y, x>> \in Less)
    <3> HIDE DEF Less
    <3> QED
      BY <1>1, WFMin
  <2>2. ASSUME NEW y \in S PROVE x <= y
    <3>1. x \in Nat /\ y \in Nat /\ ~ (<<y, x>> \in Less)
      BY <2>1
    <3> QED
      BY <3>1
  <2> QED
    BY <2>2
<1> QED
  BY <1>2 DEF Min

\* A finite set of natural numbers has a greatest element: else take a smallest
\* nonempty subset without one, and an element out of it.
LEMMA GreatestExists ==
    ASSUME NEW S \in SUBSET Nat, S # {}, IsFiniteSet(S)
    PROVE  Max(S) \in S /\ \A y \in S : Max(S) >= y
<1> DEFINE HasMax(A) == \E x \in A : \A y \in A : x >= y
           Bad == {A \in SUBSET S : A # {} /\ ~HasMax(A)}
           R == StrictSubsetOrdering(S)
<1>1. IsWellFoundedOn(R, SUBSET S)
  BY FS_StrictSubsetOrderingWellFounded, FS_FiniteSubsetsOfFinite
<1>2. ASSUME Bad # {} PROVE FALSE
  <2>1. PICK A \in Bad : \A B \in Bad : ~ (<<B, A>> \in R)
    <3>1. Bad \subseteq SUBSET S
      OBVIOUS
    <3> HIDE DEF Bad, R
    <3> QED
      BY <1>1, <1>2, <3>1, WFMin
  <2>2. PICK x \in A : TRUE
    BY <2>1
  <2> DEFINE B == A \ {x}
  <2>3. B \in SUBSET S /\ <<B, A>> \in R
    BY <2>1, <2>2 DEF StrictSubsetOrdering
  <2>4. B = {} \/ HasMax(B)
    BY <2>1, <2>3
  <2>5. CASE B = {}
    BY <2>1, <2>2, <2>5
  <2>6. CASE HasMax(B)
    <3>1. PICK m \in B : \A y \in B : m >= y
      BY <2>6
    <3>2. \A y \in A : y = x \/ y \in B
      OBVIOUS
    <3>3. x \in Nat /\ m \in Nat /\ m \in A /\ \A y \in A : y \in Nat
      BY <2>1, <2>2, <3>1
    <3>4. CASE x >= m
      <4>1. \A y \in A : x >= y
        BY <3>1, <3>2, <3>3, <3>4
      <4> QED
        BY <2>1, <2>2, <4>1
    <3>5. CASE m >= x
      <4>1. \A y \in A : m >= y
        BY <3>1, <3>2, <3>3, <3>5
      <4> QED
        BY <2>1, <3>3, <4>1
    <3> QED
      BY <3>3, <3>4, <3>5
  <2> QED
    BY <2>4, <2>5, <2>6
<1>3. HasMax(S)
  BY <1>2
<1> QED
  BY <1>3 DEF Max

--------------------------------------------------------------------------------
(***************************************************************************)
(* Clusters.                                                               *)
(***************************************************************************)
\* clusters of nodes, none of them empty
Answer(a, nodes) ==
    /\ a \in [clusters : SUBSET SUBSET nodes, isolated : SUBSET nodes]
    /\ IsFiniteSet(a.clusters) /\ {} \notin a.clusters

LEMMA PartitionType ==
    ASSUME NEW S, IsFiniteSet(S), NEW P \in Partitions(S)
    PROVE  P \in SUBSET SUBSET S /\ IsFiniteSet(P) /\ {} \notin P
<1>1. PICK f \in [S -> S] : P = {{x \in S : f[x] = f[y]} : y \in S}
  BY DEF Partitions
<1> DEFINE g == [y \in S |-> {x \in S : f[x] = f[y]}]
<1>2. P = {g[y] : y \in S}
  BY <1>1
<1>3. IsFiniteSet({g[y] : y \in S})
  <2> HIDE DEF g
  <2> QED
    BY ImageFinite
<1> QED
  BY <1>1, <1>2, <1>3

LEMMA NoPartitionIsAnswer == ASSUME NEW nodes PROVE Answer(NoPartition, nodes)
  BY FS_EmptySet DEF Answer, NoPartition

LEMMA LeidenAnswersType ==
    ASSUME NEW g, IsFiniteSet(g.nodes), NEW a \in LeidenAnswers(g)
    PROVE  Answer(a, g.nodes)
<1>1. CASE a = NoPartition
  BY <1>1, NoPartitionIsAnswer
<1>2. CASE \E isolated \in SUBSET g.nodes :
             \E P \in Partitions(g.nodes \ isolated) :
                a = [clusters |-> IF Backfill THEN P \cup {{n} : n \in isolated} ELSE P,
                     isolated |-> isolated]
  <2>1. PICK isolated \in SUBSET g.nodes :
             \E P \in Partitions(g.nodes \ isolated) :
                a = [clusters |-> IF Backfill THEN P \cup {{n} : n \in isolated} ELSE P,
                     isolated |-> isolated]
    BY <1>2
  <2>2. PICK P \in Partitions(g.nodes \ isolated) :
                a = [clusters |-> IF Backfill THEN P \cup {{n} : n \in isolated} ELSE P,
                     isolated |-> isolated]
    BY <2>1
  <2>3. IsFiniteSet(isolated) /\ IsFiniteSet(g.nodes \ isolated)
    BY FS_Subset
  <2>4. P \in SUBSET SUBSET (g.nodes \ isolated) /\ IsFiniteSet(P) /\ {} \notin P
    BY <2>3, PartitionType
  <2> DEFINE single == [n \in isolated |-> {n}]
             alone == {single[n] : n \in isolated}
  <2>5. alone = {{n} : n \in isolated}
    OBVIOUS
  <2>6. IsFiniteSet(alone)
    <3> HIDE DEF single
    <3> QED
      BY <2>3, ImageFinite
  <2>7. IsFiniteSet(P \cup {{n} : n \in isolated})
    BY <2>4, <2>5, <2>6, FS_Union
  <2>8. P \cup {{n} : n \in isolated} \in SUBSET SUBSET g.nodes
        /\ {} \notin P \cup {{n} : n \in isolated} /\ P \in SUBSET SUBSET g.nodes
    BY <2>1, <2>4
  <2> QED
    BY <2>2, <2>4, <2>7, <2>8 DEF Answer
<1>3. a = NoPartition \/ \E isolated \in SUBSET g.nodes :
             \E P \in Partitions(g.nodes \ isolated) :
                a = [clusters |-> IF Backfill THEN P \cup {{n} : n \in isolated} ELSE P,
                     isolated |-> isolated]
  BY DEF LeidenAnswers
<1> QED
  BY <1>1, <1>2, <1>3

--------------------------------------------------------------------------------
(***************************************************************************)
(* Numbers and rows.                                                       *)
(***************************************************************************)
LEMMA RankType ==
    ASSUME NEW m, IsFiniteSet(m), NEW c PROVE Rank(c, m) \in Nat
<1> DEFINE D == {d \in m : Min(d) < Min(c)}
<1>1. IsFiniteSet(D)
  BY FS_Subset
<1> QED
  BY <1>1, FS_CardinalityType DEF Rank

FiniteRows(rows) == rows \in SUBSET Row /\ IsFiniteSet(rows)

LEMMA NumericIdsType ==
    ASSUME NEW rows, FiniteRows(rows)
    PROVE  NumericIds(rows) \in SUBSET Nat /\ IsFiniteSet(NumericIds(rows))
<1> DEFINE some == {s \in rows : IsNumeric(s.id)}
           id == [r \in some |-> r.id]
<1>1. IsFiniteSet(some)
  BY FS_Subset DEF FiniteRows
<1>2. NumericIds(rows) = {id[r] : r \in some}
  BY DEF NumericIds
<1>3. IsFiniteSet({id[r] : r \in some})
  <2> HIDE DEF id, some
  <2> QED
    BY <1>1, ImageFinite
<1>4. \A r \in some : r.id \in Int /\ r.id >= 0
  BY DEF FiniteRows, Row, IsNumeric
<1> QED
  BY <1>2, <1>3, <1>4

LEMMA CurMaxIdType ==
    ASSUME NEW rows, FiniteRows(rows) PROVE CurMaxId(rows) \in Int
<1>1. CASE NumericIds(rows) = {}
  BY <1>1 DEF CurMaxId, NanId
<1>2. CASE NumericIds(rows) # {}
  <2>1. Max(NumericIds(rows)) \in Nat
    BY <1>2, NumericIdsType, GreatestExists
  <2> QED
    BY <2>1 DEF CurMaxId, NanId
<1> QED
  BY <1>1, <1>2

LEMMA CommunityNodesType ==
    ASSUME NEW rows \in SUBSET Row, NEW cluster, NEW kind
    PROVE  CommunityNodes(cluster, kind, rows) \in SUBSET Entities
<1>1. \A r \in rows : r.nodes \in SUBSET Entities
  BY DEF Row
<1> QED
  BY <1>1 DEF CommunityNodes, RowsOf

\* New communities have an id and entities, and there are finitely many.
Communities(cs) ==
    IsFiniteSet(cs) /\ \A c \in cs : c.id \in Int /\ c.nodes \in SUBSET Entities

LEMMA ResizedType ==
    ASSUME NEW lvl, NEW g, NEW rows, FiniteRows(rows), NEW answer, Answer(answer, g.nodes),
           lvl = 1 => g.nodes = Entities
    PROVE  Communities(Resized(lvl, answer, g, rows))
<1> DEFINE named == {c \in answer.clusters : ~ \E n \in answer.isolated : c = {n}}
           cur == CurMaxId(rows)
           last == {c \in answer.clusters : \A d \in answer.clusters :
                       Rank(d, answer.clusters) <= Rank(c, answer.clusters)}
<1>1. IsFiniteSet(answer.clusters) /\ IsFiniteSet(named) /\ IsFiniteSet(last)
      /\ IsFiniteSet(answer.clusters \ named)
  BY FS_Subset DEF Answer
<1>2. CASE lvl = 1
  <2> DEFINE f == [c \in named |-> [id |-> Rank(c, named), nodes |-> c]]
             h == [c \in answer.clusters \ named |-> [id |-> IsolatedId(Min(c)), nodes |-> c]]
             F == {f[c] : c \in named}
             H == {h[c] : c \in answer.clusters \ named}
  <2>1. Resized(lvl, answer, g, rows) = F \cup H
    BY <1>2 DEF Resized
  <2>2. IsFiniteSet(F) /\ IsFiniteSet(H)
    <3> HIDE DEF f, h, named
    <3> QED
      BY <1>1, ImageFinite
  <2>3. \A c \in answer.clusters : c \in SUBSET Entities /\ c # {}
    BY <1>2 DEF Answer
  <2>4. ASSUME NEW c \in named PROVE f[c].id \in Int /\ f[c].nodes \in SUBSET Entities
    <3>1. Rank(c, named) \in Nat /\ c \in SUBSET Entities
      BY <1>1, <2>3, RankType
    <3> QED
      BY <3>1
  <2>5. ASSUME NEW c \in answer.clusters \ named
        PROVE h[c].id \in Int /\ h[c].nodes \in SUBSET Entities
    <3>1. c \in SUBSET Nat /\ c # {} /\ c \in SUBSET Entities
      BY <2>3, EntitiesAssumption
    <3>2. Min(c) \in Nat
      BY <3>1, LeastExists
    <3> QED
      BY <3>1, <3>2 DEF IsolatedId
  <2>6. IsFiniteSet(F \cup H)
    BY <2>2, FS_Union
  <2> HIDE DEF f, h
  <2> QED
    BY <2>1, <2>4, <2>5, <2>6 DEF Communities
<1>3. CASE lvl # 1 /\ cur = NanId
  <2> DEFINE f == [c \in last |-> [id |-> NanId, nodes |-> CommunityNodes(c, g.kind, rows)]]
  <2>1. Resized(lvl, answer, g, rows) = {f[c] : c \in last}
    BY <1>3 DEF Resized
  <2>2. \A c \in last : f[c].id \in Int /\ f[c].nodes \in SUBSET Entities
    BY CommunityNodesType DEF NanId, FiniteRows
  <2>3. IsFiniteSet({f[c] : c \in last})
    <3> HIDE DEF f, last
    <3> QED
      BY <1>1, ImageFinite
  <2> HIDE DEF f
  <2> QED
    BY <2>1, <2>2, <2>3 DEF Communities
<1>4. CASE lvl # 1 /\ cur # NanId
  <2> DEFINE f == [c \in answer.clusters |-> [id |-> cur + Rank(c, answer.clusters),
                                              nodes |-> CommunityNodes(c, g.kind, rows)]]
  <2>1. Resized(lvl, answer, g, rows) = {f[c] : c \in answer.clusters}
    BY <1>4 DEF Resized
  <2>2. ASSUME NEW c \in answer.clusters
        PROVE f[c].id \in Int /\ f[c].nodes \in SUBSET Entities
    <3>1. cur \in Int /\ Rank(c, answer.clusters) \in Nat
      BY <1>1, CurMaxIdType, RankType
    <3>2. CommunityNodes(c, g.kind, rows) \in SUBSET Entities
      BY CommunityNodesType DEF FiniteRows
    <3> HIDE DEF cur
    <3> QED
      BY <3>1, <3>2
  <2>3. IsFiniteSet({f[c] : c \in answer.clusters})
    <3> HIDE DEF f
    <3> QED
      BY <1>1, ImageFinite
  <2> HIDE DEF f
  <2> QED
    BY <2>1, <2>2, <2>3 DEF Communities
<1> QED
  BY <1>2, <1>3, <1>4

\* A batch of reports gives rows of the level it is asked for.
LEMMA ReportsType ==
    ASSUME NEW lvl \in Levels, NEW cs, Communities(cs), NEW rows \in Reports(lvl, cs)
    PROVE  FiniteRows(rows) /\ \A r \in rows : r.level = lvl
<1>1. PICK rating \in [cs -> Ratings \cup {NoRating}] :
         rows = {[id |-> c.id, kind |-> "str", level |-> lvl, nodes |-> c.nodes,
                  rating |-> rating[c]] : c \in cs}
  BY DEF Reports
<1> DEFINE f == [c \in cs |-> [id |-> c.id, kind |-> "str", level |-> lvl, nodes |-> c.nodes,
                               rating |-> rating[c]]]
<1>2. rows = {f[c] : c \in cs}
  BY <1>1
<1>3. IsFiniteSet({f[c] : c \in cs})
  <2> HIDE DEF f
  <2> QED
    BY ImageFinite DEF Communities
<1>4. \A c \in cs : f[c] \in Row /\ f[c].level = lvl
  BY DEF Communities, Row, Kinds
<1> HIDE DEF f
<1> QED
  BY <1>2, <1>3, <1>4 DEF FiniteRows

\* A round trip through a file keeps rows rows, of their level.
LEMMA LoadCsvType ==
    ASSUME NEW rows, FiniteRows(rows)
    PROVE  /\ FiniteRows(LoadCsv(rows))
           /\ \A r \in LoadCsv(rows) : \E s \in rows : r.level = s.level
           /\ Untyped(LoadCsv(rows)) = Untyped(rows)
<1>1. CASE LoadCsv(rows) = rows
  BY <1>1
<1>2. CASE LoadCsv(rows) = {[r EXCEPT !.kind = "int"] : r \in rows}
  <2> DEFINE f == [r \in rows |-> [r EXCEPT !.kind = "int"]]
  <2>1. LoadCsv(rows) = {f[r] : r \in rows}
    BY <1>2
  <2>2. \A r \in rows : /\ f[r] \in Row /\ f[r].level = r.level /\ f[r].id = r.id
                        /\ f[r].nodes = r.nodes /\ f[r].rating = r.rating
    BY DEF FiniteRows, Row, Kinds
  <2>3. IsFiniteSet({f[r] : r \in rows})
    <3> HIDE DEF f
    <3> QED
      BY ImageFinite DEF FiniteRows
  <2> HIDE DEF f
  <2>4. FiniteRows(LoadCsv(rows)) /\ \A r \in LoadCsv(rows) : \E s \in rows : r.level = s.level
    BY <2>1, <2>2, <2>3 DEF FiniteRows
  <2>5. Untyped(LoadCsv(rows)) = Untyped(rows)
    BY <2>1, <2>2 DEF Untyped
  <2> QED
    BY <2>4, <2>5
<1> QED
  BY <1>1, <1>2 DEF LoadCsv

LEMMA FilteredType ==
    ASSUME NEW rows, FiniteRows(rows)
    PROVE  FiniteRows(Filtered(rows)) /\ Filtered(rows) \subseteq rows
<1>1. Filtered(rows) \subseteq rows
  BY DEF Filtered, Rated
<1> QED
  BY <1>1, FS_Subset DEF FiniteRows

LEMMA ReconstructType ==
    ASSUME NEW rows, FiniteRows(rows)
    PROVE  LET g == Reconstruct(rows) IN
           g.nodes \in SUBSET Int /\ IsFiniteSet(g.nodes) /\ g.kind \in Kinds
<1> DEFINE f == [r \in rows |-> r.id]
<1>1. Reconstruct(rows).nodes = {f[r] : r \in rows}
      /\ Reconstruct(rows).kind \in Kinds
  BY DEF Reconstruct, Kinds
<1>2. \A r \in rows : f[r] \in Int
  BY DEF FiniteRows, Row
<1>3. IsFiniteSet({f[r] : r \in rows})
  <2> HIDE DEF f
  <2> QED
    BY ImageFinite DEF FiniteRows
<1> HIDE DEF f
<1> QED
  BY <1>1, <1>2, <1>3

--------------------------------------------------------------------------------
(***************************************************************************)
(* Types.                                                                  *)
(***************************************************************************)
Tables == {rows \in SUBSET Row : IsFiniteSet(rows)}

MemoryTyped ==
    /\ level \in 1 .. MaxLevel + 1
    /\ graph.nodes \in SUBSET Int /\ IsFiniteSet(graph.nodes) /\ graph.kind \in Kinds
    /\ level = 1 => graph.nodes = Entities
    /\ communityDf \in Tables /\ newDf \in Tables
    /\ cnMapping \in MappingType

DiskTyped == tmp \in [Levels -> {NoFile} \cup Tables] /\ intermediate \in {NoFile} \cup Tables

\* what Leiden has answered are clusters of the graph it was asked about
ControlTyped ==
    /\ pc \in {"down", "cluster", "report", "saveFinal", "save", "finish", "built", "failed"}
    /\ runs \in 0 .. MaxRuns
    /\ pc \in {"report", "saveFinal", "save"} => level \in Levels
    /\ pc = "report" => Answer(cnMapping, graph.nodes)
    /\ \A a \in leiden : Answer(a.answer, a.key[2])

TypeInv == MemoryTyped /\ DiskTyped /\ ControlTyped

LEMMA TypeInvImplies == TypeInv => TypeOK
<1>1. Tables \subseteq SUBSET Row
  BY DEF Tables
<1>2. {NoFile} \cup Tables \subseteq FileType
  BY <1>1 DEF FileType
<1> QED
  BY <1>1, <1>2 DEF TypeInv, MemoryTyped, DiskTyped, ControlTyped, TypeOK

LEMMA TablesAreRows == \A rows : rows \in Tables <=> FiniteRows(rows)
  BY DEF Tables, FiniteRows

LEMMA EmptyTable == {} \in Tables
  BY FS_EmptySet DEF Tables

LEMMA AnswerIsMapping ==
    ASSUME NEW nodes \in SUBSET Int, NEW a, Answer(a, nodes) PROVE a \in MappingType
  BY DEF Answer, MappingType

LEMMA NewMemory ==
    /\ InitGraph.nodes = Entities /\ InitGraph.kind \in Kinds
    /\ Entities \in SUBSET Int /\ IsFiniteSet(Entities)
    /\ 1 \in 1 .. MaxLevel + 1
    /\ NoPartition \in MappingType
<1>1. InitGraph.nodes = Entities /\ InitGraph.kind \in Kinds
  BY DEF InitGraph, Kinds
<1>2. Entities \in SUBSET Int /\ IsFiniteSet(Entities)
  BY EntitiesAssumption
<1>3. 1 \in 1 .. MaxLevel + 1
  BY BoundsAssumption
<1>4. NoPartition \in MappingType
  BY DEF NoPartition, MappingType
<1> QED
  BY <1>1, <1>2, <1>3, <1>4

LEMMA FreshIsTyped == FreshMemory => MemoryTyped'
  BY NewMemory, EmptyTable DEF FreshMemory, MemoryTyped

LEMMA InitTyped == Init => TypeInv
<1> SUFFICES ASSUME Init PROVE TypeInv
  OBVIOUS
<1>1. MemoryTyped
  BY NewMemory, EmptyTable DEF Init, MemoryTyped
<1>2. DiskTyped
  BY DEF Init, DiskTyped
<1>3. ControlTyped
  BY BoundsAssumption DEF Init, ControlTyped
<1> QED
  BY <1>1, <1>2, <1>3 DEF TypeInv

\* Another process begins, or none runs.
LEMMA FreshStepTyped ==
    ASSUME TypeInv, FreshMemory, leiden' = leiden, pc' \in {"cluster", "down", "failed"},
           runs' \in 0 .. MaxRuns, DiskTyped'
    PROVE  TypeInv'
<1>1. MemoryTyped'
  BY FreshIsTyped
<1>2. ControlTyped'
  BY DEF TypeInv, ControlTyped
<1> QED
  BY <1>1, <1>2 DEF TypeInv

\* A step of a run that leaves the table of its level alone.
LEMMA OnlyControlTyped ==
    ASSUME TypeInv, UNCHANGED memory, UNCHANGED leiden, UNCHANGED runs, DiskTyped',
           pc' \in {"finish", "failed", "built"}
    PROVE  TypeInv'
<1>1. MemoryTyped'
  BY DEF TypeInv, MemoryTyped, memory
<1>2. ControlTyped'
  BY DEF TypeInv, ControlTyped
<1> QED
  BY <1>1, <1>2 DEF TypeInv

LEMMA StartTyped == ASSUME TypeInv, StartFresh \/ StartResume PROVE TypeInv'
<1>1. runs' \in 0 .. MaxRuns
  BY BoundsAssumption DEF TypeInv, ControlTyped, StartFresh, StartResume
<1>2. DiskTyped'
  BY DEF TypeInv, DiskTyped, StartFresh, StartResume, disk
<1>3. CASE StartFresh
  BY <1>1, <1>2, <1>3, FreshStepTyped DEF StartFresh
<1>4. CASE StartResume
  <2>1. communityDf' \in Tables
    <3>1. CASE communityDf' = {}
      BY <3>1, EmptyTable
    <3>2. CASE communityDf' = LoadCsv(intermediate)
      <4>1. intermediate \in Tables
        BY <1>4 DEF StartResume, TypeInv, DiskTyped
      <4> QED
        BY <3>2, <4>1, LoadCsvType, TablesAreRows
    <3> QED
      BY <1>4, <3>1, <3>2 DEF StartResume
  <2>2. MemoryTyped'
    BY <1>4, <2>1, NewMemory, EmptyTable DEF StartResume, MemoryTyped
  <2>3. ControlTyped'
    BY <1>1, <1>4 DEF StartResume, TypeInv, ControlTyped
  <2> QED
    BY <1>2, <2>2, <2>3 DEF TypeInv
<1> QED
  BY <1>3, <1>4

LEMMA KilledTyped ==
    ASSUME TypeInv, Crash \/ LeidenFails \/ NoCommunities PROVE TypeInv'
<1>1. DiskTyped' /\ runs' \in 0 .. MaxRuns
  BY DEF TypeInv, DiskTyped, ControlTyped, Crash, LeidenFails, NoCommunities, disk
<1> QED
  BY <1>1, FreshStepTyped DEF Crash, LeidenFails, NoCommunities

LEMMA TornSaveTyped == ASSUME TypeInv, TornSave PROVE TypeInv'
<1>1. FreshMemory /\ pc' = "down" /\ leiden' = leiden /\ runs' \in 0 .. MaxRuns
  BY DEF TornSave, TypeInv, ControlTyped
<1>2. DiskTyped'
  <2>1. CASE \E part \in SUBSET newDf : tmp' = [tmp EXCEPT ![level] = part]
                                       /\ intermediate' = intermediate
    <3>1. PICK part \in SUBSET newDf : tmp' = [tmp EXCEPT ![level] = part]
      BY <2>1
    <3>2. FiniteRows(newDf)
      BY TablesAreRows DEF TypeInv, MemoryTyped
    <3>3. part \in Tables
      BY <3>2, FS_Subset DEF FiniteRows, Tables
    <3> QED
      BY <2>1, <3>1, <3>3 DEF TypeInv, DiskTyped
  <2>2. CASE intermediate' \in SUBSET communityDf /\ tmp' = tmp
    <3>1. communityDf \in Tables
      BY DEF TypeInv, MemoryTyped
    <3>2. intermediate' \in Tables
      BY <2>2, <3>1, FS_Subset DEF Tables
    <3> QED
      BY <2>2, <3>2 DEF TypeInv, DiskTyped
  <2>3. Filtered(newDf) \in SUBSET newDf
    BY DEF Filtered, Rated
  <2> QED
    BY <2>1, <2>2, <2>3 DEF TornSave
<1> QED
  BY <1>1, <1>2, FreshStepTyped

LEMMA ToTheEndTyped ==
    ASSUME TypeInv, LevelLimit \/ SkipFinal \/ StopOnQuality \/ Finish PROVE TypeInv'
<1>1. DiskTyped'
  BY DEF TypeInv, DiskTyped, MemoryTyped, LevelLimit, SkipFinal, StopOnQuality, Finish, disk
<1> QED
  BY <1>1, OnlyControlTyped DEF LevelLimit, SkipFinal, StopOnQuality, Finish, memory

LEMMA ClusterTyped == ASSUME TypeInv, Cluster PROVE TypeInv'
<1>1. PICK answer \in IF Remembered # {} THEN {a.answer : a \in Remembered}
                      ELSE LeidenAnswers(graph) :
         /\ leiden' = leiden \cup {[key |-> LeidenKey, answer |-> answer]}
         /\ cnMapping' = answer
         /\ pc' \in {"finish", "report"}
  BY DEF Cluster
<1>2. Answer(answer, graph.nodes)
  <2>1. CASE Remembered # {}
    <3>1. PICK a \in leiden : a.key = LeidenKey /\ a.answer = answer
      BY <1>1, <2>1 DEF Remembered
    <3>2. a.key[2] = graph.nodes
      BY <3>1 DEF LeidenKey
    <3> QED
      BY <3>1, <3>2 DEF TypeInv, ControlTyped
  <2>2. CASE Remembered = {}
    BY <1>1, <2>2, LeidenAnswersType DEF TypeInv, MemoryTyped
  <2> QED
    BY <2>1, <2>2
<1>3. UNCHANGED <<level, graph, communityDf, newDf, prevMapping, disk, runs>> /\ level <= MaxLevel
  BY DEF Cluster
<1>4. MemoryTyped'
  BY <1>1, <1>2, <1>3, AnswerIsMapping DEF TypeInv, MemoryTyped
<1>5. DiskTyped'
  BY <1>3 DEF TypeInv, DiskTyped, disk
<1>6. ControlTyped'
  <2>1. level' \in Levels
    BY <1>3, BoundsAssumption DEF TypeInv, MemoryTyped, Levels
  <2>2. \A a \in leiden' : Answer(a.answer, a.key[2])
    BY <1>1, <1>2 DEF TypeInv, ControlTyped, LeidenKey
  <2> QED
    BY <1>1, <1>2, <1>3, <2>1, <2>2 DEF TypeInv, ControlTyped
<1> QED
  BY <1>4, <1>5, <1>6 DEF TypeInv

\* The table of the level is there: reported or loaded.
LEMMA NewTableTyped ==
    ASSUME TypeInv, pc = "report", newDf' \in Tables, pc' \in {"saveFinal", "save"},
           UNCHANGED <<level, graph, communityDf, cnMapping, prevMapping, disk, leiden, runs>>
    PROVE  TypeInv'
<1>1. MemoryTyped' /\ DiskTyped'
  BY DEF TypeInv, MemoryTyped, DiskTyped, disk
<1>2. ControlTyped'
  BY DEF TypeInv, ControlTyped
<1> QED
  BY <1>1, <1>2 DEF TypeInv

LEMMA ReportedRows ==
    ASSUME TypeInv, Report PROVE newDf' \in Tables /\ \A r \in newDf' : r.level = level
<1>1. Communities(Resized(level, cnMapping, graph, communityDf))
  BY ResizedType, TablesAreRows DEF Report, TypeInv, MemoryTyped, ControlTyped
<1>2. level \in Levels /\ newDf' \in Reports(level, Resized(level, cnMapping, graph, communityDf))
  BY DEF Report, TypeInv, ControlTyped
<1> QED
  BY <1>1, <1>2, ReportsType, TablesAreRows

LEMMA ReportTyped == ASSUME TypeInv, Report PROVE TypeInv'
  BY ReportedRows, NewTableTyped DEF Report

LEMMA LoadLevelTyped == ASSUME TypeInv, LoadLevel PROVE TypeInv'
<1>1. level \in Levels /\ tmp[level] \in Tables
  BY DEF LoadLevel, TypeInv, ControlTyped, DiskTyped
<1>2. newDf' \in Tables
  BY <1>1, LoadCsvType, TablesAreRows DEF LoadLevel
<1> QED
  BY <1>2, NewTableTyped DEF LoadLevel

LEMMA TableUnion == ASSUME NEW S \in Tables, NEW T \in Tables PROVE S \cup T \in Tables
  BY FS_Union DEF Tables

LEMMA SaveFinalTyped == ASSUME TypeInv, SaveFinal PROVE TypeInv'
<1>1. communityDf' \in Tables
  BY TableUnion DEF SaveFinal, TypeInv, MemoryTyped
<1>2. MemoryTyped'
  BY <1>1 DEF SaveFinal, TypeInv, MemoryTyped
<1>3. DiskTyped'
  BY DEF SaveFinal, TypeInv, MemoryTyped, DiskTyped
<1>4. ControlTyped'
  BY DEF SaveFinal, TypeInv, ControlTyped
<1> QED
  BY <1>2, <1>3, <1>4 DEF TypeInv

LEMMA SaveLevelTyped == ASSUME TypeInv, SaveLevel PROVE TypeInv'
<1> DEFINE rows == Filtered(newDf)
<1>1. /\ newDf' = rows /\ graph' = Reconstruct(rows) /\ tmp' = [tmp EXCEPT ![level] = rows]
      /\ communityDf' = communityDf \cup rows /\ level' = level + 1 /\ pc' = "cluster"
      /\ UNCHANGED <<cnMapping, intermediate, cut, leiden, runs>> /\ pc = "save"
  BY DEF SaveLevel
<1>2. newDf \in Tables /\ communityDf \in Tables /\ level \in Levels
  BY <1>1 DEF TypeInv, MemoryTyped, ControlTyped
<1>3. rows \in Tables /\ FiniteRows(rows)
  BY <1>2, FilteredType, TablesAreRows
<1>4. level' \in 1 .. MaxLevel + 1 /\ level' # 1
  BY <1>1, <1>2, BoundsAssumption DEF Levels
<1>5. graph'.nodes \in SUBSET Int /\ IsFiniteSet(graph'.nodes) /\ graph'.kind \in Kinds
  BY <1>1, <1>3, ReconstructType
<1> HIDE DEF rows
<1>6. MemoryTyped'
  BY <1>1, <1>2, <1>3, <1>4, <1>5, TableUnion DEF TypeInv, MemoryTyped
<1>7. DiskTyped'
  BY <1>1, <1>3 DEF TypeInv, DiskTyped
<1>8. ControlTyped'
  BY <1>1 DEF TypeInv, ControlTyped
<1> QED
  BY <1>6, <1>7, <1>8 DEF TypeInv

LEMMA NextTyped == ASSUME TypeInv, [Next]_vars PROVE TypeInv'
<1>1. CASE UNCHANGED vars
  BY <1>1 DEF vars, memory, disk, TypeInv, MemoryTyped, DiskTyped, ControlTyped
<1>2. CASE StartFresh \/ StartResume
  BY <1>2, StartTyped
<1>3. CASE Crash \/ LeidenFails \/ NoCommunities
  BY <1>3, KilledTyped
<1>4. CASE TornSave
  BY <1>4, TornSaveTyped
<1>5. CASE LevelLimit \/ SkipFinal \/ StopOnQuality \/ Finish
  BY <1>5, ToTheEndTyped
<1>6. CASE Cluster
  BY <1>6, ClusterTyped
<1>7. CASE Report
  BY <1>7, ReportTyped
<1>8. CASE LoadLevel
  BY <1>8, LoadLevelTyped
<1>9. CASE SaveFinal
  BY <1>9, SaveFinalTyped
<1>10. CASE SaveLevel
  BY <1>10, SaveLevelTyped
<1> QED
  BY <1>1, <1>2, <1>3, <1>4, <1>5, <1>6, <1>7, <1>8, <1>9, <1>10 DEF Next, Step

LEMMA AlwaysTyped == Spec => []TypeInv
  BY InitTyped, NextTyped, PTL DEF Spec

\* Every variable keeps its type: ids stay numbers, tables stay finite and are tables
\* of communities, whatever Leiden answers and wherever a run dies.
THEOREM ClusteringTypeCorrect == Spec => []TypeOK
  BY AlwaysTyped, TypeInvImplies, PTL

--------------------------------------------------------------------------------
(***************************************************************************)
(* Memory and files.                                                       *)
(***************************************************************************)
Clustering == {"cluster", "report", "save", "saveFinal"}

\* Rows are where they belong: in the file of their level, in the hierarchy once
\* their level is done.
LevelsInPlace ==
    /\ pc \in Clustering => \A r \in communityDf : r.level < level
    /\ pc \in {"save", "saveFinal"} => \A r \in newDf : r.level = level
    /\ \A l \in Levels : tmp[l] # NoFile => \A r \in tmp[l] : r.level = l

PlaceInv == TypeInv /\ LevelsInPlace /\ MemoryMatchesFiles

\* A process that does not cluster, or has just begun to.
LEMMA NothingBelow ==
    ASSUME pc' \notin Clustering \/ (pc' = "cluster" /\ level' = 1 /\ communityDf' = {}),
           \A l \in Levels : tmp'[l] # NoFile => \A r \in tmp'[l] : r.level = l
    PROVE  LevelsInPlace' /\ MemoryMatchesFiles'
  BY DEF LevelsInPlace, MemoryMatchesFiles, Clustering

LEMMA FilesInPlace ==
    ASSUME PlaceInv, tmp' = tmp PROVE \A l \in Levels : tmp'[l] # NoFile => \A r \in tmp'[l] : r.level = l
  BY DEF PlaceInv, LevelsInPlace

\* The file of the level under way is written: its rows are of this level.
LEMMA WrittenInPlace ==
    ASSUME PlaceInv, pc \in {"save", "saveFinal"}, NEW rows \in SUBSET newDf,
           tmp' = [tmp EXCEPT ![level] = rows]
    PROVE  \A l \in Levels : tmp'[l] # NoFile => \A r \in tmp'[l] : r.level = l
<1>1. tmp \in [Levels -> {NoFile} \cup Tables] /\ \A r \in newDf : r.level = level
  BY DEF PlaceInv, TypeInv, DiskTyped, LevelsInPlace
<1> QED
  BY <1>1 DEF PlaceInv, LevelsInPlace

LEMMA NextInPlace ==
    ASSUME NoFile \notin SUBSET Row, PlaceInv, [Next]_vars
    PROVE  LevelsInPlace' /\ MemoryMatchesFiles'
<1>0. TypeInv /\ LevelsInPlace /\ MemoryMatchesFiles
  BY DEF PlaceInv
<1>1. CASE UNCHANGED vars
  BY <1>0, <1>1 DEF vars, memory, disk, LevelsInPlace, MemoryMatchesFiles, LevelRows
<1>2. CASE StartFresh \/ Crash \/ LeidenFails \/ NoCommunities
  <2>1. tmp' = tmp
    BY <1>2 DEF StartFresh, Crash, LeidenFails, NoCommunities, disk
  <2>2. pc' \notin Clustering \/ (pc' = "cluster" /\ level' = 1 /\ communityDf' = {})
    BY <1>2 DEF StartFresh, Crash, LeidenFails, NoCommunities, FreshMemory, Clustering
  <2> QED
    BY <2>1, <2>2, FilesInPlace, NothingBelow
<1>3. CASE StartResume \/ LevelLimit \/ SkipFinal \/ StopOnQuality \/ Finish
  <2>1. tmp' = tmp
    BY <1>3 DEF StartResume, LevelLimit, SkipFinal, StopOnQuality, Finish, disk
  <2>2. pc' \notin Clustering
    BY <1>3 DEF StartResume, LevelLimit, SkipFinal, StopOnQuality, Finish, Clustering
  <2> QED
    BY <2>1, <2>2, FilesInPlace, NothingBelow
<1>4. CASE TornSave
  <2>1. pc' \notin Clustering
    BY <1>4 DEF TornSave, Clustering
  <2>2. Filtered(newDf) \subseteq newDf
    BY DEF Filtered, Rated
  <2>3. \A l \in Levels : tmp'[l] # NoFile => \A r \in tmp'[l] : r.level = l
    <3>1. CASE tmp' = tmp
      BY <3>1, FilesInPlace
    <3>2. CASE pc \in {"save", "saveFinal"}
               /\ \E part \in SUBSET newDf : tmp' = [tmp EXCEPT ![level] = part]
      BY <3>2, WrittenInPlace
    <3> QED
      BY <1>4, <2>2, <3>1, <3>2 DEF TornSave
  <2> QED
    BY <2>1, <2>3, NothingBelow
<1>5. CASE Cluster
  <2>1. UNCHANGED <<level, communityDf, tmp>> /\ pc = "cluster" /\ pc' \in {"finish", "report"}
    BY <1>5 DEF Cluster, disk
  <2> QED
    BY <1>0, <2>1 DEF LevelsInPlace, MemoryMatchesFiles, LevelRows, Clustering
<1>6. CASE Report \/ LoadLevel
  <2>1. /\ UNCHANGED <<level, communityDf, tmp>> /\ pc = "report"
        /\ pc' \in {"save", "saveFinal"}
    BY <1>6 DEF Report, LoadLevel, disk
  <2>2. \A r \in newDf' : r.level = level
    <3>1. CASE Report
      BY <1>0, <3>1, ReportedRows
    <3>2. CASE LoadLevel
      <4>1. level \in Levels /\ tmp[level] # NoFile /\ tmp[level] \in Tables /\ newDf' = LoadCsv(tmp[level])
        BY <1>0, <3>2 DEF LoadLevel, TypeInv, ControlTyped, DiskTyped
      <4>2. \A r \in newDf' : \E s \in tmp[level] : r.level = s.level
        BY <4>1, LoadCsvType, TablesAreRows
      <4> QED
        BY <1>0, <4>1, <4>2 DEF LevelsInPlace
    <3> QED
      BY <1>6, <3>1, <3>2
  <2> QED
    BY <1>0, <2>1, <2>2 DEF LevelsInPlace, MemoryMatchesFiles, LevelRows, Clustering
<1>7. CASE SaveFinal
  <2>1. pc' \notin Clustering /\ pc = "saveFinal" /\ tmp' = [tmp EXCEPT ![level] = newDf]
    BY <1>7 DEF SaveFinal, Clustering
  <2> QED
    BY <2>1, WrittenInPlace, NothingBelow
<1>8. CASE SaveLevel
  <2> DEFINE rows == Filtered(newDf)
  <2>1. /\ tmp' = [tmp EXCEPT ![level] = rows] /\ communityDf' = communityDf \cup rows
        /\ level' = level + 1 /\ pc' = "cluster" /\ pc = "save"
    BY <1>8 DEF SaveLevel
  <2>2. /\ level \in Levels /\ tmp \in [Levels -> {NoFile} \cup Tables]
        /\ \A r \in newDf : r.level = level
        /\ \A r \in communityDf : r.level < level /\ r.level \in Nat
        /\ communityDf \in SUBSET Row /\ newDf \in Tables
    BY <1>0, <2>1, BoundsAssumption
       DEF TypeInv, MemoryTyped, DiskTyped, ControlTyped, LevelsInPlace, Clustering, Tables, Row, Levels
  <2>3. rows \subseteq newDf /\ rows \in SUBSET Row
    BY <2>2 DEF Filtered, Rated, Tables
  <2> HIDE DEF rows
  <2>4. \A l \in Levels : tmp'[l] # NoFile => \A r \in tmp'[l] : r.level = l
    BY <2>1, <2>3, WrittenInPlace
  <2>5. \A r \in communityDf' : r.level < level'
    <3>1. \A r \in rows : r.level = level /\ level \in Nat
      BY <2>2, <2>3, BoundsAssumption DEF Levels
    <3>2. \A r \in communityDf : r.level < level /\ r.level \in Nat
      BY <2>2
    <3>3. ASSUME NEW r \in communityDf' PROVE r.level < level'
      <4>1. CASE r \in rows
        BY <2>1, <3>1, <4>1
      <4>2. CASE r \in communityDf
        <5>1. r.level < level /\ r.level \in Nat /\ level \in Nat
          BY <2>2, <3>2, <4>2, BoundsAssumption DEF Levels
        <5> QED
          BY <2>1, <5>1
      <4> QED
        BY <2>1, <4>1, <4>2
    <3> QED
      BY <3>3
  <2>6. ASSUME NEW l \in 1 .. level' - 1
        PROVE  tmp'[l] # NoFile /\ Untyped(LevelRows(l, communityDf')) = Untyped(tmp'[l])
    <3>1. CASE l = level
      <4>1. tmp'[l] = rows /\ rows # NoFile
        BY <2>1, <2>2, <2>3, <3>1
      <4>2. LevelRows(l, communityDf') = rows
        BY <2>1, <2>2, <2>3, <3>1 DEF LevelRows
      <4> QED
        BY <4>1, <4>2
    <3>2. CASE l # level
      <4>1. l \in 1 .. level - 1 /\ l \in Levels
        BY <2>1, <2>2, <3>2, BoundsAssumption DEF Levels
      <4>2. tmp'[l] = tmp[l]
        BY <2>1, <2>2, <3>2, <4>1
      <4>3. LevelRows(l, communityDf') = LevelRows(l, communityDf)
        BY <2>1, <2>2, <2>3, <3>2 DEF LevelRows
      <4> QED
        BY <1>0, <2>1, <4>1, <4>2, <4>3 DEF MemoryMatchesFiles
    <3> QED
      BY <3>1, <3>2
  <2> QED
    BY <2>1, <2>4, <2>5, <2>6 DEF LevelsInPlace, MemoryMatchesFiles, Clustering
<1> QED
  BY <1>1, <1>2, <1>3, <1>4, <1>5, <1>6, <1>7, <1>8 DEF Next, Step

\* A restart continues the hierarchy that is on disk: at every moment of the loop the
\* levels below are those of their files, whatever was killed before, in the middle
\* of a file too.
THEOREM RestartContinues == ASSUME NoFile \notin SUBSET Row PROVE Spec => []MemoryMatchesFiles
<1>1. Init => PlaceInv
  <2>1. Init => LevelsInPlace /\ MemoryMatchesFiles
    BY DEF Init, LevelsInPlace, MemoryMatchesFiles, Clustering
  <2> QED
    BY <2>1, InitTyped DEF PlaceInv
<1>2. PlaceInv /\ [Next]_vars => PlaceInv'
  BY NextTyped, NextInPlace DEF PlaceInv
<1>3. PlaceInv => MemoryMatchesFiles
  BY DEF PlaceInv
<1> QED
  BY <1>1, <1>2, <1>3, PTL DEF Spec

--------------------------------------------------------------------------------
(***************************************************************************)
(* Levels without a gap.                                                   *)
(***************************************************************************)
\* below a row there is one on every level
DownTo1(rows) == \A r \in rows : \A l \in 1 .. r.level : \E s \in rows : s.level = l

LevelBelow == level = 1 \/ \E s \in communityDf : s.level = level - 1

\* A level is only begun above one that has rows: the graph of an empty level has no
\* node, and gives no cluster.
NoGap ==
    /\ DownTo1(communityDf)
    /\ intermediate # NoFile => DownTo1(intermediate)
    /\ pc = "built" => intermediate \in Tables /\ intermediate # {} /\ DownTo1(intermediate)
    /\ pc \in {"cluster", "report"} => graph.nodes = {} \/ LevelBelow
    /\ pc \in {"save", "saveFinal"} => LevelBelow

LevelsInv == TypeInv /\ LevelsInPlace /\ NoGap

LEMMA EmptyIsDown == DownTo1({})
  BY DEF DownTo1

LEMMA LoadedIsDown ==
    ASSUME NEW rows, FiniteRows(rows), DownTo1(rows) PROVE DownTo1(LoadCsv(rows))
<1>1. CASE LoadCsv(rows) = rows
  BY <1>1
<1>2. CASE LoadCsv(rows) = {[r EXCEPT !.kind = "int"] : r \in rows}
  <2>1. \A r \in rows : [r EXCEPT !.kind = "int"].level = r.level
    BY DEF FiniteRows, Row
  <2>2. ASSUME NEW q \in LoadCsv(rows), NEW l \in 1 .. q.level
        PROVE  \E s \in LoadCsv(rows) : s.level = l
    <3>1. PICK r \in rows : q = [r EXCEPT !.kind = "int"]
      BY <1>2
    <3>2. l \in 1 .. r.level
      BY <2>1, <3>1
    <3>3. PICK s \in rows : s.level = l
      BY <3>2 DEF DownTo1
    <3>4. [s EXCEPT !.kind = "int"] \in LoadCsv(rows) /\ [s EXCEPT !.kind = "int"].level = l
      BY <1>2, <2>1, <3>3
    <3> QED
      BY <3>4
  <2> QED
    BY <2>2 DEF DownTo1
<1> QED
  BY <1>1, <1>2 DEF LoadCsv

\* The level under way is added to the levels below it.
LEMMA AddedIsDown ==
    ASSUME TypeInv, LevelBelow, DownTo1(communityDf), NEW rows,
           level \in Levels, \A r \in rows : r.level = level
    PROVE  DownTo1(communityDf \cup rows)
<1>1. level \in Nat /\ level >= 1
  BY BoundsAssumption DEF Levels
<1>2. ASSUME NEW r \in rows, NEW l \in 1 .. r.level
      PROVE  \E s \in communityDf \cup rows : s.level = l
  <2>1. r.level = level
    OBVIOUS
  <2>2. CASE l = level
    BY <2>1, <2>2
  <2>3. CASE l # level
    <3>1. PICK s \in communityDf : s.level = level - 1
      BY <1>1, <2>1, <2>3 DEF LevelBelow
    <3>2. l \in 1 .. s.level
      BY <1>1, <2>1, <2>3, <3>1
    <3> QED
      BY <3>1, <3>2 DEF DownTo1
  <2> QED
    BY <2>2, <2>3
<1>3. ASSUME NEW r \in communityDf, NEW l \in 1 .. r.level
      PROVE  \E s \in communityDf \cup rows : s.level = l
  BY DEF DownTo1
<1> QED
  BY <1>2, <1>3 DEF DownTo1

LEMMA SomeClusterBelow ==
    ASSUME TypeInv, NoGap, pc = "report", cnMapping.clusters # {} PROVE LevelBelow
<1>1. Answer(cnMapping, graph.nodes)
  BY DEF TypeInv, ControlTyped
<1>2. graph.nodes # {}
  BY <1>1 DEF Answer
<1> QED
  BY <1>2 DEF NoGap

LEMMA NextNoGap ==
    ASSUME ~TornWrites, MinClusters # 0, LevelsInv, [Next]_vars PROVE NoGap'
<1>0. TypeInv /\ LevelsInPlace /\ NoGap
  BY DEF LevelsInv
<1>1. CASE UNCHANGED vars
  BY <1>0, <1>1 DEF vars, memory, disk, NoGap, LevelBelow
<1>2. CASE StartFresh \/ Crash \/ LeidenFails \/ NoCommunities
  <2>1. intermediate' = intermediate
    BY <1>2 DEF StartFresh, Crash, LeidenFails, NoCommunities, disk
  <2>2. communityDf' = {} /\ level' = 1 /\ pc' \in {"cluster", "down", "failed"}
    BY <1>2 DEF StartFresh, Crash, LeidenFails, NoCommunities, FreshMemory
  <2> QED
    BY <1>0, <2>1, <2>2, EmptyIsDown DEF NoGap, LevelBelow
<1>3. CASE StartResume
  <2>1. intermediate' = intermediate /\ intermediate \in Tables /\ DownTo1(intermediate)
        /\ pc' \in {"failed", "finish"} /\ communityDf' \in {{}, LoadCsv(intermediate)}
    BY <1>0, <1>3 DEF StartResume, TypeInv, DiskTyped, NoGap, disk
  <2>2. DownTo1(communityDf')
    BY <2>1, EmptyIsDown, LoadedIsDown, TablesAreRows
  <2> QED
    BY <2>1, <2>2 DEF NoGap
<1>4. CASE LevelLimit \/ SkipFinal \/ StopOnQuality
  <2>1. UNCHANGED <<communityDf, intermediate>> /\ pc' = "finish"
    BY <1>4 DEF LevelLimit, SkipFinal, StopOnQuality, memory, disk
  <2> QED
    BY <1>0, <2>1 DEF NoGap
<1>5. CASE Finish
  <2>1. communityDf' = communityDf /\ intermediate' = communityDf /\ communityDf \in Tables
        /\ (pc' = "built" => communityDf # {}) /\ pc' \in {"built", "failed"}
    BY <1>0, <1>5 DEF Finish, memory, TypeInv, MemoryTyped
  <2> QED
    BY <1>0, <2>1 DEF NoGap
<1>6. CASE TornSave
  BY <1>6 DEF TornSave
<1>7. CASE Cluster
  <2>1. UNCHANGED <<level, graph, communityDf, intermediate>> /\ pc = "cluster"
        /\ pc' \in {"finish", "report"}
    BY <1>7 DEF Cluster, disk
  <2> QED
    BY <1>0, <2>1 DEF NoGap, LevelBelow
<1>8. CASE Report \/ LoadLevel
  <2>1. UNCHANGED <<level, communityDf, intermediate>> /\ pc = "report"
        /\ pc' \in {"save", "saveFinal"}
    BY <1>8 DEF Report, LoadLevel, disk
  <2>2. cnMapping.clusters # {}
    <3>1. CASE Report
      BY <3>1 DEF Report
    <3>2. CASE LoadLevel
      <4>1. ~(Cardinality(cnMapping.clusters) < MinClusters)
        BY <3>2 DEF LoadLevel, TooFewClusters
      <4>2. MinClusters \in Nat /\ MinClusters > 0
        BY BoundsAssumption
      <4> QED
        BY <4>1, <4>2, FS_EmptySet
    <3> QED
      BY <1>8, <3>1, <3>2
  <2> QED
    BY <1>0, <2>1, <2>2, SomeClusterBelow DEF NoGap, LevelBelow
<1>9. CASE SaveFinal
  <2>1. pc = "saveFinal" /\ pc' = "finish" /\ communityDf' = communityDf \cup newDf
        /\ intermediate' = intermediate
    BY <1>9 DEF SaveFinal
  <2>2. level \in Levels /\ LevelBelow /\ \A r \in newDf : r.level = level
    BY <1>0, <2>1 DEF TypeInv, ControlTyped, NoGap, LevelsInPlace
  <2>3. DownTo1(communityDf')
    BY <1>0, <2>1, <2>2, AddedIsDown DEF NoGap
  <2> QED
    BY <1>0, <2>1, <2>3 DEF NoGap
<1>10. CASE SaveLevel
  <2> DEFINE rows == Filtered(newDf)
  <2>1. pc = "save" /\ pc' = "cluster" /\ communityDf' = communityDf \cup rows
        /\ intermediate' = intermediate /\ level' = level + 1 /\ graph' = Reconstruct(rows)
    BY <1>10 DEF SaveLevel
  <2>2. level \in Levels /\ LevelBelow /\ \A r \in rows : r.level = level
    BY <1>0, <2>1 DEF TypeInv, ControlTyped, NoGap, LevelsInPlace, Filtered, Rated
  <2> HIDE DEF rows
  <2>3. DownTo1(communityDf')
    BY <1>0, <2>1, <2>2, AddedIsDown DEF NoGap
  <2>4. graph'.nodes = {} \/ LevelBelow'
    <3>1. CASE rows = {}
      BY <2>1, <3>1 DEF Reconstruct
    <3>2. CASE rows # {}
      <4>1. level' - 1 = level
        BY <2>1, <2>2, BoundsAssumption DEF Levels
      <4> QED
        BY <2>1, <2>2, <3>2, <4>1 DEF LevelBelow
    <3> QED
      BY <3>1, <3>2
  <2> QED
    BY <1>0, <2>1, <2>3, <2>4 DEF NoGap
<1> QED
  BY <1>1, <1>2, <1>3, <1>4, <1>5, <1>6, <1>7, <1>8, <1>9, <1>10 DEF Next, Step

LEMMA NoGapImplies == LevelsInv => LevelsContiguous
<1> SUFFICES ASSUME LevelsInv, pc = "built"
             PROVE  LET used == {r.level : r \in intermediate} IN used = 1 .. Max(used)
  BY DEF LevelsContiguous
<1> DEFINE f == [r \in intermediate |-> r.level]
           used == {f[r] : r \in intermediate}
<1>0. used = {r.level : r \in intermediate}
  OBVIOUS
<1>1. intermediate \in Tables /\ intermediate # {} /\ DownTo1(intermediate)
  BY DEF LevelsInv, NoGap
<1>2. \A r \in intermediate : f[r] = r.level /\ r.level \in Nat /\ r.level >= 1
  BY <1>1, BoundsAssumption DEF Tables, Row, Levels
<1>3. IsFiniteSet(used)
  <2> HIDE DEF f
  <2> QED
    BY <1>1, ImageFinite DEF Tables
<1> HIDE DEF f
<1>4. used \in SUBSET Nat /\ used # {} /\ \A x \in used : x >= 1
  BY <1>1, <1>2
<1>5. Max(used) \in used /\ \A x \in used : Max(used) >= x
  <2> HIDE DEF used
  <2> QED
    BY <1>3, <1>4, GreatestExists
<1>6. \A l \in 1 .. Max(used) : l \in used
  <2>1. PICK r \in intermediate : r.level = Max(used)
    BY <1>2, <1>5
  <2> HIDE DEF used
  <2>2. ASSUME NEW l \in 1 .. Max(used) PROVE \E s \in intermediate : s.level = l
    BY <1>1, <2>1, <2>2 DEF DownTo1
  <2> USE DEF used
  <2> QED
    BY <1>2, <2>2
<1>7. used = 1 .. Max(used)
  <2> HIDE DEF used
  <2>1. Max(used) \in Nat
    BY <1>4, <1>5
  <2>2. \A x \in used : x \in 1 .. Max(used)
    BY <1>4, <1>5, <2>1
  <2> QED
    BY <1>6, <2>2
<1> QED
  BY <1>0, <1>7

\* A hierarchy that is built has rows on every level up to its highest, whatever the
\* filter removed and however often a run was killed, as long as files are whole and
\* a level needs at least one cluster: C-HNSW descends one level at a time.
THEOREM NoLevelMissing ==
    ASSUME ~TornWrites, MinClusters # 0, NoFile \notin SUBSET Row
    PROVE  Spec => []LevelsContiguous
<1>1. Init => PlaceInv /\ NoGap
  <2>1. Init => LevelsInPlace /\ MemoryMatchesFiles /\ NoGap
    BY EmptyIsDown DEF Init, LevelsInPlace, MemoryMatchesFiles, Clustering, NoGap, LevelBelow
  <2> QED
    BY <2>1, InitTyped DEF PlaceInv
<1>2. PlaceInv /\ NoGap /\ [Next]_vars => (PlaceInv /\ NoGap)'
  BY NextTyped, NextInPlace, NextNoGap DEF PlaceInv, LevelsInv
<1>3. PlaceInv /\ NoGap => LevelsContiguous
  BY NoGapImplies DEF PlaceInv, LevelsInv
<1> QED
  BY <1>1, <1>2, <1>3, PTL DEF Spec

--------------------------------------------------------------------------------
(***************************************************************************)
(* Clusters that share no node, and their order.                           *)
(***************************************************************************)
\* A finite set of integers has a least element.
LEMMA LeastOfFinite ==
    ASSUME NEW S \in SUBSET Int, S # {}, IsFiniteSet(S)
    PROVE  Min(S) \in S /\ \A y \in S : Min(S) <= y
<1> DEFINE HasLeast(A) == \E x \in A : \A y \in A : x <= y
           G == {A \in SUBSET S : A # {} => HasLeast(A)}
<1>1. {} \in G
  OBVIOUS
<1>2. ASSUME NEW A \in SUBSET S, NEW x \in S \ A, A \in G PROVE A \cup {x} \in G
  <2>1. CASE A = {}
    <3>1. A \cup {x} = {x} /\ x <= x
      BY <2>1
    <3> QED
      BY <3>1
  <2>2. CASE A # {}
    <3>1. PICK m \in A : \A y \in A : m <= y
      BY <1>2, <2>2
    <3>2. x \in Int /\ \A y \in A : y \in Int
      OBVIOUS
    <3>3. CASE m <= x
      <4>1. \A y \in A \cup {x} : m <= y
        BY <3>1, <3>3
      <4> QED
        BY <3>1, <4>1
    <3>4. CASE x <= m
      <4>1. \A y \in A \cup {x} : x <= y
        BY <3>1, <3>2, <3>4
      <4> QED
        BY <4>1
    <3> QED
      BY <3>1, <3>2, <3>3, <3>4
  <2> QED
    BY <2>1, <2>2
<1> HIDE DEF G
<1>3. S \in G
  BY <1>1, <1>2, FiniteInduction
<1>4. \E x \in S : \A y \in S : x <= y
  BY <1>3 DEF G
<1> QED
  BY <1>4 DEF Min

\* clusters that share no node
Apart(m) == \A c, d \in m : c # d => c \cap d = {}

\* finitely many finite clusters, none empty and no two with a common node
Clusters(m) ==
    /\ IsFiniteSet(m) /\ Apart(m)
    /\ \A c \in m : c \in SUBSET Int /\ c # {} /\ IsFiniteSet(c)

LEMMA SomeClusters == ASSUME NEW m, Clusters(m), NEW k \in SUBSET m PROVE Clusters(k)
  BY FS_Subset DEF Clusters, Apart

LEMMA LeastNode ==
    ASSUME NEW m, Clusters(m), NEW c \in m PROVE Min(c) \in c /\ Min(c) \in Int
  BY LeastOfFinite DEF Clusters

\* A cluster with a smaller least node comes before.
LEMMA RankGrows ==
    ASSUME NEW m, Clusters(m), NEW c \in m, NEW d \in m, Min(c) < Min(d)
    PROVE  Rank(c, m) < Rank(d, m)
<1> DEFINE C == {e \in m : Min(e) < Min(c)}
           D == {e \in m : Min(e) < Min(d)}
<1>0. \A e \in m : Min(e) \in Int
  BY LeastNode
<1>1. C \in SUBSET D /\ c \in D /\ c \notin C
  BY <1>0
<1>2. IsFiniteSet(D)
  BY FS_Subset DEF Clusters
<1>3. Cardinality(C) <= Cardinality(D) /\ Cardinality(C) # Cardinality(D)
  BY <1>1, <1>2, FS_Subset
<1>4. Cardinality(C) \in Nat /\ Cardinality(D) \in Nat
  BY <1>1, <1>2, FS_Subset, FS_CardinalityType
<1>5. Rank(c, m) = Cardinality(C) /\ Rank(d, m) = Cardinality(D)
  BY DEF Rank
<1> HIDE DEF C, D
<1> QED
  BY <1>3, <1>4, <1>5

\* No two clusters have the same position.
LEMMA RankTellsApart ==
    ASSUME NEW m, Clusters(m), NEW c \in m, NEW d \in m, Rank(c, m) = Rank(d, m)
    PROVE  c = d
<1>1. Rank(c, m) \in Nat /\ Rank(d, m) \in Nat
  BY RankType DEF Clusters
<1>2. Min(c) \in Int /\ Min(d) \in Int /\ Min(c) \in c /\ Min(d) \in d
  BY LeastNode
<1>3. ~(Min(c) < Min(d)) /\ ~(Min(d) < Min(c))
  BY <1>1, RankGrows
<1>4. Min(c) = Min(d)
  BY <1>2, <1>3
<1> QED
  BY <1>2, <1>4 DEF Clusters, Apart

LEMMA PartitionCovers ==
    ASSUME NEW S, NEW P \in Partitions(S)
    PROVE  Apart(P) /\ UNION P = S
<1>1. PICK f \in [S -> S] : P = {{x \in S : f[x] = f[y]} : y \in S}
  BY DEF Partitions
<1>2. Apart(P)
  <2>1. ASSUME NEW c \in P, NEW d \in P, NEW x \in c \cap d PROVE c = d
    <3>1. PICK y \in S : c = {z \in S : f[z] = f[y]}
      BY <1>1
    <3>2. PICK w \in S : d = {z \in S : f[z] = f[w]}
      BY <1>1
    <3> QED
      BY <2>1, <3>1, <3>2
  <2> QED
    BY <2>1 DEF Apart
<1>3. \A x \in S : x \in {z \in S : f[z] = f[x]}
  OBVIOUS
<1>4. UNION P = S
  <2>1. ASSUME NEW c \in P PROVE c \subseteq S
    <3>1. PICK y \in S : c = {z \in S : f[z] = f[y]}
      BY <1>1
    <3> QED
      BY <3>1
  <2>2. ASSUME NEW x \in S PROVE x \in UNION P
    <3>1. {z \in S : f[z] = f[x]} \in P
      BY <1>1
    <3> QED
      BY <1>3, <3>1
  <2> QED
    BY <2>1, <2>2
<1> QED
  BY <1>2, <1>4

\* What is true of an answer of the clustering step: clusters share no node; the
\* method that puts isolated nodes back has fewer clusters than nodes, not only
\* singletons, and all nodes in them; the other one leaves isolated nodes out.
Sound(a, nodes) ==
    /\ Apart(a.clusters)
    /\ ~Backfill => \A n \in a.isolated : {n} \notin a.clusters
    /\ Backfill /\ a # NoPartition => IsEffective(a.clusters, nodes) /\ UNION a.clusters = nodes

LEMMA LeidenIsSound ==
    ASSUME NEW g, IsFiniteSet(g.nodes), NEW a \in LeidenAnswers(g)
    PROVE  Sound(a, g.nodes)
<1>0. Backfill \in BOOLEAN
  BY FlagsAssumption
<1>1. CASE Backfill /\ a = NoPartition
  BY <1>1 DEF Sound, NoPartition, Apart
<1>2. CASE \E isolated \in SUBSET g.nodes : \E P \in Partitions(g.nodes \ isolated) :
             LET clusters == IF Backfill THEN P \cup {{n} : n \in isolated} ELSE P
             IN  /\ a = [clusters |-> clusters, isolated |-> isolated]
                 /\ Backfill => IsEffective(clusters, g.nodes)
  <2>1. PICK isolated \in SUBSET g.nodes : \E P \in Partitions(g.nodes \ isolated) :
             LET clusters == IF Backfill THEN P \cup {{n} : n \in isolated} ELSE P
             IN  /\ a = [clusters |-> clusters, isolated |-> isolated]
                 /\ Backfill => IsEffective(clusters, g.nodes)
    BY <1>2
  <2>2. PICK P \in Partitions(g.nodes \ isolated) :
             LET clusters == IF Backfill THEN P \cup {{n} : n \in isolated} ELSE P
             IN  /\ a = [clusters |-> clusters, isolated |-> isolated]
                 /\ Backfill => IsEffective(clusters, g.nodes)
    BY <2>1
  <2>3. Apart(P) /\ UNION P = g.nodes \ isolated
    BY PartitionCovers
  <2>4. \A n \in isolated : {n} \notin P
    BY <2>3
  <2>5. Apart(P \cup {{n} : n \in isolated})
    <3>1. \A c \in P : \A n \in isolated : n \notin c
      BY <2>3
    <3> QED
      BY <2>3, <3>1 DEF Apart
  <2>6. UNION (P \cup {{n} : n \in isolated}) = g.nodes
    BY <2>1, <2>3
  <2>7. CASE Backfill
    BY <2>2, <2>5, <2>6, <2>7 DEF Sound
  <2>8. CASE ~Backfill
    BY <2>2, <2>3, <2>4, <2>8 DEF Sound
  <2> QED
    BY <1>0, <2>7, <2>8
<1>3. (Backfill /\ a = NoPartition) \/
      \E isolated \in SUBSET g.nodes : \E P \in Partitions(g.nodes \ isolated) :
             LET clusters == IF Backfill THEN P \cup {{n} : n \in isolated} ELSE P
             IN  /\ a = [clusters |-> clusters, isolated |-> isolated]
                 /\ Backfill => IsEffective(clusters, g.nodes)
  BY DEF LeidenAnswers
<1> QED
  BY <1>1, <1>2, <1>3

--------------------------------------------------------------------------------
(***************************************************************************)
(* New ids.                                                                *)
(***************************************************************************)
LEMMA ImageSize ==
    ASSUME NEW S, IsFiniteSet(S), NEW f, \A x, y \in S : f[x] = f[y] => x = y
    PROVE  Cardinality({f[x] : x \in S}) = Cardinality(S)
<1> DEFINE T == {f[x] : x \in S}
           g == [x \in S |-> f[x]]
<1>1. g \in Injection(S, T) /\ g \in Surjection(S, T)
  BY DEF Injection, Surjection, IsInjective
<1>2. ExistsBijection(S, T)
  BY <1>1 DEF ExistsBijection, Bijection
<1> QED
  BY <1>2, FS_Bijection

\* The next id is above every id there is, unless there are ids and none is numeric.
LEMMA CurMaxIdAbove ==
    ASSUME NEW rows, FiniteRows(rows)
    PROVE  \/ CurMaxId(rows) \in Nat /\ \A r \in rows : r.id < CurMaxId(rows)
           \/ CurMaxId(rows) = NanId /\ rows # {} /\ \A r \in rows : ~IsNumeric(r.id)
<1>1. CASE rows = {}
  BY <1>1 DEF CurMaxId
<1>2. CASE rows # {} /\ NumericIds(rows) = {}
  BY <1>2 DEF CurMaxId, NumericIds
<1>3. CASE rows # {} /\ NumericIds(rows) # {}
  <2>1. /\ NumericIds(rows) \in SUBSET Nat /\ Max(NumericIds(rows)) \in Nat
        /\ \A n \in NumericIds(rows) : Max(NumericIds(rows)) >= n
    BY <1>3, NumericIdsType, GreatestExists
  <2>2. CurMaxId(rows) = Max(NumericIds(rows)) + 1
    BY <1>3 DEF CurMaxId
  <2> DEFINE max == Max(NumericIds(rows))
  <2>3. ASSUME NEW r \in rows PROVE r.id < CurMaxId(rows)
    <3>1. r.id \in Int
      BY DEF FiniteRows, Row
    <3>2. max \in Nat /\ CurMaxId(rows) = max + 1 /\ \A n \in NumericIds(rows) : max >= n
      BY <2>1, <2>2
    <3> HIDE DEF max
    <3>3. CASE r.id >= 0
      <4>1. r.id \in NumericIds(rows)
        BY <3>3 DEF NumericIds, IsNumeric
      <4> QED
        BY <3>1, <3>2, <4>1
    <3>4. CASE r.id < 0
      BY <3>1, <3>2, <3>4
    <3> QED
      BY <3>1, <3>3, <3>4
  <2> QED
    BY <2>1, <2>2, <2>3
<1> QED
  BY <1>1, <1>2, <1>3

LEMMA AnswerClusters ==
    ASSUME NEW nodes \in SUBSET Int, IsFiniteSet(nodes), NEW a, Answer(a, nodes), Sound(a, nodes)
    PROVE  Clusters(a.clusters)
  BY FS_Subset DEF Answer, Sound, Clusters

\* f gives every cluster its community: with an id of its own, above all ids there are
\* if this is not the first level.
Names(f, lvl, a, g, rows) ==
    /\ Resized(lvl, a, g, rows) = {f[c] : c \in a.clusters}
    /\ \A c, d \in a.clusters : f[c].id = f[d].id => c = d
    /\ \A c \in a.clusters :
          /\ f[c].id \in Int
          /\ f[c].id # NanId
          /\ lvl # 1 \/ ~Backfill => IsNumeric(f[c].id)
          /\ (\A n \in a.isolated : c # {n}) => IsNumeric(f[c].id)
          /\ lvl # 1 => \A r \in rows : r.id < f[c].id
          /\ f[c].nodes = IF lvl = 1 THEN c ELSE CommunityNodes(c, g.kind, rows)

\* Every cluster gets an id of its own: on the first level that of the cluster or of
\* the isolated node in it, above one that no row has, if there is a next one.
LEMMA ResizedNames ==
    ASSUME NEW lvl, NEW g, g.nodes \in SUBSET Int, IsFiniteSet(g.nodes),
           NEW rows, FiniteRows(rows), NEW a, Answer(a, g.nodes), Sound(a, g.nodes),
           lvl = 1 => g.nodes = Entities,
           lvl # 1 => CurMaxId(rows) # NanId
    PROVE  \E f : Names(f, lvl, a, g, rows)
<1>0. Clusters(a.clusters)
  BY AnswerClusters
<1>1. CASE lvl = 1
  <2> DEFINE named == {c \in a.clusters : ~ \E n \in a.isolated : c = {n}}
             f == [c \in a.clusters |-> [id |-> IF c \in named THEN Rank(c, named)
                                                ELSE IsolatedId(Min(c)), nodes |-> c]]
  <2>1. Clusters(named) /\ IsFiniteSet(named)
    BY <1>0, SomeClusters DEF Clusters
  <2>2. Resized(lvl, a, g, rows) = {f[c] : c \in a.clusters}
    <3> DEFINE p == [c \in named |-> [id |-> Rank(c, named), nodes |-> c]]
               q == [c \in a.clusters \ named |-> [id |-> IsolatedId(Min(c)), nodes |-> c]]
    <3>1. Resized(lvl, a, g, rows) = {p[c] : c \in named} \cup {q[c] : c \in a.clusters \ named}
      BY <1>1 DEF Resized
    <3>2. \A c \in named : f[c] = p[c]
      OBVIOUS
    <3>3. \A c \in a.clusters \ named : f[c] = q[c]
      OBVIOUS
    <3>4. named \subseteq a.clusters
      OBVIOUS
    <3> HIDE DEF f, p, q, named
    <3>5. ASSUME NEW x PROVE x \in Resized(lvl, a, g, rows) <=> x \in {f[c] : c \in a.clusters}
      BY <3>1, <3>2, <3>3, <3>4
    <3> QED
      BY <3>5
  <2>3. \A c \in named : f[c].id = Rank(c, named) /\ Rank(c, named) \in Nat
    BY <2>1, RankType
  <2>4. ASSUME NEW c \in a.clusters \ named
        PROVE  Min(c) \in Nat /\ Min(c) \in c /\ f[c].id = -2 - Min(c) /\ c = {Min(c)}
               /\ Backfill
    <3>1. Min(c) \in c
      BY <1>0, LeastNode
    <3>2. Min(c) \in Nat
      BY <1>1, <3>1, EntitiesAssumption DEF Answer
    <3>3. PICK n \in a.isolated : c = {n}
      OBVIOUS
    <3>4. Backfill
      BY <3>3, FlagsAssumption DEF Sound
    <3> QED
      BY <3>1, <3>2, <3>3, <3>4 DEF IsolatedId
  <2>5. ASSUME NEW c \in a.clusters, NEW d \in a.clusters, f[c].id = f[d].id PROVE c = d
    <3>1. CASE c \in named /\ d \in named
      BY <2>1, <2>3, <2>5, <3>1, RankTellsApart
    <3>2. CASE c \notin named /\ d \notin named
      <4>1. f[c].id = -2 - Min(c) /\ f[d].id = -2 - Min(d) /\ Min(c) \in Nat /\ Min(d) \in Nat
            /\ c = {Min(c)} /\ d = {Min(d)}
        BY <2>4, <3>2
      <4>2. Min(c) = Min(d)
        BY <2>5, <4>1
      <4> QED
        BY <4>1, <4>2
    <3>3. CASE c \in named /\ d \notin named
      <4>1. f[d].id = -2 - Min(d) /\ Min(d) \in Nat /\ f[c].id \in Nat
        BY <2>3, <2>4, <3>3
      <4> QED
        BY <2>5, <4>1
    <3>4. CASE c \notin named /\ d \in named
      <4>1. f[c].id = -2 - Min(c) /\ Min(c) \in Nat /\ f[d].id \in Nat
        BY <2>3, <2>4, <3>4
      <4> QED
        BY <2>5, <4>1
    <3> QED
      BY <3>1, <3>2, <3>3, <3>4
  <2>6. ASSUME NEW c \in a.clusters
        PROVE  /\ f[c].id \in Int
               /\ f[c].id # NanId
               /\ ~Backfill => IsNumeric(f[c].id)
               /\ (\A n \in a.isolated : c # {n}) => IsNumeric(f[c].id)
               /\ f[c].nodes = c
    <3>1. CASE c \in named
      <4>1. f[c].id \in Nat /\ f[c].nodes = c
        BY <2>3, <3>1
      <4> QED
        BY <4>1 DEF IsNumeric, NanId
    <3>2. CASE c \notin named
      <4>1. f[c].id = -2 - Min(c) /\ Min(c) \in Nat /\ f[c].nodes = c /\ Backfill
            /\ \E n \in a.isolated : c = {n}
        BY <2>4, <3>2
      <4>2. f[c].id \in Int /\ f[c].id # NanId
        BY <4>1 DEF NanId
      <4> HIDE DEF f
      <4> QED
        BY <4>1, <4>2
    <3> QED
      BY <3>1, <3>2
  <2> HIDE DEF f
  <2> QED
    BY <1>1, <2>2, <2>5, <2>6 DEF Names
<1>2. CASE lvl # 1
  <2> DEFINE cur == CurMaxId(rows)
             f == [c \in a.clusters |-> [id |-> cur + Rank(c, a.clusters),
                                         nodes |-> CommunityNodes(c, g.kind, rows)]]
  <2>1. cur \in Nat /\ \A r \in rows : r.id < cur /\ r.id \in Int
    BY <1>2, CurMaxIdAbove DEF FiniteRows, Row
  <2>2. Resized(lvl, a, g, rows) = {f[c] : c \in a.clusters}
    BY <1>2 DEF Resized
  <2>3. \A c \in a.clusters : f[c].id = cur + Rank(c, a.clusters)
        /\ f[c].nodes = CommunityNodes(c, g.kind, rows)
    OBVIOUS
  <2>4. \A c \in a.clusters : Rank(c, a.clusters) \in Nat
    BY <1>0, RankType DEF Clusters
  <2> HIDE DEF f, cur
  <2>5. ASSUME NEW c \in a.clusters, NEW d \in a.clusters, f[c].id = f[d].id PROVE c = d
    <3>1. Rank(c, a.clusters) = Rank(d, a.clusters)
      BY <2>1, <2>3, <2>4, <2>5
    <3> QED
      BY <1>0, <3>1, RankTellsApart
  <2>6. ASSUME NEW c \in a.clusters
        PROVE  /\ f[c].id \in Int /\ f[c].id # NanId /\ IsNumeric(f[c].id)
               /\ \A r \in rows : r.id < f[c].id
    <3>1. f[c].id \in Nat /\ f[c].id >= cur
      BY <2>1, <2>3, <2>4
    <3> QED
      BY <2>1, <3>1 DEF IsNumeric, NanId
  <2> QED
    BY <1>2, <2>2, <2>3, <2>5, <2>6 DEF Names
<1> QED
  BY <1>1, <1>2

\* Without a next id all clusters become one community, under the id "nan".
LEMMA ResizedNan ==
    ASSUME NEW lvl, lvl # 1, NEW g, g.nodes \in SUBSET Int, IsFiniteSet(g.nodes),
           NEW rows, FiniteRows(rows), NEW a, Answer(a, g.nodes), Sound(a, g.nodes),
           CurMaxId(rows) = NanId
    PROVE  \A x, y \in Resized(lvl, a, g, rows) :
              /\ x = y /\ x.id = NanId
              /\ \E c \in a.clusters : x.nodes = CommunityNodes(c, g.kind, rows)
<1> DEFINE last == {c \in a.clusters : \A d \in a.clusters :
                       Rank(d, a.clusters) <= Rank(c, a.clusters)}
<1>0. Clusters(a.clusters)
  BY AnswerClusters
<1>1. Resized(lvl, a, g, rows)
        = {[id |-> NanId, nodes |-> CommunityNodes(c, g.kind, rows)] : c \in last}
  BY DEF Resized
<1>2. ASSUME NEW c \in last, NEW d \in last PROVE c = d
  <2>1. Rank(c, a.clusters) \in Nat /\ Rank(d, a.clusters) \in Nat
    BY <1>0, RankType DEF Clusters
  <2>2. Rank(c, a.clusters) <= Rank(d, a.clusters) /\ Rank(d, a.clusters) <= Rank(c, a.clusters)
    OBVIOUS
  <2> QED
    BY <1>0, <2>1, <2>2, RankTellsApart
<1>3. last \subseteq a.clusters
  OBVIOUS
<1> HIDE DEF last
<1> QED
  BY <1>1, <1>2, <1>3

--------------------------------------------------------------------------------
(***************************************************************************)
(* The ids of a level.                                                     *)
(***************************************************************************)
Distinct(rows) == \A r, s \in rows : r.id = s.id => r = s
OneKind(rows) == \A r, s \in rows : r.kind = s.kind
Below(low, high) == \A r \in low : \A s \in high : r.id < s.id

\* The ids of one level: all different; "nan" is alone and not on the first level; the
\* ids of isolated nodes are on the first level only, if anywhere.
Numbered(l, rows) ==
    /\ Distinct(rows)
    /\ \A r, s \in rows : r.id = NanId => s.id = NanId
    /\ \A r \in rows : /\ r.id \in Int
                       /\ l = 1 => r.id # NanId
                       /\ l # 1 => r.id >= NanId
                       /\ ~Backfill => IsNumeric(r.id)

\* ... in one column, which has one type.
LevelTable(l, rows) == Numbered(l, rows) /\ OneKind(rows)

LEMMA PartOfTable ==
    ASSUME NEW l, NEW rows, LevelTable(l, rows), NEW part \in SUBSET rows
    PROVE  LevelTable(l, part)
  BY DEF LevelTable, Numbered, Distinct, OneKind

LEMMA LoadedDistinct ==
    ASSUME NEW rows, FiniteRows(rows), Distinct(rows) PROVE Distinct(LoadCsv(rows))
<1>1. CASE LoadCsv(rows) = rows
  BY <1>1
<1>2. CASE LoadCsv(rows) = {[r EXCEPT !.kind = "int"] : r \in rows}
  <2> DEFINE f == [r \in rows |-> [r EXCEPT !.kind = "int"]]
  <2>1. \A r \in rows : f[r].id = r.id
    BY DEF FiniteRows, Row
  <2>2. LoadCsv(rows) = {f[r] : r \in rows}
    BY <1>2
  <2> HIDE DEF f
  <2> QED
    BY <2>1, <2>2 DEF Distinct
<1> QED
  BY <1>1, <1>2 DEF LoadCsv

LEMMA LoadedTable ==
    ASSUME NEW l, NEW rows, FiniteRows(rows), LevelTable(l, rows)
    PROVE  LevelTable(l, LoadCsv(rows))
<1>1. CASE LoadCsv(rows) = rows
  BY <1>1
<1>2. CASE LoadCsv(rows) = {[r EXCEPT !.kind = "int"] : r \in rows}
  <2>1. \A r \in rows : [r EXCEPT !.kind = "int"].id = r.id /\ [r EXCEPT !.kind = "int"].kind = "int"
    BY DEF FiniteRows, Row
  <2>2. Distinct(LoadCsv(rows))
    BY LoadedDistinct DEF LevelTable, Numbered
  <2>3. OneKind(LoadCsv(rows))
    BY <1>2, <2>1 DEF OneKind
  <2>4. \A q \in LoadCsv(rows) : \E r \in rows : q.id = r.id
    BY <1>2, <2>1
  <2>5. Numbered(l, LoadCsv(rows))
    BY <2>2, <2>4 DEF LevelTable, Numbered
  <2> QED
    BY <2>3, <2>5 DEF LevelTable
<1> QED
  BY <1>1, <1>2 DEF LoadCsv

\* A row is in two tables that are the same but for the types.
LEMMA SameRow ==
    ASSUME NEW A, NEW B, Untyped(A) = Untyped(B), NEW r \in A
    PROVE  \E s \in B : s.id = r.id /\ s.nodes = r.nodes /\ s.level = r.level /\ s.rating = r.rating
<1>1. [id |-> r.id, nodes |-> r.nodes, level |-> r.level, rating |-> r.rating] \in Untyped(B)
  BY DEF Untyped
<1>2. PICK s \in B : [id |-> r.id, nodes |-> r.nodes, level |-> r.level, rating |-> r.rating]
                       = [id |-> s.id, nodes |-> s.nodes, level |-> s.level, rating |-> s.rating]
  BY <1>1 DEF Untyped
<1> QED
  BY <1>2

\* Each community is reported on in one row, under its id.
LEMMA ReportedTable ==
    ASSUME NEW lvl, NEW cs, Numbered(lvl, cs), NEW rows \in Reports(lvl, cs)
    PROVE  /\ LevelTable(lvl, rows)
           /\ \A r \in rows : \E c \in cs : r.id = c.id /\ r.nodes = c.nodes
           /\ \A c \in cs : \E r \in rows : r.id = c.id /\ r.nodes = c.nodes
<1>1. PICK rating \in [cs -> Ratings \cup {NoRating}] :
         rows = {[id |-> c.id, kind |-> "str", level |-> lvl, nodes |-> c.nodes,
                  rating |-> rating[c]] : c \in cs}
  BY DEF Reports
<1> DEFINE f == [c \in cs |-> [id |-> c.id, kind |-> "str", level |-> lvl, nodes |-> c.nodes,
                               rating |-> rating[c]]]
<1>2. rows = {f[c] : c \in cs}
  BY <1>1
<1>3. \A c \in cs : f[c].id = c.id /\ f[c].kind = "str" /\ f[c].nodes = c.nodes
  OBVIOUS
<1> HIDE DEF f
<1>4. Distinct(rows)
  BY <1>2, <1>3 DEF Numbered, Distinct
<1>5. OneKind(rows)
  BY <1>2, <1>3 DEF OneKind
<1>6. Numbered(lvl, rows)
  BY <1>2, <1>3, <1>4 DEF Numbered
<1> QED
  BY <1>2, <1>3, <1>5, <1>6 DEF LevelTable

--------------------------------------------------------------------------------
(***************************************************************************)
(* Ids grow from level to level.                                           *)
(***************************************************************************)
FilesGrow ==
    /\ \A l \in Levels : tmp[l] # NoFile => LevelTable(l, tmp[l])
    /\ \A l, m \in Levels : l < m /\ tmp[m] # NoFile => tmp[l] # NoFile /\ Below(tmp[l], tmp[m])

MemoryGrows ==
    /\ Distinct(communityDf)
    /\ intermediate # NoFile => Distinct(intermediate)
    /\ pc \in Clustering => \A l \in Levels : LevelTable(l, LevelRows(l, communityDf))
    /\ pc \in {"save", "saveFinal"} => LevelTable(level, newDf) /\ Below(communityDf, newDf)
    /\ pc = "saveFinal" => tmp[level] = NoFile
    /\ pc = "save" /\ tmp[level] # NoFile => Untyped(newDf) = Untyped(tmp[level])

\* The graph of a level has the communities of the level below as its nodes.
GraphBelow ==
    pc \in {"cluster", "report"} /\ level > 1 =>
        LET rows == LevelRows(level - 1, communityDf)
        IN  graph.nodes = {r.id : r \in rows} /\ \A r \in rows : r.kind = graph.kind

AnswersSound ==
    /\ \A a \in leiden : Sound(a.answer, a.key[2])
    /\ pc = "report" => Sound(cnMapping, graph.nodes) /\ (Backfill => cnMapping # NoPartition)

IdsInv == PlaceInv /\ FilesGrow /\ MemoryGrows /\ GraphBelow /\ AnswersSound

\* If no id below is numeric, there are only ids of isolated nodes: under the id "nan"
\* the graph has one node, and one node has no effective partition.
LEMMA NoNanBelow ==
    ASSUME IdsInv, pc = "report", level # 1, cnMapping.clusters # {}, NEW r \in communityDf
    PROVE  /\ ~Backfill => IsNumeric(r.id)
           /\ r.level = level - 1 => r.id # NanId
           /\ r.id = NanId => \E s \in communityDf : IsNumeric(s.id)
<1>1. level \in Levels /\ r \in Row /\ r.level < level /\ r.level \in Levels
  BY DEF IdsInv, PlaceInv, TypeInv, ControlTyped, MemoryTyped, LevelsInPlace, Clustering, Tables, Row
<1>2. level \in Nat /\ level > 1 /\ level - 1 \in Levels /\ level - 1 \in Nat /\ r.level \in Nat
      /\ r.id \in Int
  BY <1>1, BoundsAssumption DEF Levels, Row
<1>3. \A l \in Levels : LevelTable(l, LevelRows(l, communityDf))
  BY DEF IdsInv, MemoryGrows, Clustering
<1>4. r \in LevelRows(r.level, communityDf)
  BY DEF LevelRows
<1>5. ~Backfill => IsNumeric(r.id)
  BY <1>1, <1>3, <1>4 DEF LevelTable, Numbered
<1> DEFINE below == LevelRows(level - 1, communityDf)
<1>6. graph.nodes = {s.id : s \in below}
  BY <1>2 DEF IdsInv, GraphBelow
<1>7. /\ Answer(cnMapping, graph.nodes) /\ IsFiniteSet(graph.nodes)
      /\ Sound(cnMapping, graph.nodes) /\ (Backfill => cnMapping # NoPartition)
  BY DEF IdsInv, PlaceInv, TypeInv, ControlTyped, MemoryTyped, AnswersSound
<1>8. r.level = level - 1 => r.id # NanId
  <2> SUFFICES ASSUME r.level = level - 1, r.id = NanId PROVE FALSE
    OBVIOUS
  <2>1. CASE ~Backfill
    BY <1>5, <2>1 DEF IsNumeric, NanId
  <2>2. CASE Backfill
    <3>1. \A s \in below : s.id = NanId
      BY <1>2, <1>3, <1>4 DEF LevelTable, Numbered
    <3>2. graph.nodes = {NanId}
      BY <1>4, <1>6, <3>1
    <3>3. Cardinality(graph.nodes) = 1
      BY <3>2, FS_Singleton
    <3>4. IsFiniteSet(cnMapping.clusters) /\ Cardinality(cnMapping.clusters) < Cardinality(graph.nodes)
      BY <1>7, <2>2 DEF Sound, IsEffective, Answer
    <3>5. Cardinality(cnMapping.clusters) = 0
      BY <3>3, <3>4, FS_CardinalityType
    <3> QED
      BY <3>4, <3>5, FS_EmptySet
  <2> QED
    BY <2>1, <2>2
<1>9. ASSUME r.id = NanId PROVE \E s \in communityDf : IsNumeric(s.id)
  <2>1. PICK c \in cnMapping.clusters : c # {} /\ c \in SUBSET graph.nodes
    BY <1>7 DEF Answer
  <2>2. PICK s \in below : TRUE
    BY <1>6, <2>1
  <2>3. s \in communityDf /\ s.level = level - 1
    BY <2>2 DEF LevelRows
  <2>4. r.level < level - 1 /\ s.id \in Int
    BY <1>2, <1>1, <1>3, <1>8, <1>9, <2>2 DEF LevelTable, Numbered
  <2>5. /\ tmp[level - 1] # NoFile /\ Untyped(below) = Untyped(tmp[level - 1])
        /\ tmp[r.level] # NoFile
        /\ Untyped(LevelRows(r.level, communityDf)) = Untyped(tmp[r.level])
    <3>1. r.level \in 1 .. level - 1 /\ level - 1 \in 1 .. level - 1
      BY <1>1, <1>2 DEF Levels
    <3> QED
      BY <3>1 DEF IdsInv, PlaceInv, MemoryMatchesFiles
  <2>6. PICK rr \in tmp[r.level] : rr.id = r.id
    <3> DEFINE rows == LevelRows(r.level, communityDf)
               file == tmp[r.level]
    <3>1. r \in rows /\ Untyped(rows) = Untyped(file)
      BY <1>4, <2>5 DEF LevelRows
    <3> HIDE DEF rows, file
    <3>2. \E rr \in file : rr.id = r.id
      BY <3>1, SameRow
    <3> QED
      BY <3>2 DEF file
  <2>7. PICK ss \in tmp[level - 1] : ss.id = s.id
    <3> DEFINE file == tmp[level - 1]
    <3>1. s \in below /\ Untyped(below) = Untyped(file)
      BY <2>2, <2>5
    <3> HIDE DEF below, file
    <3>2. \E ss \in file : ss.id = s.id
      BY <3>1, SameRow
    <3> QED
      BY <3>2 DEF file
  <2>8. rr.id < ss.id
    BY <1>1, <1>2, <2>4, <2>5, <2>6, <2>7 DEF IdsInv, FilesGrow, Below
  <2>9. IsNumeric(s.id)
    BY <1>9, <2>4, <2>6, <2>7, <2>8 DEF IsNumeric, NanId
  <2> QED
    BY <2>3, <2>9
<1> QED
  BY <1>5, <1>8, <1>9

\* The communities to report on have ids of their own, above those of the levels below.
LEMMA ResizedNumbered ==
    ASSUME IdsInv, pc = "report", cnMapping.clusters # {}
    PROVE  LET cs == Resized(level, cnMapping, graph, communityDf)
           IN  Numbered(level, cs) /\ Below(communityDf, cs)
<1> DEFINE cs == Resized(level, cnMapping, graph, communityDf)
<1>1. /\ graph.nodes \in SUBSET Int /\ IsFiniteSet(graph.nodes) /\ FiniteRows(communityDf)
      /\ Answer(cnMapping, graph.nodes) /\ Sound(cnMapping, graph.nodes)
      /\ (level = 1 => graph.nodes = Entities) /\ level \in Levels
  BY TablesAreRows
     DEF IdsInv, PlaceInv, TypeInv, ControlTyped, MemoryTyped, AnswersSound
<1>2. ASSUME level # 1 => CurMaxId(communityDf) # NanId PROVE \E f : Names(f, level, cnMapping, graph, communityDf)
  BY <1>1, <1>2, ResizedNames
<1>3. CASE level = 1
  <2>1. communityDf = {}
    <3>1. \A r \in communityDf : r.level < 1 /\ r.level \in Levels
      BY <1>1, <1>3 DEF IdsInv, PlaceInv, LevelsInPlace, Clustering, FiniteRows, Row
    <3> QED
      BY <3>1, BoundsAssumption DEF Levels
  <2>2. PICK f : Names(f, level, cnMapping, graph, communityDf)
    BY <1>3, <1>2
  <2>3. Numbered(level, cs)
    BY <1>3, <2>2 DEF Names, Numbered, Distinct
  <2> QED
    BY <2>1, <2>3 DEF Below
<1>4. CASE level # 1 /\ CurMaxId(communityDf) # NanId
  <2>1. PICK f : Names(f, level, cnMapping, graph, communityDf)
    BY <1>4, <1>2
  <2>2. Numbered(level, cs)
    BY <1>4, <2>1 DEF Names, Numbered, Distinct, IsNumeric, NanId
  <2>3. Below(communityDf, cs)
    BY <1>4, <2>1 DEF Names, Below
  <2> QED
    BY <2>2, <2>3
<1>5. CASE level # 1 /\ CurMaxId(communityDf) = NanId
  <2>1. \A x, y \in cs : x = y /\ x.id = NanId
    BY <1>1, <1>5, ResizedNan
  <2>2. communityDf # {} /\ \A r \in communityDf : ~IsNumeric(r.id)
    BY <1>1, <1>5, CurMaxIdAbove DEF NanId
  <2>3. Backfill /\ \A r \in communityDf : r.id # NanId /\ r.id \in Int
    BY <1>1, <1>5, <2>2, NoNanBelow DEF FiniteRows, Row
  <2> HIDE DEF cs
  <2>4. Numbered(level, cs)
    BY <1>5, <2>1, <2>3 DEF Numbered, Distinct, NanId
  <2>5. Below(communityDf, cs)
    BY <2>1, <2>2, <2>3 DEF Below, NanId, IsNumeric
  <2> QED
    BY <2>4, <2>5 DEF cs
<1> QED
  BY <1>3, <1>4, <1>5

LEMMA EmptyTableNumbered == \A l : LevelTable(l, {})
  BY DEF LevelTable, Numbered, Distinct, OneKind

\* What the clustering step answers is sound, also when it is an old answer.
LEMMA NextSound == ASSUME TypeInv, AnswersSound, [Next]_vars PROVE AnswersSound'
<1>1. CASE Cluster
  <2>1. PICK answer \in IF Remembered # {} THEN {a.answer : a \in Remembered}
                        ELSE LeidenAnswers(graph) :
           /\ leiden' = leiden \cup {[key |-> LeidenKey, answer |-> answer]}
           /\ cnMapping' = answer
           /\ Backfill /\ answer = NoPartition => pc' = "finish"
    BY <1>1 DEF Cluster
  <2>2. Sound(answer, graph.nodes)
    <3>1. CASE Remembered # {}
      <4>1. PICK a \in leiden : a.key = LeidenKey /\ a.answer = answer
        BY <2>1, <3>1 DEF Remembered
      <4>2. a.key[2] = graph.nodes
        BY <4>1 DEF LeidenKey
      <4> QED
        BY <4>1, <4>2 DEF AnswersSound
    <3>2. CASE Remembered = {}
      BY <2>1, <3>2, LeidenIsSound DEF TypeInv, MemoryTyped
    <3> QED
      BY <3>1, <3>2
  <2>3. graph' = graph
    BY <1>1 DEF Cluster
  <2>4. \A a \in leiden' : Sound(a.answer, a.key[2])
    BY <2>1, <2>2 DEF AnswersSound, LeidenKey
  <2>5. pc' = "report" => Sound(cnMapping', graph'.nodes) /\ (Backfill => cnMapping' # NoPartition)
    BY <2>1, <2>2, <2>3
  <2> QED
    BY <2>4, <2>5 DEF AnswersSound
<1>2. CASE ~Cluster
  <2>1. leiden' = leiden
    BY <1>2 DEF Next, Step, StartFresh, StartResume, Crash, TornSave, LevelLimit, LeidenFails,
       NoCommunities, Report, SkipFinal, LoadLevel, SaveFinal, StopOnQuality, SaveLevel, Finish,
       vars
  <2>2. pc' # "report" \/ (pc = "report" /\ UNCHANGED <<cnMapping, graph>>)
    BY <1>2 DEF Next, Step, StartFresh, StartResume, Crash, TornSave, LevelLimit, LeidenFails,
       NoCommunities, Report, SkipFinal, LoadLevel, SaveFinal, StopOnQuality, SaveLevel, Finish,
       vars, memory
  <2> QED
    BY <2>1, <2>2 DEF AnswersSound
<1> QED
  BY <1>1, <1>2

LEMMA NextGraphBelow == ASSUME IdsInv, [Next]_vars PROVE GraphBelow'
<1>1. CASE SaveLevel
  <2> DEFINE rows == Filtered(newDf)
  <2>1. /\ graph' = Reconstruct(rows) /\ communityDf' = communityDf \cup rows
        /\ level' = level + 1 /\ pc = "save"
    BY <1>1 DEF SaveLevel
  <2>2. /\ \A r \in newDf : r.level = level
        /\ \A r \in communityDf : r.level < level /\ r.level \in Nat
        /\ level \in Nat /\ newDf \in SUBSET Row /\ OneKind(newDf)
    BY <2>1, BoundsAssumption
       DEF IdsInv, PlaceInv, TypeInv, MemoryTyped, ControlTyped, LevelsInPlace, Clustering, Tables,
           Row, Levels, MemoryGrows, LevelTable
  <2>3. rows \subseteq newDf
    BY DEF Filtered, Rated
  <2> HIDE DEF rows
  <2>4. level' - 1 = level
    BY <2>1, <2>2
  <2>5. LevelRows(level, communityDf \cup rows) = rows
    BY <2>2, <2>3 DEF LevelRows
  <2>6. Reconstruct(rows).nodes = {r.id : r \in rows}
        /\ \A r \in rows : r.kind = Reconstruct(rows).kind
    <3>1. \A r \in rows : r.kind \in {"str", "int"}
      BY <2>2, <2>3 DEF Row, Kinds
    <3>2. \A r, s \in rows : r.kind = s.kind
      BY <2>2, <2>3 DEF OneKind
    <3> QED
      BY <3>1, <3>2 DEF Reconstruct
  <2> QED
    BY <2>1, <2>4, <2>5, <2>6 DEF GraphBelow
<1>2. CASE Cluster
  BY <1>2 DEF Cluster, GraphBelow, IdsInv, LevelRows
<1>3. CASE StartFresh
  BY <1>3 DEF StartFresh, FreshMemory, GraphBelow
<1>4. CASE UNCHANGED vars
  BY <1>4 DEF vars, memory, GraphBelow, IdsInv, LevelRows
<1>5. CASE ~SaveLevel /\ ~Cluster /\ ~StartFresh /\ ~UNCHANGED vars
  <2>1. pc' \notin {"cluster", "report"}
    BY <1>5 DEF Next, Step, StartFresh, StartResume, Crash, TornSave, LevelLimit, LeidenFails,
       NoCommunities, Report, SkipFinal, LoadLevel, SaveFinal, StopOnQuality, SaveLevel, Finish
  <2> QED
    BY <2>1 DEF GraphBelow
<1> QED
  BY <1>1, <1>2, <1>3, <1>4, <1>5

\* A row that was loaded is in the file.
LEMMA LoadedRow ==
    ASSUME IdsInv, pc \in {"save", "saveFinal"}, tmp[level] # NoFile, NEW r \in newDf
    PROVE  \E q \in tmp[level] : q.id = r.id
<1>1. Untyped(newDf) = Untyped(tmp[level])
  BY DEF IdsInv, MemoryGrows
<1> DEFINE file == tmp[level]
           rows == newDf
<1>2. Untyped(rows) = Untyped(file) /\ r \in rows
  BY <1>1
<1> HIDE DEF file, rows
<1>3. \E s \in file : s.id = r.id /\ s.nodes = r.nodes /\ s.level = r.level /\ s.rating = r.rating
  BY <1>2, SameRow
<1> QED
  BY <1>3 DEF file

\* The file of the level under way is written, or a part of it.
LEMMA WrittenGrows ==
    ASSUME NoFile \notin SUBSET Row, IdsInv, pc \in {"save", "saveFinal"}, NEW part \in SUBSET newDf,
           tmp' = [tmp EXCEPT ![level] = part]
    PROVE  FilesGrow'
<1>1. /\ level \in Levels /\ tmp \in [Levels -> {NoFile} \cup Tables]
      /\ LevelTable(level, newDf) /\ Below(communityDf, newDf)
      /\ FilesGrow /\ MemoryMatchesFiles /\ part # NoFile
  BY DEF IdsInv, PlaceInv, TypeInv, MemoryTyped, ControlTyped, DiskTyped, MemoryGrows, Tables
<1>2. LevelTable(level, part)
  BY <1>1, PartOfTable
<1>3. \A l \in Levels : l \in Nat
  BY BoundsAssumption DEF Levels
<1>4. \A l \in Levels : tmp'[l] = IF l = level THEN part ELSE tmp[l]
  BY <1>1
<1>5. ASSUME NEW l \in Levels, l < level PROVE tmp[l] # NoFile /\ Below(tmp[l], part)
  <2>1. l \in 1 .. level - 1
    BY <1>1, <1>5, BoundsAssumption DEF Levels
  <2>2. tmp[l] # NoFile /\ Untyped(LevelRows(l, communityDf)) = Untyped(tmp[l])
    BY <1>1, <2>1 DEF MemoryMatchesFiles
  <2>3. ASSUME NEW r \in tmp[l] PROVE \A s \in part : r.id < s.id
    <3>1. PICK q \in LevelRows(l, communityDf) : q.id = r.id
      BY <2>2, SameRow
    <3> QED
      BY <1>1, <3>1 DEF Below, LevelRows
  <2> QED
    BY <2>2, <2>3 DEF Below
<1>6. ASSUME NEW m \in Levels, level < m, tmp[m] # NoFile PROVE Below(part, tmp[m])
  <2>1. tmp[level] # NoFile /\ Below(tmp[level], tmp[m])
    BY <1>1, <1>6 DEF FilesGrow
  <2>2. Untyped(newDf) = Untyped(tmp[level])
    BY <2>1 DEF IdsInv, MemoryGrows
  <2>3. ASSUME NEW r \in part PROVE \A s \in tmp[m] : r.id < s.id
    <3>1. r \in newDf
      BY <2>3
    <3>2. PICK q \in tmp[level] : q.id = r.id
      BY <2>1, <3>1, LoadedRow
    <3> QED
      BY <2>1, <3>2 DEF Below
  <2> QED
    BY <2>3 DEF Below
<1>7. \A l \in Levels : tmp'[l] # NoFile => LevelTable(l, tmp'[l])
  BY <1>1, <1>2, <1>4 DEF FilesGrow
<1>8. ASSUME NEW l \in Levels, NEW m \in Levels, l < m, tmp'[m] # NoFile
      PROVE  tmp'[l] # NoFile /\ Below(tmp'[l], tmp'[m])
  <2>1. CASE m = level
    BY <1>3, <1>4, <1>5, <1>8, <2>1
  <2>2. CASE l = level
    BY <1>1, <1>3, <1>4, <1>6, <1>8, <2>2
  <2>3. CASE l # level /\ m # level
    BY <1>1, <1>4, <1>8, <2>3 DEF FilesGrow
  <2> QED
    BY <2>1, <2>2, <2>3
<1> QED
  BY <1>7, <1>8 DEF FilesGrow

LEMMA NextFilesGrow ==
    ASSUME NoFile \notin SUBSET Row, IdsInv, [Next]_vars PROVE FilesGrow'
<1>1. Filtered(newDf) \subseteq newDf
  BY DEF Filtered, Rated
<1>2. \/ tmp' = tmp
      \/ /\ pc \in {"save", "saveFinal"}
         /\ \E part \in SUBSET newDf : tmp' = [tmp EXCEPT ![level] = part]
  <2>1. CASE SaveFinal \/ SaveLevel \/ TornSave
    BY <1>1, <2>1 DEF SaveFinal, SaveLevel, TornSave
  <2>2. CASE ~SaveFinal /\ ~SaveLevel /\ ~TornSave
    BY <2>2 DEF Next, Step, StartFresh, StartResume, Crash, LevelLimit, Cluster, LeidenFails,
       NoCommunities, Report, SkipFinal, LoadLevel, StopOnQuality, Finish, disk, vars
  <2> QED
    BY <2>1, <2>2
<1>3. CASE tmp' = tmp
  BY <1>3 DEF IdsInv, FilesGrow
<1> QED
  BY <1>2, <1>3, WrittenGrows

LEMMA ReportMemory == ASSUME IdsInv, Report PROVE MemoryGrows'
<1> DEFINE cs == Resized(level, cnMapping, graph, communityDf)
<1>1. /\ pc = "report" /\ cnMapping.clusters # {} /\ tmp[level] = NoFile
      /\ newDf' \in Reports(level, cs) /\ pc' \in {"saveFinal", "save"}
      /\ UNCHANGED <<level, communityDf, tmp, intermediate>>
  BY DEF Report, disk
<1>2. Numbered(level, cs) /\ Below(communityDf, cs)
  BY <1>1, ResizedNumbered
<1> HIDE DEF cs
<1>3. LevelTable(level, newDf') /\ \A r \in newDf' : \E c \in cs : r.id = c.id
  BY <1>1, <1>2, ReportedTable
<1>4. Below(communityDf, newDf')
  BY <1>2, <1>3 DEF Below
<1> QED
  BY <1>1, <1>3, <1>4 DEF IdsInv, MemoryGrows, Clustering, LevelRows

LEMMA LoadMemory == ASSUME IdsInv, LoadLevel PROVE MemoryGrows'
<1>1. /\ pc = "report" /\ tmp[level] # NoFile /\ newDf' = LoadCsv(tmp[level]) /\ pc' = "save"
      /\ UNCHANGED <<level, communityDf, tmp, intermediate>>
  BY DEF LoadLevel, disk
<1>2. level \in Levels /\ FiniteRows(tmp[level]) /\ LevelTable(level, tmp[level])
      /\ communityDf \in SUBSET Row
  BY <1>1, TablesAreRows
     DEF IdsInv, PlaceInv, TypeInv, MemoryTyped, DiskTyped, ControlTyped, FilesGrow, Tables
<1>3. LevelTable(level, newDf') /\ Untyped(newDf') = Untyped(tmp[level])
  BY <1>1, <1>2, LoadedTable, LoadCsvType
<1>4. ASSUME NEW r \in communityDf, NEW s \in newDf' PROVE r.id < s.id
  <2>1. r.level < level /\ r.level \in Levels
    BY <1>1, <1>2 DEF IdsInv, PlaceInv, LevelsInPlace, Clustering, Row
  <2>2. r.level \in 1 .. level - 1
    BY <1>2, <2>1, BoundsAssumption DEF Levels
  <2>3. Untyped(LevelRows(r.level, communityDf)) = Untyped(tmp[r.level])
    BY <1>1, <2>2 DEF IdsInv, PlaceInv, MemoryMatchesFiles
  <2>4. r \in LevelRows(r.level, communityDf)
    BY DEF LevelRows
  <2>5. PICK rr \in tmp[r.level] : rr.id = r.id
    BY <2>3, <2>4, SameRow
  <2>6. PICK ss \in tmp[level] : ss.id = s.id
    BY <1>3, SameRow
  <2> QED
    BY <1>1, <1>2, <2>1, <2>5, <2>6 DEF IdsInv, FilesGrow, Below
<1>5. Below(communityDf, newDf')
  BY <1>4 DEF Below
<1> QED
  BY <1>1, <1>3, <1>5 DEF IdsInv, MemoryGrows, Clustering, LevelRows

\* The new level is added.
LEMMA AddedDistinct ==
    ASSUME IdsInv, pc \in {"save", "saveFinal"}, NEW rows \in SUBSET newDf
    PROVE  Distinct(communityDf \cup rows)
<1>1. Distinct(communityDf) /\ Distinct(newDf) /\ Below(communityDf, newDf)
  BY DEF IdsInv, MemoryGrows, LevelTable, Numbered
<1>2. \A r \in communityDf \cup newDf : r.id \in Int
  BY DEF IdsInv, PlaceInv, TypeInv, MemoryTyped, Tables, Row
<1>3. ASSUME NEW r \in communityDf, NEW s \in rows PROVE r.id # s.id
  BY <1>1, <1>2 DEF Below
<1> QED
  BY <1>1, <1>3 DEF Distinct

LEMMA SaveMemory == ASSUME IdsInv, SaveLevel PROVE MemoryGrows'
<1> DEFINE rows == Filtered(newDf)
<1>1. /\ communityDf' = communityDf \cup rows /\ level' = level + 1 /\ pc = "save"
      /\ pc' = "cluster" /\ intermediate' = intermediate
  BY DEF SaveLevel
<1>2. rows \in SUBSET newDf
  BY DEF Filtered, Rated
<1>3. Distinct(communityDf')
  BY <1>1, <1>2, AddedDistinct
<1>4. /\ \A r \in newDf : r.level = level
      /\ \A r \in communityDf : r.level < level /\ r.level \in Nat
      /\ level \in Nat /\ LevelTable(level, rows)
      /\ \A l \in Levels : LevelTable(l, LevelRows(l, communityDf))
  BY <1>1, <1>2, BoundsAssumption, PartOfTable
     DEF IdsInv, PlaceInv, TypeInv, MemoryTyped, ControlTyped, LevelsInPlace, Clustering, Tables,
         Row, Levels, MemoryGrows
<1> HIDE DEF rows
<1>5. ASSUME NEW l \in Levels PROVE LevelTable(l, LevelRows(l, communityDf'))
  <2>1. CASE l = level
    <3>1. LevelRows(l, communityDf') = rows
      BY <1>1, <1>2, <1>4, <2>1 DEF LevelRows
    <3> QED
      BY <1>4, <2>1, <3>1
  <2>2. CASE l # level
    <3>1. LevelRows(l, communityDf') = LevelRows(l, communityDf)
      BY <1>1, <1>2, <1>4, <2>2 DEF LevelRows
    <3> QED
      BY <1>4, <3>1
  <2> QED
    BY <2>1, <2>2
<1> QED
  BY <1>1, <1>3, <1>5 DEF IdsInv, MemoryGrows

LEMMA NextMemoryGrows == ASSUME IdsInv, [Next]_vars PROVE MemoryGrows'
<1>0. MemoryGrows /\ Distinct({}) /\ LevelRows(1, {}) = {}
  BY DEF IdsInv, Distinct, LevelRows
<1>1. CASE UNCHANGED vars
  BY <1>0, <1>1 DEF vars, memory, disk, MemoryGrows, LevelRows
<1>2. CASE StartFresh \/ Crash \/ LeidenFails \/ NoCommunities \/ TornSave
  <2>1. communityDf' = {} /\ pc' \in {"cluster", "down", "failed"}
    BY <1>2 DEF StartFresh, Crash, LeidenFails, NoCommunities, TornSave, FreshMemory
  <2>2. intermediate' # NoFile => Distinct(intermediate')
    <3>1. CASE intermediate' = intermediate
      BY <1>0, <3>1 DEF MemoryGrows
    <3>2. CASE intermediate' \in SUBSET communityDf
      BY <1>0, <3>2 DEF MemoryGrows, Distinct
    <3> QED
      BY <1>2, <3>1, <3>2 DEF StartFresh, Crash, LeidenFails, NoCommunities, TornSave, disk
  <2>3. \A l \in Levels : LevelTable(l, LevelRows(l, {}))
    BY EmptyTableNumbered DEF LevelRows
  <2> QED
    BY <1>0, <2>1, <2>2, <2>3 DEF MemoryGrows
<1>3. CASE StartResume
  <2>1. /\ intermediate # NoFile /\ intermediate' = intermediate
        /\ communityDf' = {} \/ communityDf' = LoadCsv(intermediate)
        /\ pc' \in {"failed", "finish"}
    BY <1>3 DEF StartResume, disk
  <2>2. FiniteRows(intermediate) /\ Distinct(intermediate)
    BY <2>1, TablesAreRows DEF IdsInv, PlaceInv, TypeInv, DiskTyped, MemoryGrows
  <2>3. Distinct(communityDf')
    BY <1>0, <2>1, <2>2, LoadedDistinct
  <2> QED
    BY <2>1, <2>2, <2>3 DEF MemoryGrows, Clustering
<1>4. CASE LevelLimit \/ SkipFinal \/ StopOnQuality \/ Finish
  <2>1. communityDf' = communityDf /\ pc' \in {"finish", "failed", "built"}
        /\ intermediate' \in {intermediate, communityDf}
    BY <1>4 DEF LevelLimit, SkipFinal, StopOnQuality, Finish, memory, disk
  <2> QED
    BY <1>0, <2>1 DEF MemoryGrows, Clustering
<1>5. CASE Cluster
  <2>1. UNCHANGED <<communityDf, intermediate>> /\ pc = "cluster" /\ pc' \in {"finish", "report"}
    BY <1>5 DEF Cluster, disk
  <2> QED
    BY <1>0, <2>1 DEF MemoryGrows, Clustering, LevelRows
<1>6. CASE Report
  BY <1>6, ReportMemory
<1>7. CASE LoadLevel
  BY <1>7, LoadMemory
<1>8. CASE SaveFinal
  <2>1. pc = "saveFinal" /\ pc' = "finish" /\ communityDf' = communityDf \cup newDf
        /\ intermediate' = intermediate
    BY <1>8 DEF SaveFinal
  <2>2. Distinct(communityDf')
    BY <2>1, AddedDistinct
  <2> QED
    BY <1>0, <2>1, <2>2 DEF MemoryGrows, Clustering
<1>9. CASE SaveLevel
  BY <1>9, SaveMemory
<1> QED
  BY <1>1, <1>2, <1>3, <1>4, <1>5, <1>6, <1>7, <1>8, <1>9 DEF Next, Step

LEMMA AlwaysIds == ASSUME NoFile \notin SUBSET Row PROVE Spec => []IdsInv
<1>1. Init => IdsInv
  <2> SUFFICES ASSUME Init PROVE IdsInv
    OBVIOUS
  <2>1. LevelsInPlace /\ MemoryMatchesFiles
    BY DEF Init, LevelsInPlace, MemoryMatchesFiles, Clustering
  <2>2. FilesGrow /\ MemoryGrows /\ GraphBelow /\ AnswersSound
    BY DEF Init, FilesGrow, MemoryGrows, Distinct, GraphBelow, AnswersSound, Clustering
  <2> QED
    BY <2>1, <2>2, InitTyped DEF IdsInv, PlaceInv
<1>2. IdsInv /\ [Next]_vars => IdsInv'
  <2>1. ASSUME IdsInv, [Next]_vars PROVE PlaceInv'
    BY <2>1, NextTyped, NextInPlace DEF IdsInv, PlaceInv
  <2>2. ASSUME IdsInv, [Next]_vars PROVE AnswersSound'
    BY <2>2, NextSound DEF IdsInv, PlaceInv
  <2> QED
    BY <2>1, <2>2, NextFilesGrow, NextMemoryGrows, NextGraphBelow DEF IdsInv
<1> QED
  BY <1>1, <1>2, PTL DEF Spec

\* No two communities of a hierarchy share an id, for any graph, any filter and any
\* restarts, and with files of which only a part was written.
THEOREM IdsAreUnique == ASSUME NoFile \notin SUBSET Row PROVE Spec => []UniqueIds
<1>1. IdsInv => UniqueIds
  BY DEF IdsInv, MemoryGrows, Distinct, UniqueIds
<1> QED
  BY <1>1, AlwaysIds, PTL

--------------------------------------------------------------------------------
(***************************************************************************)
(* Nodes and their communities.                                            *)
(***************************************************************************)
\* On the way up, each node of the graph is the id of one community of the level
\* below, of the type of the node, and it is not "nan".
LEMMA NodeFound ==
    ASSUME IdsInv, pc = "report", level > 1, NEW n \in graph.nodes
    PROVE  \E s \in communityDf : s.level = level - 1 /\ s.id = n /\ RowsOf(n, graph.kind, communityDf) = {s}
<1>0. level \in Nat /\ level # 1 /\ level - 1 \in Nat
  BY BoundsAssumption DEF IdsInv, PlaceInv, TypeInv, MemoryTyped
<1>1. PICK s \in LevelRows(level - 1, communityDf) : s.id = n /\ s.kind = graph.kind
  BY DEF IdsInv, GraphBelow
<1>2. s \in communityDf /\ s.level = level - 1
  BY <1>1 DEF LevelRows
<1>3. n # NanId
  <2>1. CASE cnMapping.clusters # {}
    BY <1>0, <1>1, <1>2, <2>1, NoNanBelow
  <2>2. CASE cnMapping.clusters = {}
    <3>1. ~Backfill
      BY <2>2 DEF IdsInv, AnswersSound, Sound, IsEffective
    <3>2. level - 1 \in Levels
      BY <1>0, BoundsAssumption DEF IdsInv, PlaceInv, TypeInv, ControlTyped, Levels
    <3>3. LevelTable(level - 1, LevelRows(level - 1, communityDf))
      BY <3>2 DEF IdsInv, MemoryGrows, Clustering
    <3>4. IsNumeric(s.id)
      BY <1>1, <3>1, <3>3 DEF LevelTable, Numbered
    <3> QED
      BY <1>1, <3>4 DEF IsNumeric, NanId
  <2> QED
    BY <2>1, <2>2
<1>4. RowsOf(n, graph.kind, communityDf) = {s}
  BY <1>1, <1>2, <1>3 DEF RowsOf, IdsInv, MemoryGrows, Distinct
<1> QED
  BY <1>1, <1>2, <1>4

\* The lookup of a graph node among the communities finds one row: numbers that were
\* read from a file meet numbers, strings meet strings, and "nan" is never looked up.
THEOREM NodesAreFound == ASSUME NoFile \notin SUBSET Row PROVE Spec => []EveryNodeFound
<1>1. IdsInv => EveryNodeFound
  <2> SUFFICES ASSUME IdsInv, pc = "report", level > 1, NEW n \in graph.nodes
               PROVE  Cardinality(RowsOf(n, graph.kind, communityDf)) = 1
    BY DEF EveryNodeFound
  <2> QED
    BY NodeFound, FS_Singleton
<1> QED
  BY <1>1, AlwaysIds, PTL

--------------------------------------------------------------------------------
(***************************************************************************)
(* A community for every cluster.                                          *)
(***************************************************************************)
\* With the backfill an isolated node has an id that is not numeric.  If nothing
\* removes communities, there is a numeric one on the first level: not all clusters
\* of an effective partition are singletons.
Whole == ~QualityFilter /\ ~cut

FirstNumeric ==
    Backfill /\ Whole =>
        /\ tmp[1] # NoFile => \E r \in tmp[1] : IsNumeric(r.id)
        /\ pc \in {"save", "saveFinal"} /\ level = 1 => \E r \in newDf : IsNumeric(r.id)

LEMMA NotAllSingletons ==
    ASSUME NEW P, IsFiniteSet(P), NEW nodes, IsEffective(P, nodes)
    PROVE  \E c \in P : \A n : c # {n}
<1> SUFFICES ASSUME \A c \in P : \E n : c = {n} PROVE FALSE
  OBVIOUS
<1>1. Singletons(P) = P
  BY FS_Singleton DEF Singletons
<1>2. Cardinality(P) \in Nat
  BY FS_CardinalityType
<1>3. 10 * Cardinality(P) < 8 * Cardinality(P)
  BY <1>1 DEF IsEffective
<1> QED
  BY <1>2, <1>3

LEMMA FirstReported ==
    ASSUME IdsInv, Backfill, Report, level = 1 PROVE \E r \in newDf' : IsNumeric(r.id)
<1> DEFINE cs == Resized(level, cnMapping, graph, communityDf)
<1>1. /\ graph.nodes \in SUBSET Int /\ IsFiniteSet(graph.nodes) /\ FiniteRows(communityDf)
      /\ Answer(cnMapping, graph.nodes) /\ Sound(cnMapping, graph.nodes)
      /\ level = 1 /\ graph.nodes = Entities /\ cnMapping # NoPartition
      /\ pc = "report" /\ cnMapping.clusters # {} /\ newDf' \in Reports(level, cs)
  BY TablesAreRows
     DEF IdsInv, PlaceInv, TypeInv, ControlTyped, MemoryTyped, AnswersSound, Report
<1>2. PICK f : Names(f, level, cnMapping, graph, communityDf)
  BY <1>1, ResizedNames
<1>3. PICK c \in cnMapping.clusters : \A n : c # {n}
  BY <1>1, NotAllSingletons DEF Answer, Sound
<1>4. f[c] \in cs /\ IsNumeric(f[c].id)
  BY <1>2, <1>3 DEF Names
<1>5. Numbered(level, cs)
  BY <1>1, ResizedNumbered
<1> HIDE DEF cs
<1>6. PICK r \in newDf' : r.id = f[c].id
  BY <1>1, <1>4, <1>5, ReportedTable
<1> QED
  BY <1>4, <1>6

LEMMA NextFirstNumeric ==
    ASSUME NoFile \notin SUBSET Row, IdsInv, FirstNumeric, [Next]_vars PROVE FirstNumeric'
<1> SUFFICES ASSUME Backfill, ~QualityFilter, ~cut'
             PROVE  /\ tmp'[1] # NoFile => \E r \in tmp'[1] : IsNumeric(r.id)
                    /\ pc' \in {"save", "saveFinal"} /\ level' = 1 => \E r \in newDf' : IsNumeric(r.id)
  BY DEF FirstNumeric, Whole
<1>0. 1 \in Levels /\ tmp \in [Levels -> {NoFile} \cup Tables]
  BY BoundsAssumption DEF IdsInv, PlaceInv, TypeInv, DiskTyped, Levels
<1>1. ~TornSave /\ ~cut
  BY DEF Next, Step, StartFresh, StartResume, Crash, TornSave, LevelLimit, Cluster, LeidenFails,
     NoCommunities, Report, SkipFinal, LoadLevel, SaveFinal, StopOnQuality, SaveLevel, Finish,
     disk, vars
<1>2. /\ tmp[1] # NoFile => \E r \in tmp[1] : IsNumeric(r.id)
      /\ pc \in {"save", "saveFinal"} /\ level = 1 => \E r \in newDf : IsNumeric(r.id)
  BY <1>1 DEF FirstNumeric, Whole
<1>3. CASE SaveFinal \/ SaveLevel
  <2>1. Filtered(newDf) = newDf
    BY DEF Filtered
  <2>2. pc \in {"save", "saveFinal"} /\ tmp' = [tmp EXCEPT ![level] = newDf]
        /\ pc' \notin {"save", "saveFinal"}
    BY <1>3, <2>1 DEF SaveFinal, SaveLevel
  <2> QED
    BY <1>0, <1>2, <2>2
<1>4. CASE Report
  <2>1. tmp' = tmp /\ level' = level
    BY <1>4 DEF Report, disk
  <2> QED
    BY <1>2, <1>4, <2>1, FirstReported
<1>5. CASE LoadLevel
  <2>1. tmp' = tmp /\ level' = level /\ tmp[level] # NoFile /\ newDf' = LoadCsv(tmp[level])
    BY <1>5 DEF LoadLevel, disk
  <2>2. ASSUME level = 1 PROVE \E r \in newDf' : IsNumeric(r.id)
    <3> DEFINE file == tmp[1]
               rows == LoadCsv(file)
    <3>1. FiniteRows(file)
      BY <1>0, <2>1, <2>2, TablesAreRows
    <3>2. PICK r \in file : IsNumeric(r.id)
      BY <1>2, <2>1, <2>2
    <3>3. Untyped(file) = Untyped(rows)
      BY <3>1, LoadCsvType
    <3> HIDE DEF file, rows
    <3>4. PICK s \in rows : s.id = r.id
      BY <3>2, <3>3, SameRow
    <3> QED
      BY <2>1, <2>2, <3>2, <3>4 DEF file, rows
  <2> QED
    BY <1>2, <2>1, <2>2
<1>6. CASE ~SaveFinal /\ ~SaveLevel /\ ~Report /\ ~LoadLevel
  <2>1. tmp' = tmp
    BY <1>1, <1>6 DEF Next, Step, StartFresh, StartResume, Crash, LevelLimit, Cluster, LeidenFails,
       NoCommunities, SkipFinal, StopOnQuality, Finish, disk, vars
  <2>2. pc' \notin {"save", "saveFinal"} \/ UNCHANGED <<pc, level, newDf>>
    BY <1>1, <1>6 DEF Next, Step, StartFresh, StartResume, Crash, LevelLimit, Cluster, LeidenFails,
       NoCommunities, SkipFinal, StopOnQuality, Finish, memory, vars
  <2> QED
    BY <1>2, <2>1, <2>2
<1> QED
  BY <1>3, <1>4, <1>5, <1>6

\* There is a next id then, on every level.
LEMMA NextIdExists ==
    ASSUME IdsInv, FirstNumeric, Backfill => Whole,
           pc = "report", level # 1, cnMapping.clusters # {}
    PROVE  CurMaxId(communityDf) # NanId
<1> SUFFICES ASSUME CurMaxId(communityDf) = NanId PROVE FALSE
  OBVIOUS
<1>1. FiniteRows(communityDf) /\ level \in Levels
  BY TablesAreRows DEF IdsInv, PlaceInv, TypeInv, MemoryTyped, ControlTyped
<1>2. communityDf # {} /\ \A r \in communityDf : ~IsNumeric(r.id)
  BY <1>1, CurMaxIdAbove DEF NanId
<1>3. Backfill
  BY <1>2, NoNanBelow
<1>4. 1 \in 1 .. level - 1
  BY <1>1, BoundsAssumption DEF Levels
<1>5. tmp[1] # NoFile /\ Untyped(LevelRows(1, communityDf)) = Untyped(tmp[1])
  BY <1>4 DEF IdsInv, PlaceInv, MemoryMatchesFiles
<1>6. PICK r \in tmp[1] : IsNumeric(r.id)
  BY <1>3, <1>5 DEF FirstNumeric
<1> DEFINE file == tmp[1]
           rows == LevelRows(1, communityDf)
<1>7. r \in file /\ Untyped(file) = Untyped(rows)
  BY <1>5, <1>6
<1> HIDE DEF file, rows
<1>8. PICK s \in rows : s.id = r.id
  BY <1>7, SameRow
<1>9. s \in communityDf
  BY <1>8 DEF rows, LevelRows
<1> QED
  BY <1>2, <1>6, <1>8, <1>9

LEMMA ReportSize ==
    ASSUME NEW lvl, NEW cs, IsFiniteSet(cs), Distinct(cs), NEW rows \in Reports(lvl, cs)
    PROVE  Cardinality(rows) = Cardinality(cs)
<1>1. PICK rating \in [cs -> Ratings \cup {NoRating}] :
         rows = {[id |-> c.id, kind |-> "str", level |-> lvl, nodes |-> c.nodes,
                  rating |-> rating[c]] : c \in cs}
  BY DEF Reports
<1> DEFINE f == [c \in cs |-> [id |-> c.id, kind |-> "str", level |-> lvl, nodes |-> c.nodes,
                               rating |-> rating[c]]]
<1>2. rows = {f[c] : c \in cs}
  BY <1>1
<1>3. \A c \in cs : f[c].id = c.id
  OBVIOUS
<1> HIDE DEF f
<1>4. \A c, d \in cs : f[c] = f[d] => c = d
  BY <1>3 DEF Distinct
<1> QED
  BY <1>2, <1>4, ImageSize

LEMMA ReportCounted ==
    ASSUME IdsInv, Report, level # 1 => CurMaxId(communityDf) # NanId
    PROVE  Cardinality(newDf') = Cardinality(cnMapping.clusters)
<1> DEFINE cs == Resized(level, cnMapping, graph, communityDf)
<1>1. /\ graph.nodes \in SUBSET Int /\ IsFiniteSet(graph.nodes) /\ FiniteRows(communityDf)
      /\ Answer(cnMapping, graph.nodes) /\ Sound(cnMapping, graph.nodes)
      /\ (level = 1 => graph.nodes = Entities)
      /\ pc = "report" /\ cnMapping.clusters # {} /\ newDf' \in Reports(level, cs)
  BY TablesAreRows
     DEF IdsInv, PlaceInv, TypeInv, ControlTyped, MemoryTyped, AnswersSound, Report
<1>3. PICK f : Names(f, level, cnMapping, graph, communityDf)
  BY <1>1, ResizedNames
<1>4. cs = {f[c] : c \in cnMapping.clusters}
      /\ \A c, d \in cnMapping.clusters : f[c] = f[d] => c = d
  BY <1>3 DEF Names
<1>5. IsFiniteSet(cnMapping.clusters)
  BY <1>1 DEF Answer
<1>6. Cardinality({f[c] : c \in cnMapping.clusters}) = Cardinality(cnMapping.clusters)
      /\ IsFiniteSet({f[c] : c \in cnMapping.clusters})
  BY <1>4, <1>5, ImageSize, ImageFinite
<1>7. Distinct(cs)
  BY <1>1, ResizedNumbered DEF Numbered
<1> HIDE DEF cs
<1> QED
  BY <1>1, <1>4, <1>6, <1>7, ReportSize

\* Every cluster becomes a community of its own.  The exception, a level of isolated
\* nodes only below, needs a cut file or the filter: Leiden leaves a numbered cluster on
\* the first level (FirstNumeric), and nothing removes it otherwise.
THEOREM ClustersAreReported ==
    ASSUME NoFile \notin SUBSET Row PROVE Spec => []EveryClusterReported
<1>1. Init => FirstNumeric /\ EveryClusterReported
  BY BoundsAssumption DEF Init, FirstNumeric, Whole, EveryClusterReported, Levels
<1>2. ASSUME IdsInv, FirstNumeric, EveryClusterReported, [Next]_vars
      PROVE  FirstNumeric' /\ EveryClusterReported'
  <2>1. FirstNumeric'
    BY <1>2, NextFirstNumeric
  <2> SUFFICES EveryClusterReported'
    BY <2>1
  <2>2. CASE Report
    <3>1. UNCHANGED <<cnMapping, level, communityDf, cut>> /\ pc = "report" /\ level \in Levels
          /\ cnMapping.clusters # {} /\ FiniteRows(communityDf)
      BY <1>2, <2>2, TablesAreRows
         DEF Report, disk, IdsInv, PlaceInv, TypeInv, ControlTyped, MemoryTyped
    <3>2. CASE level # 1 => CurMaxId(communityDf) # NanId
      BY <1>2, <2>2, <3>1, <3>2, ReportCounted DEF EveryClusterReported
    <3>3. CASE level # 1 /\ CurMaxId(communityDf) = NanId
      <4>1. communityDf # {} /\ \A r \in communityDf : ~IsNumeric(r.id)
        BY <3>1, <3>3, CurMaxIdAbove DEF NanId
      <4>2. NothingNumeric
        BY <4>1 DEF NothingNumeric, NumericIds
      <4>3. NothingNumeric'
        BY <3>1, <4>2 DEF NothingNumeric, NumericIds
      <4>4. cut \/ QualityFilter
        BY <1>2, <3>1, <3>3, NextIdExists DEF Whole
      <4>5. level > 1
        BY <3>1, <3>3, BoundsAssumption DEF Levels
      <4> QED
        BY <3>1, <4>3, <4>4, <4>5 DEF EveryClusterReported
    <3> QED
      BY <3>2, <3>3
  <2>3. CASE LoadLevel
    <3>1. tmp'[level'] # NoFile
      BY <2>3 DEF LoadLevel, disk
    <3> QED
      BY <3>1 DEF EveryClusterReported
  <2>4. CASE ~Report /\ ~LoadLevel
    <3>1. pc' \notin {"save", "saveFinal"}
          \/ UNCHANGED <<pc, level, newDf, cnMapping, tmp, communityDf, cut>>
      BY <1>2, <2>4 DEF Next, Step, StartFresh, StartResume, Crash, TornSave, LevelLimit, Cluster,
         LeidenFails, NoCommunities, SkipFinal, SaveFinal, StopOnQuality, SaveLevel, Finish,
         disk, memory, vars
    <3> QED
      BY <1>2, <3>1 DEF EveryClusterReported, NothingNumeric, NumericIds
  <2> QED
    BY <2>1, <2>2, <2>3, <2>4
<1> QED
  BY <1>1, <1>2, AlwaysIds, PTL DEF Spec

--------------------------------------------------------------------------------
(***************************************************************************)
(* Every level covers the entities.                                        *)
(***************************************************************************)
Covers(rows) == UNION {r.nodes : r \in rows} = Entities
LevelsCover(rows) == \A l \in Levels : LevelRows(l, rows) # {} => Covers(LevelRows(l, rows))

CoverInv ==
    Whole =>
        /\ \A l \in Levels : tmp[l] # NoFile => Covers(tmp[l])
        /\ pc \in {"save", "saveFinal"} => Covers(newDf)
        /\ intermediate # NoFile => LevelsCover(intermediate)
        /\ LevelsCover(communityDf)

LEMMA LoadedNodes ==
    ASSUME NEW rows, FiniteRows(rows)
    PROVE  /\ Covers(rows) => Covers(LoadCsv(rows))
           /\ LevelsCover(rows) => LevelsCover(LoadCsv(rows))
<1>1. CASE LoadCsv(rows) = rows
  BY <1>1
<1>2. CASE LoadCsv(rows) = {[r EXCEPT !.kind = "int"] : r \in rows}
  <2> DEFINE f == [r \in rows |-> [r EXCEPT !.kind = "int"]]
  <2>1. \A r \in rows : f[r].nodes = r.nodes /\ f[r].level = r.level
    BY DEF FiniteRows, Row
  <2>2. LoadCsv(rows) = {f[r] : r \in rows}
    BY <1>2
  <2> HIDE DEF f
  <2>3. \A some \in SUBSET rows : {q.nodes : q \in {f[r] : r \in some}} = {r.nodes : r \in some}
    BY <2>1
  <2>4. Covers(rows) => Covers(LoadCsv(rows))
    BY <2>2, <2>3 DEF Covers
  <2>5. ASSUME LevelsCover(rows), NEW l \in Levels, LevelRows(l, LoadCsv(rows)) # {}
        PROVE  Covers(LevelRows(l, LoadCsv(rows)))
    <3> DEFINE some == LevelRows(l, rows)
    <3>1. LevelRows(l, LoadCsv(rows)) = {f[r] : r \in some}
      BY <2>1, <2>2 DEF LevelRows
    <3>2. some \in SUBSET rows
      BY DEF LevelRows
    <3>3. Covers(some)
      BY <2>5, <3>1 DEF LevelsCover
    <3> HIDE DEF some
    <3> QED
      BY <2>3, <3>1, <3>2, <3>3 DEF Covers
  <2> QED
    BY <2>4, <2>5 DEF LevelsCover
<1> QED
  BY <1>1, <1>2 DEF LoadCsv

\* The communities of a report have the nodes of the clusters, or of the communities
\* below that are in the clusters: all of them, as a sound answer leaves no node out.
LEMMA ReportCovers ==
    ASSUME IdsInv, FirstNumeric, CoverInv, Backfill, Whole, Report PROVE Covers(newDf')
<1> DEFINE cs == Resized(level, cnMapping, graph, communityDf)
<1>1. /\ graph.nodes \in SUBSET Int /\ IsFiniteSet(graph.nodes) /\ FiniteRows(communityDf)
      /\ Answer(cnMapping, graph.nodes) /\ Sound(cnMapping, graph.nodes)
      /\ (level = 1 => graph.nodes = Entities) /\ cnMapping # NoPartition /\ level \in Levels
      /\ pc = "report" /\ cnMapping.clusters # {} /\ newDf' \in Reports(level, cs)
  BY TablesAreRows
     DEF IdsInv, PlaceInv, TypeInv, ControlTyped, MemoryTyped, AnswersSound, Report
<1>2. level # 1 => CurMaxId(communityDf) # NanId
  BY <1>1, NextIdExists
<1>3. PICK f : Names(f, level, cnMapping, graph, communityDf)
  BY <1>1, <1>2, ResizedNames
<1>4. UNION cnMapping.clusters = graph.nodes
  BY <1>1 DEF Sound
<1>5. cs = {f[c] : c \in cnMapping.clusters}
      /\ \A c \in cnMapping.clusters :
            f[c].nodes = IF level = 1 THEN c ELSE CommunityNodes(c, graph.kind, communityDf)
  BY <1>3 DEF Names
<1>6. UNION {f[c].nodes : c \in cnMapping.clusters} = Entities
  <2>1. CASE level = 1
    <3>1. \A c \in cnMapping.clusters : f[c].nodes = c
      BY <1>5, <2>1
    <3>2. {f[c].nodes : c \in cnMapping.clusters} = cnMapping.clusters
      BY <3>1
    <3> QED
      BY <1>1, <1>4, <2>1, <3>2
  <2>2. CASE level # 1
    <3>1. level - 1 \in Levels /\ level > 1
      BY <1>1, <2>2, BoundsAssumption DEF Levels
    <3>2. \A c \in cnMapping.clusters : f[c].nodes \in SUBSET Entities
      BY <1>1, <1>5, <2>2, CommunityNodesType DEF FiniteRows
    <3>3. LevelRows(level - 1, communityDf) # {}
      <4>1. graph.nodes # {}
        BY <1>1 DEF Answer
      <4> QED
        BY <1>1, <3>1, <4>1 DEF IdsInv, GraphBelow
    <3>4. Covers(LevelRows(level - 1, communityDf))
      BY <3>1, <3>3 DEF CoverInv, LevelsCover
    <3>5. ASSUME NEW e \in Entities PROVE \E c \in cnMapping.clusters : e \in f[c].nodes
      <4>1. PICK s \in LevelRows(level - 1, communityDf) : e \in s.nodes
        BY <3>4 DEF Covers
      <4>2. s.id \in graph.nodes /\ s \in communityDf
        BY <1>1, <3>1, <4>1 DEF IdsInv, GraphBelow, LevelRows
      <4>3. PICK t \in communityDf : t.id = s.id /\ RowsOf(s.id, graph.kind, communityDf) = {t}
        BY <1>1, <3>1, <4>2, NodeFound
      <4>4. t = s
        BY <4>2, <4>3 DEF IdsInv, MemoryGrows, Distinct
      <4>5. PICK c \in cnMapping.clusters : s.id \in c
        BY <1>4, <4>2
      <4>6. s \in RowsOf(s.id, graph.kind, communityDf)
        BY <4>3, <4>4
      <4>7. e \in CommunityNodes(c, graph.kind, communityDf)
        BY <4>1, <4>5, <4>6 DEF CommunityNodes
      <4> QED
        BY <1>5, <2>2, <4>5, <4>7
    <3> QED
      BY <3>2, <3>5
  <2> QED
    BY <2>1, <2>2
<1>7. Numbered(level, cs)
  BY <1>1, ResizedNumbered
<1> HIDE DEF cs
<1>8. {r.nodes : r \in newDf'} = {c.nodes : c \in cs}
  <2>1. /\ \A r \in newDf' : \E c \in cs : r.nodes = c.nodes
        /\ \A c \in cs : \E r \in newDf' : r.nodes = c.nodes
    BY <1>1, <1>7, ReportedTable
  <2> QED
    BY <2>1
<1>9. {c.nodes : c \in cs} = {f[c].nodes : c \in cnMapping.clusters}
  BY <1>5
<1> QED
  BY <1>6, <1>8, <1>9 DEF Covers

\* The level under way is added to levels that cover the entities.
LEMMA AddedCovers ==
    ASSUME NEW rows, NEW low, NEW l \in Levels, LevelsCover(low), Covers(rows),
           \A r \in rows : r.level = l, \A r \in low : r.level # l
    PROVE  LevelsCover(low \cup rows)
<1>1. ASSUME NEW m \in Levels, m # l PROVE LevelRows(m, low \cup rows) = LevelRows(m, low)
  BY <1>1 DEF LevelRows
<1>2. LevelRows(l, low \cup rows) = rows
  BY DEF LevelRows
<1> QED
  BY <1>1, <1>2 DEF LevelsCover

LEMMA NextCover ==
    ASSUME NoFile \notin SUBSET Row, Backfill, IdsInv, FirstNumeric, CoverInv, [Next]_vars
    PROVE  CoverInv'
<1> SUFFICES ASSUME ~QualityFilter, ~cut'
             PROVE  /\ \A l \in Levels : tmp'[l] # NoFile => Covers(tmp'[l])
                    /\ pc' \in {"save", "saveFinal"} => Covers(newDf')
                    /\ intermediate' # NoFile => LevelsCover(intermediate')
                    /\ LevelsCover(communityDf')
  BY DEF CoverInv, Whole
<1>0. tmp \in [Levels -> {NoFile} \cup Tables] /\ LevelsCover({})
  BY DEF IdsInv, PlaceInv, TypeInv, DiskTyped, LevelsCover, LevelRows
<1>1. ~TornSave /\ ~cut
  BY DEF Next, Step, StartFresh, StartResume, Crash, TornSave, LevelLimit, Cluster, LeidenFails,
     NoCommunities, Report, SkipFinal, LoadLevel, SaveFinal, StopOnQuality, SaveLevel, Finish,
     disk, vars
<1>2. /\ \A l \in Levels : tmp[l] # NoFile => Covers(tmp[l])
      /\ pc \in {"save", "saveFinal"} => Covers(newDf)
      /\ intermediate # NoFile => LevelsCover(intermediate)
      /\ LevelsCover(communityDf) /\ Whole
  BY <1>1 DEF CoverInv, Whole
<1>3. CASE SaveFinal \/ SaveLevel
  <2>1. Filtered(newDf) = newDf
    BY DEF Filtered
  <2>2. pc \in {"save", "saveFinal"} /\ tmp' = [tmp EXCEPT ![level] = newDf]
        /\ pc' \notin {"save", "saveFinal"} /\ communityDf' = communityDf \cup newDf
        /\ intermediate' = intermediate
    BY <1>3, <2>1 DEF SaveFinal, SaveLevel
  <2>3. level \in Levels /\ \A r \in newDf : r.level = level
    BY <2>2 DEF IdsInv, PlaceInv, TypeInv, ControlTyped, LevelsInPlace
  <2>4. \A r \in communityDf : r.level # level
    <3>1. \A r \in communityDf : r.level < level /\ r.level \in Nat
      BY <2>2, BoundsAssumption
         DEF IdsInv, PlaceInv, TypeInv, MemoryTyped, LevelsInPlace, Clustering, Tables, Row, Levels
    <3> QED
      BY <2>3, <3>1, BoundsAssumption DEF Levels
  <2>5. LevelsCover(communityDf \cup newDf)
    BY <1>2, <2>2, <2>3, <2>4, AddedCovers
  <2> QED
    BY <1>0, <1>2, <2>2, <2>5
<1>4. CASE Report
  <2>1. UNCHANGED <<tmp, intermediate, communityDf>>
    BY <1>4 DEF Report, disk
  <2> QED
    BY <1>2, <1>4, <2>1, ReportCovers
<1>5. CASE LoadLevel
  <2>1. UNCHANGED <<tmp, intermediate, communityDf>> /\ tmp[level] # NoFile
        /\ newDf' = LoadCsv(tmp[level])
    BY <1>5 DEF LoadLevel, disk
  <2>2. level \in Levels /\ FiniteRows(tmp[level])
    BY <1>0, <1>5, <2>1, TablesAreRows DEF LoadLevel, IdsInv, PlaceInv, TypeInv, ControlTyped
  <2>3. Covers(newDf')
    BY <1>2, <2>1, <2>2, LoadedNodes
  <2> QED
    BY <1>2, <2>1, <2>3
<1>6. CASE StartResume
  <2>1. /\ intermediate # NoFile /\ UNCHANGED <<tmp, intermediate>>
        /\ communityDf' = {} \/ communityDf' = LoadCsv(intermediate)
        /\ pc' \in {"failed", "finish"}
    BY <1>6 DEF StartResume, disk
  <2>2. FiniteRows(intermediate)
    BY <2>1, TablesAreRows DEF IdsInv, PlaceInv, TypeInv, DiskTyped
  <2>3. LevelsCover(communityDf')
    BY <1>0, <1>2, <2>1, <2>2, LoadedNodes
  <2> QED
    BY <1>2, <2>1, <2>3
<1>7. CASE ~SaveFinal /\ ~SaveLevel /\ ~Report /\ ~LoadLevel /\ ~StartResume
  <2>1. tmp' = tmp /\ intermediate' \in {intermediate, communityDf}
        /\ communityDf' \in {communityDf, {}}
    BY <1>1, <1>7 DEF Next, Step, StartFresh, Crash, LevelLimit, Cluster, LeidenFails, FreshMemory,
       NoCommunities, SkipFinal, StopOnQuality, Finish, disk, memory, vars
  <2>2. pc' \notin {"save", "saveFinal"} \/ UNCHANGED <<pc, newDf>>
    BY <1>1, <1>7 DEF Next, Step, StartFresh, Crash, LevelLimit, Cluster, LeidenFails,
       NoCommunities, SkipFinal, StopOnQuality, Finish, memory, vars
  <2> QED
    BY <1>0, <1>2, <2>1, <2>2
<1> QED
  BY <1>3, <1>4, <1>5, <1>6, <1>7

\* With the backfill and without the filter, every level covers every entity, as long
\* as no process died while it wrote a file.
THEOREM LevelsCoverAll ==
    ASSUME NoFile \notin SUBSET Row, Backfill, ~QualityFilter
    PROVE  Spec => []LevelsCoverEntities
<1>1. Init => FirstNumeric /\ CoverInv
  BY BoundsAssumption DEF Init, FirstNumeric, CoverInv, LevelsCover, LevelRows, Levels
<1>2. IdsInv /\ FirstNumeric /\ CoverInv /\ [Next]_vars => FirstNumeric' /\ CoverInv'
  BY NextFirstNumeric, NextCover
<1>3. CoverInv => LevelsCoverEntities
  BY DEF CoverInv, Whole, LevelsCoverEntities, LevelsCover, Covers
<1> QED
  BY <1>1, <1>2, <1>3, AlwaysIds, PTL DEF Spec

--------------------------------------------------------------------------------
(***************************************************************************)
(* Ratings.                                                                *)
(***************************************************************************)
RatingSum(rows) == MapThenSumSet(LAMBDA r : r.rating, rows)

\* the recursive function that RatingSum evaluates
IsRatingSum(h, rows) ==
    h = [s \in SUBSET rows |-> IF s = {} THEN 0
            ELSE (CHOOSE x \in s : TRUE).rating + h[s \ {CHOOSE x \in s : TRUE}]]

LEMMA RatingSumIsChosen == \A rows : RatingSum(rows) = (CHOOSE h : IsRatingSum(h, rows))[rows]
  BY Zenon DEF RatingSum, MapThenSumSet, MapThenFoldSet, IsRatingSum

\* The sum of the ratings is the sum of a function.
LEMMA RatingSumIsSum ==
    ASSUME NEW rows, IsFiniteSet(rows), NEW f, \A r \in rows : f[r] = r.rating
    PROVE  RatingSum(rows) = SumOn(f, rows)
<1>1. ASSUME NEW h PROVE IsSum(h, f, rows) <=> IsRatingSum(h, rows)
  <2> DEFINE g == [s \in SUBSET rows |-> Term(h, f, s)]
             k == [s \in SUBSET rows |-> IF s = {} THEN 0
                     ELSE (CHOOSE x \in s : TRUE).rating + h[s \ {CHOOSE x \in s : TRUE}]]
  <2>1. ASSUME NEW s \in SUBSET rows PROVE g[s] = k[s]
    <3>1. CASE s = {}
      BY <3>1 DEF Term
    <3>2. CASE s # {}
      <4>1. (CHOOSE x \in s : TRUE) \in rows
        BY <3>2
      <4> QED
        BY <3>2, <4>1 DEF Term
    <3> QED
      BY <3>1, <3>2
  <2>2. g = k
    BY <2>1
  <2>3. (IsSum(h, f, rows) <=> h = g) /\ (IsRatingSum(h, rows) <=> h = k)
    BY DEF IsSum, IsRatingSum
  <2> HIDE DEF g, k
  <2> QED
    BY <2>2, <2>3
<1>2. PICK h : IsSum(h, f, rows) /\ SumOn(f, rows) = h[rows]
  BY SumIsSum
<1>3. IsRatingSum(CHOOSE k : IsRatingSum(k, rows), rows)
  BY <1>1, <1>2
<1> DEFINE k == CHOOSE k : IsRatingSum(k, rows)
<1>4. IsSum(k, f, rows) /\ RatingSum(rows) = k[rows]
  BY <1>1, <1>3, RatingSumIsChosen
<1> HIDE DEF k
<1>5. h[rows] = k[rows]
  BY <1>2, <1>4, SumsAgree
<1> QED
  BY <1>2, <1>4, <1>5

LEMMA BelowThresholdSum ==
    ASSUME NEW rows
    PROVE  BelowThreshold(rows) <=>
             /\ Rated(rows) # {}
             /\ RatingSum(Rated(rows)) < QualityThreshold * Cardinality(Rated(rows))
  BY DEF BelowThreshold, RatingSum

LEMMA RatedRows ==
    ASSUME NEW rows, FiniteRows(rows)
    PROVE  IsFiniteSet(Rated(rows)) /\ \A r \in Rated(rows) : r.rating \in Nat
<1>1. Rated(rows) \in SUBSET rows
  BY DEF Rated
<1> QED
  BY <1>1, FS_Subset, RatingsAssumption DEF FiniteRows, Rated, Row

\* A level that is good enough is so without its communities below the least rating:
\* if that is below the threshold, so are they, and else all that are left are above.
LEMMA FilterKeepsPassing ==
    ASSUME NEW rows, FiniteRows(rows), ~BelowThreshold(rows)
    PROVE  ~BelowThreshold(Filtered(rows))
<1>1. CASE ~QualityFilter
  BY <1>1 DEF Filtered
<1>2. CASE QualityFilter
  <2> DEFINE all == Rated(rows)
             kept == {r \in all : r.rating >= MinRating}
             rest == all \ kept
             f == [r \in all |-> r.rating]
             Q == QualityThreshold
  <2>1. Filtered(rows) = kept /\ Rated(kept) = kept
    BY <1>2 DEF Filtered, Rated
  <2>2. IsFiniteSet(all) /\ \A r \in all : r.rating \in Nat
    BY RatedRows
  <2>3. kept \in SUBSET all /\ rest \in SUBSET all /\ kept \cup rest = all /\ kept \cap rest = {}
    OBVIOUS
  <2>4. IsFiniteSet(kept) /\ IsFiniteSet(rest)
    BY <2>2, <2>3, FS_Subset
  <2>5. Q \in Nat /\ MinRating \in Nat
    BY BoundsAssumption
  <2>6. \A r \in all : f[r] = r.rating /\ f[r] \in Nat
    BY <2>2
  <2>7. \A r \in kept : r.rating >= MinRating
    OBVIOUS
  <2>8. \A r \in rest : r.rating <= MinRating
    BY <2>2, <2>5
  <2>9. all # {} => ~(RatingSum(all) < Q * Cardinality(all))
    BY BelowThresholdSum
  <2> HIDE DEF all, kept, rest, f, Q
  <2>10. RatingSum(all) = SumOn(f, all) /\ RatingSum(kept) = SumOn(f, kept)
    BY <2>2, <2>3, <2>4, <2>6, RatingSumIsSum
  <2>11. SumOn(f, all) \in Int /\ SumOn(f, kept) \in Int /\ SumOn(f, rest) \in Int
    BY <2>2, <2>3, <2>4, <2>6, SumTerm
  <2>12. SumOn(f, all) = SumOn(f, kept) + SumOn(f, rest)
    BY <2>3, <2>4, <2>6, SumOfBoth
  <2>13. /\ Cardinality(kept) \in Nat /\ Cardinality(rest) \in Nat
         /\ Cardinality(all) = Cardinality(kept) + Cardinality(rest)
    <3>1. Cardinality(kept) \in Nat /\ Cardinality(rest) \in Nat
      BY <2>4, FS_CardinalityType
    <3>2. Cardinality(kept \cup rest)
            = Cardinality(kept) + Cardinality(rest) - Cardinality(kept \cap rest)
      BY <2>4, FS_Union
    <3>3. Cardinality(kept \cap rest) = 0
      BY <2>3, FS_EmptySet
    <3> QED
      BY <2>3, <3>1, <3>2, <3>3
  <2>14. SumOn(f, kept) >= Q * Cardinality(kept)
    <3>1. CASE MinRating >= Q
      <4>1. \A r \in kept : f[r] \in Int /\ f[r] >= Q
        BY <2>3, <2>5, <2>6, <2>7, <3>1
      <4> QED
        BY <2>4, <2>5, <4>1, SumAtLeast
    <3>2. CASE MinRating <= Q
      <4>1. \A r \in rest : f[r] \in Int /\ f[r] <= Q
        BY <2>3, <2>5, <2>6, <2>8, <3>2
      <4>2. SumOn(f, rest) <= Q * Cardinality(rest)
        BY <2>4, <2>5, <4>1, SumAtMost
      <4>3. CASE all = {}
        <5>1. kept = {}
          BY <2>3, <4>3
        <5> QED
          BY <5>1, <2>5, SumOfNothing, FS_EmptySet
      <4>4. CASE all # {}
        <5> DEFINE k == Cardinality(kept)
                   n == Cardinality(rest)
        <5>1. Q * (k + n) = Q * k + Q * n /\ Q * k \in Int /\ Q * n \in Int /\ Q * (k + n) \in Int
          BY <2>5, <2>13
        <5>2. SumOn(f, all) >= Q * (k + n)
          BY <2>9, <2>10, <2>11, <2>13, <4>4, <5>1
        <5> HIDE DEF k, n
        <5>3. SumOn(f, rest) <= Q * n
          BY <4>2 DEF n
        <5>4. SumOn(f, kept) >= Q * k
          BY <2>11, <2>12, <5>1, <5>2, <5>3
        <5> QED
          BY <5>4 DEF k
      <4> QED
        BY <4>3, <4>4
    <3> QED
      BY <2>5, <3>1, <3>2
  <2>15. Q * Cardinality(kept) \in Int
    BY <2>5, <2>13
  <2>16. ~(RatingSum(kept) < Q * Cardinality(kept))
    BY <2>10, <2>11, <2>14, <2>15
  <2> QED
    BY <2>1, <2>16, BelowThresholdSum DEF Q
<1> QED
  BY <1>1, <1>2, FlagsAssumption

\* The filter and the threshold do not see the types of a column.
LEMMA SameFilter ==
    ASSUME NEW A, NEW B, Untyped(A) = Untyped(B), Filtered(A) = A PROVE Filtered(B) = B
<1>1. ASSUME NEW r \in B, QualityFilter PROVE r \in Filtered(B)
  <2>1. PICK s \in A : s.rating = r.rating
    BY SameRow
  <2>2. s \in Filtered(A)
    BY <2>1
  <2> QED
    BY <1>1, <2>1, <2>2 DEF Filtered, Rated
<1>2. Filtered(B) \subseteq B
  BY DEF Filtered, Rated
<1> QED
  BY <1>1, <1>2 DEF Filtered

LEMMA SamePassing ==
    ASSUME NEW A, NEW B, Untyped(A) = Untyped(B), FiniteRows(A), FiniteRows(B),
           Distinct(A), Distinct(B), BelowThreshold(A)
    PROVE  BelowThreshold(B)
<1> DEFINE S == Rated(A)
           b == [r \in S |-> CHOOSE s \in B : s.id = r.id /\ s.rating = r.rating]
           f == [s \in Rated(B) |-> s.rating]
           g == [r \in S |-> r.rating]
<1>1. ASSUME NEW r \in S
      PROVE  b[r] \in Rated(B) /\ b[r].id = r.id /\ b[r].rating = r.rating
  <2>1. r \in A /\ r.rating # NoRating
    BY DEF Rated
  <2>2. \E s \in B : s.id = r.id /\ s.rating = r.rating
    BY <2>1, SameRow
  <2>3. b[r] \in B /\ b[r].id = r.id /\ b[r].rating = r.rating
    BY <2>2
  <2> HIDE DEF b
  <2> QED
    BY <2>1, <2>3 DEF Rated
<1>2. ASSUME NEW s \in Rated(B) PROVE \E r \in S : b[r] = s
  <2>1. s \in B /\ s.rating # NoRating
    BY DEF Rated
  <2>2. PICK r \in A : r.id = s.id /\ r.rating = s.rating
    BY <2>1, SameRow
  <2>3. r \in S
    BY <2>1, <2>2 DEF Rated
  <2>4. b[r] \in B /\ b[r].id = s.id
    BY <1>1, <2>2, <2>3 DEF Rated
  <2> QED
    BY <2>1, <2>3, <2>4 DEF Distinct
<1> HIDE DEF b
<1>3. Rated(B) = {b[r] : r \in S}
  BY <1>1, <1>2
<1>4. \A r, q \in S : b[r] = b[q] => r = q
  BY <1>1 DEF Distinct, Rated
<1>5. IsFiniteSet(S) /\ IsFiniteSet(Rated(B)) /\ (\A r \in S : r.rating \in Nat)
  BY RatedRows
<1>6. Cardinality(Rated(B)) = Cardinality(S)
  BY <1>3, <1>4, <1>5, ImageSize
<1>7. \A r \in S : g[r] \in Int /\ f[b[r]] = g[r]
  BY <1>1, <1>5
<1>8. (\A r \in S : g[r] = r.rating) /\ (\A s \in Rated(B) : f[s] = s.rating)
  OBVIOUS
<1> HIDE DEF S, f, g
<1>9. SumOn(f, Rated(B)) = SumOn(g, S)
  BY <1>3, <1>4, <1>5, <1>7, SumOfImage
<1>10. RatingSum(Rated(B)) = RatingSum(S)
  BY <1>5, <1>8, <1>9, RatingSumIsSum
<1>11. S # {} /\ RatingSum(S) < QualityThreshold * Cardinality(S)
  BY BelowThresholdSum DEF S
<1> QED
  BY <1>3, <1>6, <1>10, <1>11, BelowThresholdSum

--------------------------------------------------------------------------------
(***************************************************************************)
(* Saved levels stay as they are, if files are whole.                      *)
(***************************************************************************)
\* node keys of the graph of level l, by the file of the level below
NodesOf(l) == IF l = 1 THEN Entities ELSE {r.id : r \in tmp[l - 1]}

\* A file holds a level that passed the quality stop and the filter, or the last level
\* of a run: one that the same clusters end again.
Kept(l, rows) == Filtered(rows) = rows /\ ~(SmartStop /\ l # 1 /\ BelowThreshold(rows))
Last(l) ==
    \E a \in leiden : a.key = <<l, NodesOf(l)>> /\ Cardinality(a.answer.clusters) < MinClusters

StableInv ==
    /\ \A a, b \in leiden : a.key = b.key => a.answer = b.answer
    /\ pc \in {"report", "save", "saveFinal"} => [key |-> LeidenKey, answer |-> cnMapping] \in leiden
    /\ pc = "save" => ~TooFewClusters
    /\ pc = "saveFinal" => TooFewClusters
    /\ pc \in Clustering /\ level \in Levels => graph.nodes = NodesOf(level)
    /\ \A l \in Levels : tmp[l] # NoFile => Kept(l, tmp[l]) \/ Last(l)

\* A level that is loaded is not a last one: Leiden gives the same clusters again.
LEMMA LoadedIsKept ==
    ASSUME IdsInv, StableInv, pc = "save", tmp[level] # NoFile
    PROVE  /\ Kept(level, tmp[level]) /\ Filtered(newDf) = newDf /\ ~QualityStop
           /\ Untyped(newDf) = Untyped(tmp[level])
<1>1. level \in Levels /\ FiniteRows(tmp[level]) /\ FiniteRows(newDf)
      /\ Distinct(tmp[level]) /\ Distinct(newDf)
  BY TablesAreRows
     DEF IdsInv, PlaceInv, TypeInv, MemoryTyped, DiskTyped, ControlTyped, FilesGrow, MemoryGrows,
         LevelTable, Numbered
<1>2. ASSUME Last(level) PROVE FALSE
  <2>1. PICK a \in leiden : a.key = <<level, NodesOf(level)>>
                            /\ Cardinality(a.answer.clusters) < MinClusters
    BY <1>2 DEF Last
  <2>2. a.key = LeidenKey
    BY <1>1, <2>1 DEF StableInv, LeidenKey, Clustering
  <2> DEFINE e == [key |-> LeidenKey, answer |-> cnMapping]
  <2>3. e \in leiden /\ e.key = LeidenKey /\ e.answer = cnMapping
    BY DEF StableInv
  <2> HIDE DEF e
  <2>4. a.answer = cnMapping
    BY <2>2, <2>3 DEF StableInv
  <2> QED
    BY <2>1, <2>4 DEF StableInv, TooFewClusters
<1>3. Kept(level, tmp[level])
  BY <1>1, <1>2 DEF StableInv
<1>4. Untyped(newDf) = Untyped(tmp[level])
  BY DEF IdsInv, MemoryGrows
<1> DEFINE A == newDf
           B == tmp[level]
<1>5. Untyped(A) = Untyped(B) /\ Filtered(B) = B
  BY <1>3, <1>4 DEF Kept
<1>6. FiniteRows(A) /\ FiniteRows(B) /\ Distinct(A) /\ Distinct(B)
  BY <1>1
<1> HIDE DEF A, B
<1>7. Filtered(A) = A
  BY <1>5, SameFilter
<1>8. BelowThreshold(A) => BelowThreshold(B)
  BY <1>5, <1>6, SamePassing
<1>9. level > 1 => level # 1
  OBVIOUS
<1> QED
  BY <1>1, <1>3, <1>4, <1>7, <1>8, BoundsAssumption DEF A, B, QualityStop, Kept, Levels

LEMMA FilesStay ==
    ASSUME NoFile \notin SUBSET Row, ~TornWrites, IdsInv, StableInv, [Next]_vars,
           NEW l \in Levels, tmp[l] # NoFile
    PROVE  tmp'[l] # NoFile /\ Untyped(tmp'[l]) = Untyped(tmp[l])
<1>0. tmp \in [Levels -> {NoFile} \cup Tables] /\ newDf \in Tables
      /\ Filtered(newDf) \in SUBSET newDf
  BY DEF IdsInv, PlaceInv, TypeInv, DiskTyped, MemoryTyped, Filtered, Rated
<1>1. CASE SaveLevel
  <2>1. tmp' = [tmp EXCEPT ![level] = Filtered(newDf)] /\ pc = "save"
    BY <1>1 DEF SaveLevel
  <2>2. CASE l = level
    <3>1. Filtered(newDf) = newDf /\ Untyped(newDf) = Untyped(tmp[level])
      BY <2>1, <2>2, LoadedIsKept
    <3>2. tmp'[l] = newDf /\ newDf # NoFile
      BY <1>0, <2>1, <2>2, <3>1 DEF Tables
    <3> QED
      BY <2>2, <3>1, <3>2
  <2>3. CASE l # level
    BY <1>0, <2>1, <2>3
  <2> QED
    BY <2>2, <2>3
<1>2. CASE SaveFinal
  <2>1. tmp' = [tmp EXCEPT ![level] = newDf] /\ tmp[level] = NoFile
    BY <1>2 DEF SaveFinal, IdsInv, MemoryGrows
  <2> QED
    BY <1>0, <2>1
<1>3. CASE ~SaveLevel /\ ~SaveFinal
  <2>1. tmp' = tmp
    BY <1>3 DEF Next, Step, StartFresh, StartResume, Crash, TornSave, LevelLimit, Cluster,
       LeidenFails, NoCommunities, Report, SkipFinal, LoadLevel, StopOnQuality, Finish, disk, vars
  <2> QED
    BY <2>1
<1> QED
  BY <1>1, <1>2, <1>3

\* The nodes of a level whose level below has a file stay the same.
LEMMA NodesStay ==
    ASSUME NoFile \notin SUBSET Row, ~TornWrites, IdsInv, StableInv, [Next]_vars,
           NEW l \in Levels, l # 1 => tmp[l - 1] # NoFile
    PROVE  NodesOf(l)' = NodesOf(l)
<1>1. CASE l = 1
  BY <1>1 DEF NodesOf
<1>2. CASE l # 1
  <2> DEFINE A == tmp[l - 1]
             B == tmp'[l - 1]
  <2>1. l - 1 \in Levels
    BY <1>2, BoundsAssumption DEF Levels
  <2>2. Untyped(B) = Untyped(A)
    BY <1>2, <2>1, FilesStay
  <2> HIDE DEF A, B
  <2>3. \A r \in A : \E s \in B : s.id = r.id
    BY <2>2, SameRow
  <2>4. \A r \in B : \E s \in A : s.id = r.id
    BY <2>2, SameRow
  <2>5. {r.id : r \in A} = {r.id : r \in B}
    BY <2>3, <2>4
  <2> QED
    BY <1>2, <2>5 DEF NodesOf, A, B
<1> QED
  BY <1>1, <1>2

LEMMA BelowHasFile ==
    ASSUME IdsInv, pc \in Clustering, level \in Levels, level # 1 PROVE tmp[level - 1] # NoFile
<1>1. level - 1 \in 1 .. level - 1
  BY BoundsAssumption DEF Levels
<1> QED
  BY <1>1 DEF IdsInv, PlaceInv, MemoryMatchesFiles, Clustering

LEMMA NextKept ==
    ASSUME NoFile \notin SUBSET Row, ~TornWrites, IdsInv, StableInv, [Next]_vars
    PROVE  (\A l \in Levels : tmp[l] # NoFile => Kept(l, tmp[l]) \/ Last(l))'
<1> SUFFICES ASSUME NEW l \in Levels, tmp'[l] # NoFile PROVE Kept(l, tmp'[l]) \/ Last(l)'
  OBVIOUS
<1>0. tmp \in [Levels -> {NoFile} \cup Tables] /\ newDf \in Tables
  BY DEF IdsInv, PlaceInv, TypeInv, DiskTyped, MemoryTyped
<1>1. leiden \subseteq leiden'
  BY DEF Next, Step, StartFresh, StartResume, Crash, TornSave, LevelLimit, Cluster, LeidenFails,
     NoCommunities, Report, SkipFinal, LoadLevel, SaveFinal, StopOnQuality, SaveLevel, Finish, vars
<1>2. CASE tmp'[l] = tmp[l]
  <2>1. CASE Kept(l, tmp[l])
    BY <1>2, <2>1
  <2>2. CASE Last(l)
    <3>1. l # 1 => tmp[l - 1] # NoFile
      <4>1. l # 1 => l - 1 \in Levels /\ l - 1 < l
        BY BoundsAssumption DEF Levels
      <4> QED
        BY <1>2, <4>1 DEF IdsInv, FilesGrow
    <3>2. NodesOf(l)' = NodesOf(l)
      BY <3>1, NodesStay
    <3>3. PICK a \in leiden : a.key = <<l, NodesOf(l)>>
                              /\ Cardinality(a.answer.clusters) < MinClusters
      BY <2>2 DEF Last
    <3> QED
      BY <1>1, <3>2, <3>3 DEF Last
  <2> QED
    BY <1>2, <2>1, <2>2 DEF StableInv
<1>3. CASE tmp'[l] # tmp[l] /\ SaveLevel
  <2>1. /\ tmp' = [tmp EXCEPT ![level] = Filtered(newDf)] /\ pc = "save" /\ ~QualityStop
        /\ level \in Levels
    BY <1>3 DEF SaveLevel, IdsInv, PlaceInv, TypeInv, ControlTyped
  <2>2. l = level /\ tmp'[l] = Filtered(newDf)
    BY <1>0, <1>3, <2>1
  <2>3. Filtered(Filtered(newDf)) = Filtered(newDf)
    BY DEF Filtered, Rated
  <2>4. level # 1 => level > 1
    BY <2>1, BoundsAssumption DEF Levels
  <2>5. ASSUME SmartStop, level # 1 PROVE ~BelowThreshold(Filtered(newDf))
    BY <1>0, <2>1, <2>4, <2>5, FilterKeepsPassing, TablesAreRows DEF QualityStop
  <2> QED
    BY <2>2, <2>3, <2>5 DEF Kept
<1>4. CASE tmp'[l] # tmp[l] /\ SaveFinal
  <2>1. /\ tmp' = [tmp EXCEPT ![level] = newDf] /\ pc = "saveFinal" /\ leiden' = leiden
        /\ level \in Levels
    BY <1>4 DEF SaveFinal, IdsInv, PlaceInv, TypeInv, ControlTyped
  <2>2. l = level
    BY <1>0, <1>4, <2>1
  <2>3. l # 1 => tmp[l - 1] # NoFile
    BY <2>1, <2>2, BelowHasFile DEF Clustering
  <2>4. NodesOf(l)' = graph.nodes
    <3>1. NodesOf(l)' = NodesOf(l)
      BY <2>3, NodesStay
    <3> QED
      BY <2>1, <2>2, <3>1 DEF StableInv, Clustering
  <2> DEFINE e == [key |-> LeidenKey, answer |-> cnMapping]
  <2>5. e \in leiden /\ e.key = <<level, graph.nodes>> /\ e.answer = cnMapping
    BY <2>1 DEF StableInv, LeidenKey
  <2> HIDE DEF e
  <2>6. Cardinality(cnMapping.clusters) < MinClusters
    BY <2>1 DEF StableInv, TooFewClusters
  <2> QED
    BY <2>1, <2>2, <2>4, <2>5, <2>6 DEF Last
<1>5. CASE tmp'[l] # tmp[l] /\ ~SaveLevel /\ ~SaveFinal
  BY <1>5 DEF Next, Step, StartFresh, StartResume, Crash, TornSave, LevelLimit, Cluster,
     LeidenFails, NoCommunities, Report, SkipFinal, LoadLevel, StopOnQuality, Finish, disk, vars
<1> QED
  BY <1>2, <1>3, <1>4, <1>5

\* What Leiden is asked about and what it has answered.
AskedInv ==
    /\ \A a, b \in leiden : a.key = b.key => a.answer = b.answer
    /\ pc \in {"report", "save", "saveFinal"} => [key |-> LeidenKey, answer |-> cnMapping] \in leiden
    /\ pc = "save" => ~TooFewClusters
    /\ pc = "saveFinal" => TooFewClusters
    /\ pc \in Clustering /\ level \in Levels => graph.nodes = NodesOf(level)

LEMMA NextAsked ==
    ASSUME NoFile \notin SUBSET Row, ~TornWrites, IdsInv, StableInv, [Next]_vars PROVE AskedInv'
<1>0. AskedInv
  BY DEF StableInv, AskedInv
<1>1. CASE Cluster
  <2>1. PICK answer \in IF Remembered # {} THEN {a.answer : a \in Remembered}
                        ELSE LeidenAnswers(graph) :
           /\ leiden' = leiden \cup {[key |-> LeidenKey, answer |-> answer]}
           /\ cnMapping' = answer
    BY <1>1 DEF Cluster
  <2> DEFINE e == [key |-> LeidenKey, answer |-> answer]
  <2>2. UNCHANGED <<level, graph, tmp>> /\ pc = "cluster" /\ pc' \in {"finish", "report"}
    BY <1>1 DEF Cluster, disk
  <2>3. \A a \in leiden : a.key = LeidenKey => a.answer = answer
    <3>1. CASE Remembered # {}
      <4>1. PICK a \in leiden : a.key = LeidenKey /\ a.answer = answer
        BY <2>1, <3>1 DEF Remembered
      <4> QED
        BY <1>0, <4>1 DEF AskedInv
    <3>2. CASE Remembered = {}
      BY <3>2 DEF Remembered
    <3> QED
      BY <3>1, <3>2
  <2>4. e.key = LeidenKey /\ e.answer = answer /\ leiden' = leiden \cup {e}
    BY <2>1
  <2>5. LeidenKey' = LeidenKey /\ NodesOf(level)' = NodesOf(level)
    BY <2>2 DEF LeidenKey, NodesOf
  <2>6. [key |-> LeidenKey', answer |-> cnMapping'] \in leiden'
    BY <2>1, <2>5
  <2> HIDE DEF e
  <2>7. \A a, b \in leiden' : a.key = b.key => a.answer = b.answer
    BY <1>0, <2>3, <2>4 DEF AskedInv
  <2>8. pc' \in Clustering /\ level' \in Levels => graph'.nodes = NodesOf(level)'
    BY <1>0, <2>2, <2>5 DEF AskedInv, Clustering
  <2> QED
    BY <2>2, <2>6, <2>7, <2>8 DEF AskedInv
<1>2. CASE ~Cluster
  <2>1. leiden' = leiden
    BY <1>2 DEF Next, Step, StartFresh, StartResume, Crash, TornSave, LevelLimit, LeidenFails,
       NoCommunities, Report, SkipFinal, LoadLevel, SaveFinal, StopOnQuality, SaveLevel, Finish,
       vars
  <2>2. CASE SaveLevel
    <3> DEFINE rows == Filtered(newDf)
    <3>1. /\ tmp' = [tmp EXCEPT ![level] = rows] /\ level' = level + 1 /\ pc' = "cluster"
          /\ graph' = Reconstruct(rows) /\ level \in Levels
      BY <2>2 DEF SaveLevel, IdsInv, PlaceInv, TypeInv, ControlTyped
    <3>2. level' # 1 /\ level' - 1 = level
      BY <3>1, BoundsAssumption DEF Levels
    <3>3. tmp'[level] = rows
      BY <3>1 DEF IdsInv, PlaceInv, TypeInv, DiskTyped
    <3>4. graph'.nodes = {r.id : r \in rows}
      BY <3>1 DEF Reconstruct
    <3>5. NodesOf(level)' = {r.id : r \in rows}
      BY <3>2, <3>3 DEF NodesOf
    <3> QED
      BY <1>0, <2>1, <3>1, <3>4, <3>5 DEF AskedInv
  <2>3. CASE StartFresh
    <3>1. pc' = "cluster" /\ level' = 1 /\ graph'.nodes = Entities
      BY <2>3, NewMemory DEF StartFresh, FreshMemory
    <3> QED
      BY <1>0, <2>1, <3>1 DEF AskedInv, NodesOf
  <2>4. CASE ~SaveLevel /\ ~StartFresh
    <3>1. \/ pc' \notin Clustering
          \/ /\ UNCHANGED <<level, graph, cnMapping, tmp>>
             /\ \/ pc' = pc
                \/ pc = "report" /\ pc' = IF TooFewClusters THEN "saveFinal" ELSE "save"
      BY <1>2, <2>4 DEF Next, Step, StartResume, Crash, TornSave, LevelLimit, LeidenFails,
         NoCommunities, Report, SkipFinal, LoadLevel, SaveFinal, StopOnQuality, Finish,
         vars, memory, disk, Clustering
    <3>2. CASE pc' \notin Clustering
      BY <1>0, <2>1, <3>2 DEF AskedInv, Clustering
    <3>3. CASE UNCHANGED <<level, graph, cnMapping, tmp>>
               /\ \/ pc' = pc
                  \/ pc = "report" /\ pc' = IF TooFewClusters THEN "saveFinal" ELSE "save"
      BY <1>0, <2>1, <3>3 DEF AskedInv, Clustering, LeidenKey, NodesOf, TooFewClusters
    <3> QED
      BY <3>1, <3>2, <3>3
  <2> QED
    BY <2>2, <2>3, <2>4
<1> QED
  BY <1>1, <1>2

LEMMA AlwaysStable ==
    ASSUME NoFile \notin SUBSET Row, ~TornWrites PROVE Spec => [](IdsInv /\ StableInv)
<1>1. Init => StableInv
  <2> SUFFICES ASSUME Init PROVE StableInv
    OBVIOUS
  <2>1. pc = "down" /\ leiden = {} /\ \A l \in Levels : tmp[l] = NoFile
    BY DEF Init
  <2> QED
    BY <2>1 DEF StableInv, Clustering
<1>2. IdsInv /\ StableInv /\ [Next]_vars => StableInv'
  <2> SUFFICES ASSUME IdsInv, StableInv, [Next]_vars PROVE StableInv'
    OBVIOUS
  <2>1. AskedInv'
    BY NextAsked
  <2>2. (\A l \in Levels : tmp[l] # NoFile => Kept(l, tmp[l]) \/ Last(l))'
    BY NextKept
  <2> QED
    BY <2>1, <2>2 DEF StableInv, AskedInv
<1> QED
  BY <1>1, <1>2, AlwaysIds, PTL DEF Spec

\* A saved level is never replaced by other communities or other ratings: a later run
\* loads it and writes the same rows, as Leiden gives the same clusters for the same
\* graph and the filter finds nothing more to remove.
THEOREM SavedLevelsStay ==
    ASSUME NoFile \notin SUBSET Row, ~TornWrites PROVE Spec => SavedLevelsStable
<1>1. IdsInv /\ StableInv /\ [Next]_vars
        => [\A l \in Levels : tmp[l] # NoFile =>
               tmp'[l] # NoFile /\ Untyped(tmp'[l]) = Untyped(tmp[l])]_vars
  BY FilesStay
<1> QED
  BY <1>1, AlwaysStable, PTL DEF Spec, SavedLevelsStable

\* A level that is loaded passes the quality stop, as it did before the filter.
THEOREM LoadedLevelsPass ==
    ASSUME NoFile \notin SUBSET Row, ~TornWrites PROVE Spec => []LoadedLevelPasses
<1>1. IdsInv /\ StableInv => LoadedLevelPasses
  BY LoadedIsKept DEF LoadedLevelPasses
<1> QED
  BY <1>1, AlwaysStable, PTL

--------------------------------------------------------------------------------
(***************************************************************************)
(* Communities are made of communities of the level below.                 *)
(***************************************************************************)
Nested(rows, below) ==
    \A r \in rows : \A e \in r.nodes : \E s \in below : e \in s.nodes /\ s.nodes \subseteq r.nodes

AllNested(rows) ==
    \A r \in rows : r.level > 1 => \A e \in r.nodes :
        \E s \in rows : s.level = r.level - 1 /\ e \in s.nodes /\ s.nodes \subseteq r.nodes

NestInv ==
    /\ \A l \in Levels : l # 1 /\ tmp[l] # NoFile => Nested(tmp[l], tmp[l - 1])
    /\ pc \in {"save", "saveFinal"} /\ level # 1 => Nested(newDf, LevelRows(level - 1, communityDf))
    /\ AllNested(communityDf)
    /\ intermediate # NoFile => AllNested(intermediate)

\* Nesting does not depend on the types of a table.
LEMMA NestedAlike ==
    ASSUME NEW A, NEW B, NEW lowA, NEW lowB, Untyped(A) = Untyped(B),
           Untyped(lowA) = Untyped(lowB), Nested(A, lowA)
    PROVE  Nested(B, lowB)
<1> SUFFICES ASSUME NEW r \in B, NEW e \in r.nodes
             PROVE  \E s \in lowB : e \in s.nodes /\ s.nodes \subseteq r.nodes
  BY DEF Nested
<1>1. PICK q \in A : q.nodes = r.nodes
  BY SameRow
<1>2. PICK t \in lowA : e \in t.nodes /\ t.nodes \subseteq q.nodes
  BY <1>1 DEF Nested
<1>3. PICK s \in lowB : s.nodes = t.nodes
  BY SameRow
<1> QED
  BY <1>1, <1>2, <1>3

LEMMA LoadedNested ==
    ASSUME NEW rows, FiniteRows(rows), AllNested(rows) PROVE AllNested(LoadCsv(rows))
<1> DEFINE loaded == LoadCsv(rows)
<1>1. Untyped(loaded) = Untyped(rows)
  BY LoadCsvType
<1> HIDE DEF loaded
<1> SUFFICES ASSUME NEW r \in loaded, r.level > 1, NEW e \in r.nodes
             PROVE  \E s \in loaded : s.level = r.level - 1 /\ e \in s.nodes /\ s.nodes \subseteq r.nodes
  BY DEF AllNested, loaded
<1>2. PICK q \in rows : q.nodes = r.nodes /\ q.level = r.level
  BY <1>1, SameRow
<1>3. PICK t \in rows : t.level = q.level - 1 /\ e \in t.nodes /\ t.nodes \subseteq q.nodes
  BY <1>2 DEF AllNested
<1>4. PICK s \in loaded : s.nodes = t.nodes /\ s.level = t.level
  BY <1>1, SameRow
<1> QED
  BY <1>2, <1>3, <1>4

\* The level under way is added to the levels below it.
LEMMA AddedNested ==
    ASSUME NEW rows, NEW low, NEW l \in Levels, AllNested(low),
           l # 1 => Nested(rows, LevelRows(l - 1, low)), \A r \in rows : r.level = l
    PROVE  AllNested(low \cup rows)
<1> SUFFICES ASSUME NEW r \in low \cup rows, r.level > 1, NEW e \in r.nodes
             PROVE  \E s \in low : s.level = r.level - 1 /\ e \in s.nodes /\ s.nodes \subseteq r.nodes
  BY DEF AllNested
<1>1. CASE r \in low
  BY <1>1 DEF AllNested
<1>2. CASE r \in rows
  <2>1. r.level = l /\ l # 1
    BY <1>2
  <2> QED
    BY <1>2, <2>1 DEF Nested, LevelRows
<1> QED
  BY <1>1, <1>2

\* A community of a report is the union of the communities whose ids are in its cluster.
LEMMA ReportNested ==
    ASSUME IdsInv, Report, level # 1 PROVE Nested(newDf', LevelRows(level - 1, communityDf))
<1> DEFINE cs == Resized(level, cnMapping, graph, communityDf)
<1>1. /\ graph.nodes \in SUBSET Int /\ IsFiniteSet(graph.nodes) /\ FiniteRows(communityDf)
      /\ Answer(cnMapping, graph.nodes) /\ Sound(cnMapping, graph.nodes) /\ level \in Levels
      /\ pc = "report" /\ cnMapping.clusters # {} /\ newDf' \in Reports(level, cs)
  BY TablesAreRows
     DEF IdsInv, PlaceInv, TypeInv, ControlTyped, MemoryTyped, AnswersSound, Report
<1>2. level > 1
  BY <1>1, BoundsAssumption DEF Levels
<1>3. \A x \in cs : \E c \in cnMapping.clusters :
         x.nodes = CommunityNodes(c, graph.kind, communityDf)
  <2>1. CASE CurMaxId(communityDf) = NanId
    BY <1>1, <2>1, ResizedNan
  <2>2. CASE CurMaxId(communityDf) # NanId
    <3>1. \E f : Names(f, level, cnMapping, graph, communityDf)
      BY <1>1, <2>2, ResizedNames
    <3> QED
      BY <3>1 DEF Names
  <2> QED
    BY <2>1, <2>2
<1>4. Numbered(level, cs)
  BY <1>1, ResizedNumbered
<1> HIDE DEF cs
<1> SUFFICES ASSUME NEW r \in newDf', NEW e \in r.nodes
             PROVE  \E s \in LevelRows(level - 1, communityDf) :
                       e \in s.nodes /\ s.nodes \subseteq r.nodes
  BY DEF Nested
<1>5. PICK x \in cs : r.nodes = x.nodes
  BY <1>1, <1>4, ReportedTable
<1>6. PICK c \in cnMapping.clusters : r.nodes = CommunityNodes(c, graph.kind, communityDf)
  BY <1>3, <1>5
<1>7. PICK n \in c : \E s \in RowsOf(n, graph.kind, communityDf) : e \in s.nodes
  BY <1>6 DEF CommunityNodes
<1>8. n \in graph.nodes
  BY <1>1 DEF Answer
<1>9. PICK s \in communityDf : s.level = level - 1 /\ RowsOf(n, graph.kind, communityDf) = {s}
  BY <1>1, <1>2, <1>8, NodeFound
<1>10. s \in LevelRows(level - 1, communityDf) /\ e \in s.nodes
  BY <1>7, <1>9 DEF LevelRows
<1>11. s.nodes \subseteq r.nodes
  BY <1>6, <1>9 DEF CommunityNodes
<1> QED
  BY <1>10, <1>11

\* The files nest whatever is written: the level under way does, those that are there stay.
LEMMA NextFilesNest ==
    ASSUME NoFile \notin SUBSET Row, ~TornWrites, IdsInv, StableInv, NestInv, [Next]_vars
    PROVE  (\A l \in Levels : l # 1 /\ tmp[l] # NoFile => Nested(tmp[l], tmp[l - 1]))'
<1> SUFFICES ASSUME NEW l \in Levels, l # 1, tmp'[l] # NoFile PROVE Nested(tmp'[l], tmp'[l - 1])
  OBVIOUS
<1>0. /\ tmp \in [Levels -> {NoFile} \cup Tables] /\ newDf \in Tables
      /\ Filtered(newDf) \in SUBSET newDf /\ l - 1 \in Levels /\ l - 1 < l /\ l - 1 # l
  BY BoundsAssumption
     DEF IdsInv, PlaceInv, TypeInv, DiskTyped, MemoryTyped, Filtered, Rated, Levels
<1>1. CASE tmp[l] # NoFile
  <2>1. tmp[l - 1] # NoFile
    BY <1>0, <1>1 DEF IdsInv, FilesGrow
  <2> DEFINE A == tmp[l]
             B == tmp'[l]
             lowA == tmp[l - 1]
             lowB == tmp'[l - 1]
  <2>2. Untyped(B) = Untyped(A)
    BY <1>1, FilesStay
  <2>3. Untyped(lowB) = Untyped(lowA)
    BY <1>0, <2>1, FilesStay
  <2>4. Nested(A, lowA)
    BY <1>1 DEF NestInv
  <2> HIDE DEF A, B, lowA, lowB
  <2>5. Nested(B, lowB)
    BY <2>2, <2>3, <2>4, NestedAlike
  <2> QED
    BY <2>5 DEF B, lowB
<1>2. CASE tmp[l] = NoFile
  <2>1. /\ pc \in {"save", "saveFinal"} /\ level = l
        /\ \E part \in SUBSET newDf : tmp' = [tmp EXCEPT ![level] = part]
    <3>1. CASE SaveLevel
      <4>1. tmp' = [tmp EXCEPT ![level] = Filtered(newDf)] /\ pc = "save"
        BY <3>1 DEF SaveLevel
      <4> QED
        BY <1>0, <1>2, <4>1
    <3>2. CASE SaveFinal
      <4>1. tmp' = [tmp EXCEPT ![level] = newDf] /\ pc = "saveFinal"
        BY <3>2 DEF SaveFinal
      <4> QED
        BY <1>0, <1>2, <4>1
    <3>3. CASE ~SaveLevel /\ ~SaveFinal
      <4>1. tmp' = tmp
        BY <3>3 DEF Next, Step, StartFresh, StartResume, Crash, TornSave, LevelLimit, Cluster,
           LeidenFails, NoCommunities, Report, SkipFinal, LoadLevel, StopOnQuality, Finish, disk, vars
      <4> QED
        BY <1>2, <4>1
    <3> QED
      BY <3>1, <3>2, <3>3
  <2>2. PICK part \in SUBSET newDf : tmp' = [tmp EXCEPT ![level] = part]
    BY <2>1
  <2>3. tmp'[l] = part /\ tmp'[l - 1] = tmp[l - 1]
    BY <1>0, <2>1, <2>2
  <2>4. Nested(part, LevelRows(level - 1, communityDf))
    BY <2>1, <2>2 DEF NestInv, Nested
  <2>5. Untyped(LevelRows(level - 1, communityDf)) = Untyped(tmp[level - 1])
    <3>1. level - 1 \in 1 .. level - 1
      BY <1>0, <2>1, BoundsAssumption DEF Levels
    <3> QED
      BY <2>1, <3>1 DEF IdsInv, PlaceInv, MemoryMatchesFiles
  <2> DEFINE low == LevelRows(level - 1, communityDf)
             file == tmp[l - 1]
  <2>6. Untyped(low) = Untyped(file) /\ Nested(part, low)
    BY <2>1, <2>4, <2>5
  <2> HIDE DEF low, file
  <2>7. Nested(part, file)
    BY <2>6, NestedAlike
  <2> QED
    BY <2>3, <2>7 DEF file
<1> QED
  BY <1>1, <1>2

\* A level that is loaded nests in the level below as its file does.
LEMMA LoadNested ==
    ASSUME IdsInv, NestInv, LoadLevel, level # 1
    PROVE  Nested(newDf', LevelRows(level - 1, communityDf))
<1>1. /\ level \in Levels /\ tmp[level] # NoFile /\ newDf' = LoadCsv(tmp[level])
      /\ FiniteRows(tmp[level]) /\ pc = "report"
  BY TablesAreRows
     DEF LoadLevel, IdsInv, PlaceInv, TypeInv, ControlTyped, MemoryTyped, DiskTyped
<1>2. level - 1 \in 1 .. level - 1
  BY <1>1, BoundsAssumption DEF Levels
<1> DEFINE A == tmp[level]
           B == newDf'
           lowA == tmp[level - 1]
           lowB == LevelRows(level - 1, communityDf)
<1>3. Untyped(lowB) = Untyped(lowA)
  BY <1>1, <1>2 DEF IdsInv, PlaceInv, MemoryMatchesFiles
<1>4. Untyped(B) = Untyped(A)
  BY <1>1, LoadCsvType
<1>5. Nested(A, lowA)
  BY <1>1 DEF NestInv
<1> HIDE DEF A, B, lowA, lowB
<1>6. Nested(B, lowB)
  BY <1>3, <1>4, <1>5, NestedAlike
<1> QED
  BY <1>6 DEF B, lowB

LEMMA NextNested ==
    ASSUME NoFile \notin SUBSET Row, ~TornWrites, IdsInv, StableInv, NestInv, [Next]_vars
    PROVE  NestInv'
<1>0. /\ newDf \in Tables /\ communityDf \in Tables /\ Filtered(newDf) \in SUBSET newDf
      /\ intermediate # NoFile => FiniteRows(intermediate)
      /\ AllNested(communityDf) /\ (intermediate # NoFile => AllNested(intermediate))
  BY TablesAreRows
     DEF IdsInv, PlaceInv, TypeInv, DiskTyped, MemoryTyped, Filtered, Rated, NestInv
<1>1. (\A l \in Levels : l # 1 /\ tmp[l] # NoFile => Nested(tmp[l], tmp[l - 1]))'
  BY NextFilesNest
<1>2. AllNested({})
  BY DEF AllNested
<1> SUFFICES /\ pc' \in {"save", "saveFinal"} /\ level' # 1
                  => Nested(newDf', LevelRows(level' - 1, communityDf'))
             /\ AllNested(communityDf')
             /\ intermediate' # NoFile => AllNested(intermediate')
  BY <1>1 DEF NestInv
<1>3. CASE SaveFinal \/ SaveLevel
  <2>1. PICK part \in SUBSET newDf : communityDf' = communityDf \cup part
    BY <1>0, <1>3 DEF SaveFinal, SaveLevel
  <2>2. /\ pc \in {"save", "saveFinal"} /\ pc' \notin {"save", "saveFinal"}
        /\ intermediate' = intermediate
    BY <1>3 DEF SaveFinal, SaveLevel
  <2>3. level \in Levels /\ \A r \in part : r.level = level
    BY <2>2 DEF IdsInv, PlaceInv, TypeInv, ControlTyped, LevelsInPlace
  <2>4. level # 1 => Nested(part, LevelRows(level - 1, communityDf))
    BY <2>2 DEF NestInv, Nested
  <2>5. AllNested(communityDf \cup part)
    BY <1>0, <2>3, <2>4, AddedNested
  <2> QED
    BY <1>0, <2>1, <2>2, <2>5
<1>4. CASE Report
  <2>1. UNCHANGED <<level, communityDf, intermediate>>
    BY <1>4 DEF Report, disk
  <2> QED
    BY <1>0, <1>4, <2>1, ReportNested
<1>5. CASE LoadLevel
  <2>1. UNCHANGED <<level, communityDf, intermediate>>
    BY <1>5 DEF LoadLevel, disk
  <2> QED
    BY <1>0, <1>5, <2>1, LoadNested
<1>6. CASE StartResume
  <2>1. /\ intermediate # NoFile /\ intermediate' = intermediate
        /\ communityDf' = {} \/ communityDf' = LoadCsv(intermediate)
        /\ pc' \in {"failed", "finish"}
    BY <1>6 DEF StartResume, disk
  <2>2. AllNested(LoadCsv(intermediate))
    BY <1>0, <2>1, LoadedNested
  <2> QED
    BY <1>0, <1>2, <2>1, <2>2
<1>7. CASE ~SaveFinal /\ ~SaveLevel /\ ~Report /\ ~LoadLevel /\ ~StartResume
  <2>1. intermediate' \in {intermediate, communityDf} /\ communityDf' \in {communityDf, {}}
    BY <1>7 DEF Next, Step, StartFresh, Crash, LevelLimit, Cluster, LeidenFails, FreshMemory,
       NoCommunities, SkipFinal, StopOnQuality, Finish, TornSave, disk, memory, vars
  <2>2. pc' \notin {"save", "saveFinal"} \/ UNCHANGED <<pc, level, newDf, communityDf>>
    BY <1>7 DEF Next, Step, StartFresh, Crash, LevelLimit, Cluster, LeidenFails,
       NoCommunities, SkipFinal, StopOnQuality, Finish, TornSave, memory, vars
  <2> QED
    BY <1>0, <1>2, <2>1, <2>2 DEF NestInv
<1> QED
  BY <1>3, <1>4, <1>5, <1>6, <1>7

\* A community above level 1 is the union of communities one level below, after the
\* filter, crashes and reloads too, as long as files are whole.
THEOREM HierarchyNests ==
    ASSUME NoFile \notin SUBSET Row, ~TornWrites PROVE Spec => []CommunitiesNest
<1>1. Init => NestInv
  BY BoundsAssumption DEF Init, NestInv, AllNested
<1>2. IdsInv /\ StableInv /\ NestInv /\ [Next]_vars => NestInv'
  BY NextNested
<1>3. NestInv => CommunitiesNest
  <2> SUFFICES ASSUME NestInv, NEW r \in communityDf, r.level > 1
               PROVE  r.nodes = UNION {s.nodes : s \in
                         {x \in communityDf : x.level = r.level - 1 /\ x.nodes \subseteq r.nodes}}
    BY DEF CommunitiesNest
  <2>1. \A e \in r.nodes : \E s \in communityDf :
           s.level = r.level - 1 /\ e \in s.nodes /\ s.nodes \subseteq r.nodes
    BY DEF NestInv, AllNested
  <2> QED
    BY <2>1
<1> QED
  BY <1>1, <1>2, <1>3, AlwaysStable, PTL DEF Spec

================================================================================
