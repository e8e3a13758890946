------------------------------ MODULE HCHNSWSearch ------------------------------
(***************************************************************************)
(* Searching one level of a finished C-HNSW index: HCHNSW::search,         *)
(* search_from_candidates, search_from_candidate_unbounded and MinimaxHeap *)
(* (impl/HCHNSW.cpp).                                                      *)
(*                                                                         *)
(* A search descends greedily from the highest level, one cross link per   *)
(* level, then grows a beam on the level asked for.  The beam is a         *)
(* MinimaxHeap of limited size whose popped entries keep their slot, or a  *)
(* pair of priority queues.  The index is what HCHNSW builds: lists stay   *)
(* on their level, and every vector above level 0 has a cross link.        *)
(***************************************************************************)
EXTENDS Integers, FiniteSets, Sequences, Functions

CONSTANTS
    Vectors, ML, Level,
    Indexes,     \* the neighbor lists a finished index may have
    Cross,       \* cross_neighbors
    First,       \* first_entry_points_in_level[max_level]
    Queries,
    Dist,        \* qdis: distance of a query to a vector
    EfSearches,  \* bound: values of params->efSearch
    MaxK,        \* bound: largest k asked for
    NoVector

LevelsOf == 0 .. ML
AtLevel(l) == {v \in Vectors : Level[v] = l}

ASSUME VectorsAssumption == IsFiniteSet(Vectors) /\ NoVector \notin Vectors
ASSUME SizeAssumption == ML \in Nat /\ EfSearches \subseteq Nat \ {0} /\ MaxK \in Nat \ {0}
ASSUME LevelAssumption == Level \in [Vectors -> LevelsOf]
ASSUME DistAssumption == Dist \in [Queries -> [Vectors -> Nat]]
ASSUME IndexAssumption ==
    /\ Indexes \subseteq [Vectors -> Seq(Vectors)]
    /\ \A lists \in Indexes, v \in Vectors : Range(lists[v]) \subseteq AtLevel(Level[v])
    /\ Cross \in [Vectors -> Vectors \cup {NoVector}]
    /\ \A v \in Vectors : Level[v] # 0 => Cross[v] \in AtLevel(Level[v] - 1)
    /\ First \in AtLevel(ML)

VARIABLES
    nbrs,      \* neighbors[v], chosen once
    ask,       \* the query, k and the SearchParametersHCHNSW, chosen once
    pc,        \* "descend", "pop", "visit" or "done"
    lvl,       \* level of the descent
    nearest,   \* nearest of the descent
    visited,   \* VisitedTable
    heap,      \* MinimaxHeap: ids in slots, those not popped yet, and nvalid
    top, cand, \* top_candidates and candidates of the unbounded search
    node, nxt, \* v0 and j: the vector being expanded, its next neighbor
    res        \* results, the heap of ResultHandler

fixed == <<nbrs, ask>>
descent == <<lvl, nearest>>
queues == <<top, cand>>
vars == <<fixed, pc, descent, visited, heap, queues, node, nxt, res>>

D(v) == Dist[ask.q][v]

BiggerOf(a, b) == IF a >= b THEN a ELSE b

NearestOf(S) == {v \in S : \A w \in S : D(v) <= D(w)}
FarthestOf(S) == {v \in S : \A w \in S : D(v) >= D(w)}

SmallerOf(a, b) == IF a <= b THEN a ELSE b

\* R holds the n nearest of S
Best(n, R, S) ==
    /\ R \subseteq S
    /\ Cardinality(R) = SmallerOf(n, Cardinality(S))
    /\ \A v \in R, w \in S \ R : D(v) <= D(w)

\* what a round of greedy_update_nearest moves to
Closer == {w \in NearestOf(Range(nbrs[nearest])) : D(w) < D(nearest)}

--------------------------------------------------------------------------------
(***************************************************************************)
(* The queues.                                                             *)
(***************************************************************************)
\* faulty: the results are full and stay what they are
AddResultNoMore(v) == IF Cardinality(res) < ask.k THEN {res \cup {v}} ELSE {res}

\* a heap of n entries: fill it up, then replace a farthest entry by a nearer one
KeepNearest(S, n, v) ==
    IF Cardinality(S) < n THEN {S \cup {v}}
    ELSE IF \E w \in S : D(v) < D(w) THEN {(S \ {w}) \cup {v} : w \in FarthestOf(S)}
    ELSE {S}

\* add_result
AddResult(v) == KeepNearest(res, ask.k, v)

HeapSize == BiggerOf(ask.efSearch, ask.k)

NoHeap == [slots |-> {}, valid |-> {}, nvalid |-> 0]

\* MinimaxHeap::push: a full heap gives up a farthest entry, popped or not
Push(v) ==
    IF Cardinality(heap.slots) < HeapSize
    THEN {[slots |-> heap.slots \cup {v}, valid |-> heap.valid \cup {v},
           nvalid |-> heap.nvalid + 1]}
    ELSE IF \A w \in heap.slots : D(v) >= D(w) THEN {heap}
    ELSE {[slots |-> (heap.slots \ {w}) \cup {v}, valid |-> (heap.valid \ {w}) \cup {v},
           nvalid |-> IF w \in heap.valid THEN heap.nvalid ELSE heap.nvalid + 1] :
             w \in FarthestOf(heap.slots)}

\* faulty: the entry is not invalidated
PoppedNot(v) == heap

\* MinimaxHeap::pop_min: the entry keeps its slot
Popped(v) ==
    [slots |-> heap.slots, valid |-> heap.valid \ {v}, nvalid |-> heap.nvalid - 1]

\* add_to_heap of the unbounded search
Offer(v) == KeepNearest(top, HeapSize, v)

--------------------------------------------------------------------------------
\* a search starts at the first entry of the highest level, or below the entry point
\* it was given, a vector of the level above the one to search
MayEnter(l) == {NoVector} \cup {v \in Vectors : Level[v] = l + 1}
Asks ==
    UNION {[q : Queries, k : 1 .. MaxK, level : {l}, entry : MayEnter(l),
            efSearch : EfSearches, bounded : BOOLEAN] : l \in LevelsOf}

StartLevel == IF ask.entry = NoVector THEN ML ELSE ask.level

Start == IF ask.entry = NoVector THEN First ELSE Cross[ask.entry]

Init ==
    /\ nbrs \in Indexes
    /\ ask \in Asks
    /\ pc = "descend" /\ lvl = StartLevel /\ nearest = Start
    /\ visited = {} /\ heap = NoHeap /\ top = {} /\ cand = {}
    /\ node = NoVector /\ nxt = 1
    /\ res = {}

Hop ==
    /\ pc = "descend"
    /\ nearest' \in Closer
    /\ UNCHANGED <<fixed, pc, lvl, visited, heap, queues, node, nxt, res>>

\* next_level_entry = cross_neighbors[nearest]
Down ==
    /\ pc = "descend" /\ Closer = {} /\ lvl > ask.level
    /\ nearest' = Cross[nearest]
    /\ lvl' = lvl - 1
    /\ UNCHANGED <<fixed, pc, visited, heap, queues, node, nxt, res>>

\* the nearest vector of the level is the first candidate
StartBounded ==
    /\ pc = "descend" /\ Closer = {} /\ lvl = ask.level /\ ask.bounded
    /\ heap' \in Push(nearest)
    /\ res' \in AddResult(nearest)
    /\ visited' = {nearest}
    /\ pc' = "pop"
    /\ UNCHANGED <<fixed, descent, queues, node, nxt>>

StartUnbounded ==
    /\ pc = "descend" /\ Closer = {} /\ lvl = ask.level /\ ~ask.bounded
    /\ top' = {nearest} /\ cand' = {nearest}
    /\ visited' = {nearest}
    /\ pc' = "pop"
    /\ UNCHANGED <<fixed, descent, heap, node, nxt, res>>

\* faulty: counts the entry itself
NearerSlotsOrEqual(v) == {w \in heap.slots : D(w) <= D(v)}

\* what count_below counts
NearerSlots(v) == {w \in heap.slots : D(w) < D(v)}

\* while (candidates.size() > 0): pop the nearest candidate and expand it ...
PopBounded ==
    /\ pc = "pop" /\ ask.bounded /\ heap.nvalid > 0
    /\ \E v \in NearestOf(heap.valid) :
        /\ Cardinality(NearerSlots(v)) < ask.efSearch
        /\ heap' = Popped(v)
        /\ node' = v
    /\ nxt' = 1
    /\ pc' = "visit"
    /\ UNCHANGED <<fixed, descent, visited, queues, res>>

\* ... unless count_below finds efSearch entries nearer than it
StopBounded ==
    /\ pc = "pop" /\ ask.bounded
    /\ \/ heap.nvalid = 0 /\ UNCHANGED heap
       \/ /\ heap.nvalid > 0
          /\ \E v \in NearestOf(heap.valid) :
              /\ Cardinality(NearerSlots(v)) >= ask.efSearch
              /\ heap' = Popped(v)
    /\ pc' = "done"
    /\ UNCHANGED <<fixed, descent, visited, queues, node, nxt, res>>

PopUnbounded ==
    /\ pc = "pop" /\ ~ask.bounded
    /\ \E v \in NearestOf(cand) :
        /\ \E w \in top : D(v) <= D(w)
        /\ cand' = cand \ {v}
        /\ node' = v
    /\ nxt' = 1
    /\ pc' = "visit"
    /\ UNCHANGED <<fixed, descent, visited, heap, top, res>>

\* candidates.empty() or d0 > top_candidates.top().first: keep the k nearest
StopUnbounded ==
    /\ pc = "pop" /\ ~ask.bounded
    /\ \A v \in NearestOf(cand), w \in top : D(v) > D(w)
    /\ res' \in {R \in SUBSET top : Best(ask.k, R, top)}
    /\ pc' = "done"
    /\ UNCHANGED <<fixed, descent, visited, heap, queues, node, nxt>>

Neighbor == nbrs[node][nxt]

\* faulty: a neighbor that is not good enough for the results is not a candidate
VisitBoundedResultsOnly ==
    /\ pc = "visit" /\ ask.bounded /\ nxt <= Len(nbrs[node])
    /\ Neighbor \notin visited
    /\ visited' = visited \cup {Neighbor}
    /\ res' \in AddResult(Neighbor)
    /\ IF Neighbor \in res' THEN heap' \in Push(Neighbor) ELSE UNCHANGED heap
    /\ nxt' = nxt + 1
    /\ UNCHANGED <<fixed, pc, descent, queues, node>>

\* a neighbor seen for the first time
VisitBounded ==
    /\ pc = "visit" /\ ask.bounded /\ nxt <= Len(nbrs[node])
    /\ Neighbor \notin visited
    /\ visited' = visited \cup {Neighbor}
    /\ res' \in AddResult(Neighbor)
    /\ heap' \in Push(Neighbor)
    /\ nxt' = nxt + 1
    /\ UNCHANGED <<fixed, pc, descent, queues, node>>

VisitUnbounded ==
    /\ pc = "visit" /\ ~ask.bounded /\ nxt <= Len(nbrs[node])
    /\ Neighbor \notin visited
    /\ visited' = visited \cup {Neighbor}
    /\ top' \in Offer(Neighbor)
    /\ cand' = IF Neighbor \in top' THEN cand \cup {Neighbor} ELSE cand
    /\ nxt' = nxt + 1
    /\ UNCHANGED <<fixed, pc, descent, heap, node, res>>

SkipVisited ==
    /\ pc = "visit" /\ nxt <= Len(nbrs[node])
    /\ Neighbor \in visited
    /\ nxt' = nxt + 1
    /\ UNCHANGED <<fixed, pc, descent, visited, heap, queues, node, res>>

Expanded ==
    /\ pc = "visit" /\ nxt > Len(nbrs[node])
    /\ pc' = "pop"
    /\ UNCHANGED <<fixed, descent, visited, heap, queues, node, nxt, res>>

Done == pc = "done" /\ UNCHANGED vars

Step ==
    \/ Hop \/ Down \/ StartBounded \/ StartUnbounded
    \/ PopBounded \/ StopBounded \/ PopUnbounded \/ StopUnbounded
    \/ VisitBounded \/ VisitUnbounded \/ SkipVisited \/ Expanded

Next == Step \/ Done

Spec == Init /\ [][Next]_vars

\* the thread of the search runs
FairSpec == Spec /\ WF_vars(Step)

--------------------------------------------------------------------------------
(***************************************************************************)
(* Properties.                                                             *)
(***************************************************************************)
HeapType == [slots : SUBSET Vectors, valid : SUBSET Vectors, nvalid : Int]

\* Every variable has its type.
TypeOK ==
    /\ nbrs \in Indexes
    /\ ask \in Asks
    /\ pc \in {"descend", "pop", "visit", "done"}
    /\ lvl \in LevelsOf
    /\ nearest \in Vectors
    /\ visited \subseteq Vectors
    /\ heap \in HeapType
    /\ top \subseteq Vectors /\ cand \subseteq Vectors
    /\ node \in Vectors \cup {NoVector} /\ nxt \in Nat \ {0}
    /\ res \subseteq Vectors

\* The search descends through existing cross links only, and everything it visits,
\* keeps and returns is of the level it was asked for: hcarag_retrieval takes the
\* results of level 0 for entities and those of other levels for communities.
StaysOnLevel ==
    /\ pc = "descend" => nearest \in AtLevel(lvl) /\ lvl >= ask.level
    /\ visited \cup res \subseteq AtLevel(ask.level)

\* nvalid counts the entries that were not popped, although popped entries stay in
\* the slots and may be pushed out of them; the heap keeps to its size.
HeapCounts ==
    /\ heap.valid \subseteq heap.slots
    /\ heap.nvalid = Cardinality(heap.valid)
    /\ Cardinality(heap.slots) <= HeapSize

\* The results are the k nearest of all visited vectors: at the end, and at every
\* moment of the bounded search, whatever the heap has given up.
ResultsBest == pc = "done" \/ ask.bounded => Best(ask.k, res, visited)

Considered(v) == Range(nbrs[v]) \subseteq visited

\* Local optimality of the beam: when efSearch is at least k, every neighbor of a
\* result has been considered.  Of two vectors equally far, the results may keep the
\* one that the heap has given up.
ResultsExpanded ==
    pc = "done" /\ ask.k <= ask.efSearch =>
        \A v \in res : Considered(v) \/ \E w \in visited \ {v} : D(w) = D(v)

\* A beam as large as the level misses nothing that can be reached.
BeamExhausts ==
    pc = "done" /\ Cardinality(AtLevel(ask.level)) <= ask.efSearch =>
        \A v \in visited : Considered(v)

\* Every search ends.
SearchEnds == <>(pc = "done")

--------------------------------------------------------------------------------
(***************************************************************************)
(* What the properties above rest on.                                      *)
(***************************************************************************)
\* the entries the search still has to expand, and all it keeps
Open == IF ask.bounded THEN heap.valid ELSE cand
Beam == IF ask.bounded THEN heap.slots ELSE top

\* the queue of the other kind of search is empty, and so are all before the beam
Phases ==
    /\ pc = "descend" => visited = {} /\ heap = NoHeap /\ queues = <<{}, {}>> /\ res = {}
    /\ ask.bounded => queues = <<{}, {}>>
    /\ ~ask.bounded => heap = NoHeap /\ (pc # "done" => res = {})
    /\ pc = "visit" =>
          /\ node \in visited
          /\ nxt <= Len(nbrs[node]) + 1
          /\ \A i \in 1 .. nxt - 1 : nbrs[node][i] \in visited

\* the beam holds the nearest of the visited, and what left Open was expanded
BeamBest ==
    /\ Best(HeapSize, Beam, visited)
    /\ Open \subseteq visited
    /\ pc # "done" =>
          \A v \in Beam \ Open : Considered(v) \/ (pc = "visit" /\ v = node)

\* The inductive invariant: on the way, the beam holds the nearest of the visited
\* vectors and everything it has popped was expanded.
SearchInv ==
    /\ StaysOnLevel /\ HeapCounts /\ ResultsBest
    /\ Phases /\ BeamBest
================================================================================
