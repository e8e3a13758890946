--------------------------- MODULE HCHNSWSearchProofs ---------------------------
(***************************************************************************)
(* Theorems about HCHNSWSearch, for every finished index, every query and  *)
(* every parameter of a search.                                            *)
(***************************************************************************)
EXTENDS HCHNSWSearch, FiniteSetTheorems, WellFoundedInduction, TLAPS

--------------------------------------------------------------------------------
(***************************************************************************)
(* Distances, lists and queues.                                            *)
(***************************************************************************)
\* The parameters of a search have their types.
LEMMA AskType ==
    ASSUME ask \in Asks
    PROVE  /\ ask.q \in Queries /\ ask.level \in LevelsOf
           /\ ask.k \in Nat \ {0} /\ ask.efSearch \in Nat \ {0}
           /\ ask.bounded \in BOOLEAN
           /\ ask.entry \in {NoVector} \cup AtLevel(ask.level + 1)
           /\ HeapSize \in Nat \ {0} /\ HeapSize >= ask.k /\ HeapSize >= ask.efSearch
<1>1. PICK l \in LevelsOf :
        ask \in [q : Queries, k : 1 .. MaxK, level : {l}, entry : MayEnter(l),
                 efSearch : EfSearches, bounded : BOOLEAN]
  BY DEF Asks
<1>2. ask.q \in Queries /\ ask.k \in 1 .. MaxK /\ ask.level = l
        /\ ask.entry \in MayEnter(l) /\ ask.efSearch \in EfSearches /\ ask.bounded \in BOOLEAN
  BY <1>1
<1>3. ask.k \in Nat \ {0} /\ ask.efSearch \in Nat \ {0}
  <2>1. MaxK \in Nat /\ \A e \in EfSearches : e \in Nat \ {0} BY SizeAssumption
  <2>2. ask.k \in Int /\ ask.k >= 1 BY <1>2, <2>1
  <2> QED BY <1>2, <2>1, <2>2
<1>4. HeapSize \in Nat \ {0} /\ HeapSize >= ask.k /\ HeapSize >= ask.efSearch
  BY <1>3 DEF HeapSize, BiggerOf
<1>5. ask.entry \in {NoVector} \cup AtLevel(ask.level + 1)
  BY <1>2 DEF MayEnter, AtLevel
<1> QED BY <1>2, <1>3, <1>4, <1>5

\* Distances are natural numbers.
LEMMA DistType ==
    ASSUME ask \in Asks, NEW v \in Vectors
    PROVE  D(v) \in Nat
<1>1. ask.q \in Queries BY AskType
<1> QED BY <1>1, DistAssumption DEF D

\* A queue that is not empty has a nearest entry.
LEMMA NearestExists ==
    ASSUME ask \in Asks, NEW S \in SUBSET Vectors, S # {}
    PROVE  NearestOf(S) # {}
<1> DEFINE T == {D(v) : v \in S}
           Less == {p \in Nat \X Nat : p[1] < p[2]}
<1>1. T \subseteq Nat /\ T # {} BY DistType
<1>2. IsWellFoundedOn(Less, Nat) BY NatLessThanWellFounded, Zenon DEF OpToRel
<1>3. PICK x \in T : \A y \in T : ~(y < x)
  <2>1. PICK x \in T : \A y \in T : ~ (<<y, x>> \in Less)
    <3> HIDE DEF T, Less
    <3> QED BY <1>1, <1>2, WFMin
  <2> QED BY <1>1, <2>1
<1>4. PICK v \in S : x = D(v) BY <1>3
<1>5. ASSUME NEW w \in S PROVE D(v) <= D(w)
  BY <1>3, <1>4, DistType
<1> QED BY <1>5 DEF NearestOf

\* The lists of a finished index stay on the level of their vector.
LEMMA ListType ==
    ASSUME nbrs \in Indexes, NEW v \in Vectors
    PROVE  /\ nbrs[v] \in Seq(Vectors)
           /\ Range(nbrs[v]) \subseteq AtLevel(Level[v])
           /\ \A i \in 1 .. Len(nbrs[v]) : nbrs[v][i] \in Range(nbrs[v])
<1>1. nbrs \in [Vectors -> Seq(Vectors)] /\ Range(nbrs[v]) \subseteq AtLevel(Level[v])
  BY IndexAssumption
<1>2. nbrs[v] \in Seq(Vectors) BY <1>1
<1>3. DOMAIN nbrs[v] = 1 .. Len(nbrs[v]) BY <1>2
<1> QED BY <1>1, <1>2, <1>3 DEF Range

\* Sets of vectors are finite.
LEMMA VectorsFinite ==
    ASSUME NEW S \in SUBSET Vectors
    PROVE  IsFiniteSet(S) /\ Cardinality(S) \in Nat
BY VectorsAssumption, FS_Subset, FS_CardinalityType

\* The n nearest of some vectors, after a new vector was offered to them, are the n
\* nearest of those vectors and the new one: a heap that only ever compares with its
\* farthest entry forgets nothing it should keep.
LEMMA NewFarthest ==
    ASSUME ask \in Asks, NEW n \in Nat \ {0}, NEW R, NEW S \in SUBSET Vectors,
           NEW v \in Vectors, v \notin S,
           Best(n, R, S)
    PROVE  /\ Cardinality(R) < n => Best(n, R \cup {v}, S \cup {v})
           /\ Cardinality(R) >= n /\ (\A w \in R : D(v) >= D(w)) => Best(n, R, S \cup {v})
           /\ \A w \in FarthestOf(R) :
                Cardinality(R) >= n /\ D(v) < D(w) => Best(n, (R \ {w}) \cup {v}, S \cup {v})
<1>1. R \subseteq S /\ IsFiniteSet(S) /\ IsFiniteSet(R) /\ v \notin R
        /\ Cardinality(S) \in Nat /\ Cardinality(R) \in Nat
  BY VectorsFinite DEF Best
<1>2. Cardinality(S \cup {v}) = Cardinality(S) + 1 BY <1>1, FS_AddElement
<1>3. Cardinality(R) = SmallerOf(n, Cardinality(S)) BY DEF Best
<1>4. \A a \in R, b \in S \ R : D(a) <= D(b) BY DEF Best
<1>5. \A a \in S \cup {v} : D(a) \in Nat BY DistType
<1>6. ASSUME Cardinality(R) < n PROVE Best(n, R \cup {v}, S \cup {v})
  <2>1. Cardinality(R) = Cardinality(S) BY <1>1, <1>3, <1>6 DEF SmallerOf
  <2>2. R = S BY <1>1, <2>1, FS_Subset
  <2> QED BY <1>1, <1>2, <1>6, <2>2 DEF Best, SmallerOf
<1>7. ASSUME Cardinality(R) >= n, \A w \in R : D(v) >= D(w) PROVE Best(n, R, S \cup {v})
  <2>1. Cardinality(R) = SmallerOf(n, Cardinality(S \cup {v}))
    BY <1>1, <1>2, <1>3, <1>7 DEF SmallerOf
  <2>2. \A a \in R, b \in (S \cup {v}) \ R : D(a) <= D(b) BY <1>1, <1>4, <1>5, <1>7
  <2> QED BY <1>1, <2>1, <2>2 DEF Best
<1>8. ASSUME NEW w \in FarthestOf(R), Cardinality(R) >= n, D(v) < D(w)
      PROVE  Best(n, (R \ {w}) \cup {v}, S \cup {v})
  <2>1. w \in R /\ \A a \in R : D(a) <= D(w) BY <1>1, <1>5 DEF FarthestOf
  <2>2. Cardinality((R \ {w}) \cup {v}) = Cardinality(R)
    <3>1. IsFiniteSet(R \ {w}) /\ Cardinality(R \ {w}) = Cardinality(R) - 1
      BY <1>1, <2>1, FS_RemoveElement
    <3>2. Cardinality((R \ {w}) \cup {v}) = Cardinality(R \ {w}) + 1
      BY <1>1, <3>1, FS_AddElement
    <3> QED BY <1>1, <3>1, <3>2
  <2>3. Cardinality((R \ {w}) \cup {v}) = SmallerOf(n, Cardinality(S \cup {v}))
    BY <1>1, <1>2, <1>3, <1>8, <2>2 DEF SmallerOf
  <2>4. ASSUME NEW a \in (R \ {w}) \cup {v}, NEW b \in (S \cup {v}) \ ((R \ {w}) \cup {v})
        PROVE  D(a) <= D(b)
    <3>1. b = w \/ b \in S \ R BY <1>1
    <3>2. a \in S \cup {v} /\ b \in S \cup {v} /\ w \in S BY <1>1, <2>1
    <3>3. D(w) <= D(b) BY <1>4, <1>5, <2>1, <3>1, <3>2
    <3>4. D(a) <= D(w) BY <1>5, <1>8, <2>1, <3>2
    <3> QED BY <1>5, <3>2, <3>3, <3>4
  <2> QED BY <1>1, <2>1, <2>3, <2>4 DEF Best
<1> QED BY <1>6, <1>7, <1>8

\* Offering a new vector to a heap of the n nearest keeps it one.
LEMMA KeepNearestBest ==
    ASSUME ask \in Asks, NEW n \in Nat \ {0}, NEW R, NEW S \in SUBSET Vectors,
           NEW v \in Vectors, v \notin S, Best(n, R, S),
           NEW T \in KeepNearest(R, n, v)
    PROVE  /\ Best(n, T, S \cup {v})
           /\ T \subseteq R \cup {v}
<1>1. R \subseteq S /\ Cardinality(R) \in Nat BY VectorsFinite DEF Best
<1>2. \A a \in S \cup {v} : D(a) \in Nat BY DistType
<1>3. CASE Cardinality(R) < n
  <2>1. T = R \cup {v} BY <1>3 DEF KeepNearest
  <2> QED BY <1>3, <2>1, NewFarthest
<1>4. CASE Cardinality(R) >= n /\ \E w \in R : D(v) < D(w)
  <2>1. PICK w \in FarthestOf(R) : T = (R \ {w}) \cup {v}
    BY <1>1, <1>4 DEF KeepNearest
  <2>2. w \in R /\ D(v) < D(w) BY <1>1, <1>2, <1>4, <2>1 DEF FarthestOf
  <2> QED BY <1>4, <2>1, <2>2, NewFarthest
<1>5. CASE Cardinality(R) >= n /\ ~\E w \in R : D(v) < D(w)
  <2>1. T = R BY <1>1, <1>5 DEF KeepNearest
  <2>2. \A w \in R : D(v) >= D(w) BY <1>1, <1>2, <1>5
  <2> QED BY <1>5, <2>1, <2>2, NewFarthest
<1> QED BY <1>1, <1>3, <1>4, <1>5

\* The n nearest of the m nearest are the n nearest, for n at most m.
LEMMA BestOfBest ==
    ASSUME ask \in Asks, NEW n \in Nat \ {0}, NEW m \in Nat \ {0}, n <= m,
           NEW S \in SUBSET Vectors, NEW T, NEW R, Best(m, T, S), Best(n, R, T)
    PROVE  Best(n, R, S)
<1>1. R \subseteq T /\ T \subseteq S BY DEF Best
<1>2. Cardinality(S) \in Nat BY VectorsFinite
<1>3. Cardinality(R) = SmallerOf(n, Cardinality(S)) BY <1>2 DEF Best, SmallerOf
<1>4. \A v \in R, w \in S \ R : D(v) <= D(w) BY <1>1 DEF Best
<1> QED BY <1>1, <1>3, <1>4 DEF Best

\* MinimaxHeap::push keeps the nearest of what was pushed, counts what was not popped,
\* and makes no entry a popped one.
LEMMA PushBest ==
    ASSUME ask \in Asks, heap \in HeapType, HeapCounts,
           NEW S \in SUBSET Vectors, Best(HeapSize, heap.slots, S),
           NEW v \in Vectors, v \notin S, NEW h \in Push(v)
    PROVE  /\ h \in HeapType
           /\ Best(HeapSize, h.slots, S \cup {v})
           /\ h.valid \subseteq h.slots
           /\ h.nvalid = Cardinality(h.valid)
           /\ Cardinality(h.slots) <= HeapSize
           /\ h.slots \ h.valid \subseteq heap.slots \ heap.valid
<1>1. HeapSize \in Nat \ {0} BY AskType
<1>2. heap.slots \in SUBSET Vectors /\ heap.valid \in SUBSET Vectors /\ heap.nvalid \in Int
  BY DEF HeapType
<1>3. Cardinality(heap.slots) \in Nat /\ Cardinality(heap.valid) \in Nat
        /\ IsFiniteSet(heap.slots) /\ IsFiniteSet(heap.valid)
  BY <1>2, VectorsFinite
<1>4. heap.valid \subseteq heap.slots /\ heap.nvalid = Cardinality(heap.valid)
        /\ Cardinality(heap.slots) <= HeapSize
  BY DEF HeapCounts
<1>5. heap.slots \subseteq S /\ v \notin heap.slots /\ v \notin heap.valid BY <1>4 DEF Best
<1>6. \A a \in S \cup {v} : D(a) \in Nat BY DistType
<1>7. CASE Cardinality(heap.slots) < HeapSize
  <2>1. h = [slots |-> heap.slots \cup {v}, valid |-> heap.valid \cup {v},
             nvalid |-> heap.nvalid + 1]
    BY <1>7 DEF Push
  <2>2. Best(HeapSize, heap.slots \cup {v}, S \cup {v}) BY <1>1, <1>7, NewFarthest
  <2>3. Cardinality(heap.slots \cup {v}) = Cardinality(heap.slots) + 1
          /\ Cardinality(heap.valid \cup {v}) = Cardinality(heap.valid) + 1
    <3>1. Cardinality(heap.slots \cup {v}) = Cardinality(heap.slots) + 1
      BY <1>3, <1>5, FS_AddElement
    <3>2. Cardinality(heap.valid \cup {v}) = Cardinality(heap.valid) + 1
      BY <1>3, <1>5, FS_AddElement
    <3> QED BY <3>1, <3>2
  <2> QED BY <1>1, <1>2, <1>3, <1>4, <1>7, <2>1, <2>2, <2>3 DEF HeapType
<1>8. CASE /\ ~(Cardinality(heap.slots) < HeapSize)
           /\ \A w \in heap.slots : D(v) >= D(w)
  <2>1. h = heap BY <1>8 DEF Push
  <2>2. Cardinality(heap.slots) >= HeapSize BY <1>1, <1>3, <1>8
  <2>3. Best(HeapSize, heap.slots, S \cup {v}) BY <1>1, <1>8, <2>2, NewFarthest
  <2> QED BY <1>4, <2>1, <2>3
<1>9. CASE /\ ~(Cardinality(heap.slots) < HeapSize)
           /\ ~\A w \in heap.slots : D(v) >= D(w)
  <2>1. PICK w \in FarthestOf(heap.slots) :
          h = [slots |-> (heap.slots \ {w}) \cup {v}, valid |-> (heap.valid \ {w}) \cup {v},
               nvalid |-> IF w \in heap.valid THEN heap.nvalid ELSE heap.nvalid + 1]
    BY <1>9 DEF Push
  <2>2. PICK u \in heap.slots : ~(D(v) >= D(u)) BY <1>9
  <2>3. w \in heap.slots /\ D(v) < D(w) BY <1>5, <1>6, <2>2 DEF FarthestOf
  <2>4. Best(HeapSize, (heap.slots \ {w}) \cup {v}, S \cup {v})
    <3>1. Cardinality(heap.slots) >= HeapSize BY <1>1, <1>3, <1>9
    <3>2. w \in FarthestOf(heap.slots) BY <2>1
    <3> QED BY <1>1, <2>3, <3>1, <3>2, NewFarthest
  <2>5. IsFiniteSet(heap.slots \ {w}) /\ Cardinality(heap.slots \ {w}) = Cardinality(heap.slots) - 1
    BY <1>3, <2>3, FS_RemoveElement
  <2>6. Cardinality((heap.slots \ {w}) \cup {v}) = Cardinality(heap.slots)
    <3>1. v \notin heap.slots \ {w} BY <1>5
    <3>2. Cardinality((heap.slots \ {w}) \cup {v}) = Cardinality(heap.slots \ {w}) + 1
      BY <2>5, <3>1, FS_AddElement
    <3> QED BY <1>3, <2>5, <3>2
  <2>7. IsFiniteSet(heap.valid \ {w}) /\ Cardinality(heap.valid \ {w}) =
          IF w \in heap.valid THEN Cardinality(heap.valid) - 1 ELSE Cardinality(heap.valid)
    BY <1>3, FS_RemoveElement
  <2>8. Cardinality((heap.valid \ {w}) \cup {v}) = Cardinality(heap.valid \ {w}) + 1
    BY <1>4, <1>5, <2>7, FS_AddElement
  <2>9. h.nvalid = Cardinality(h.valid) /\ h.nvalid \in Int
    BY <1>3, <1>4, <2>1, <2>7, <2>8
  <2>10. h.slots = (heap.slots \ {w}) \cup {v} /\ h.valid = (heap.valid \ {w}) \cup {v}
    BY <2>1
  <2>11. h \in HeapType BY <1>2, <2>1, <2>9 DEF HeapType
  <2> QED BY <1>4, <2>4, <2>6, <2>9, <2>10, <2>11
<1> QED BY <1>7, <1>8, <1>9

--------------------------------------------------------------------------------
(***************************************************************************)
(* The inductive invariant.                                                *)
(***************************************************************************)
SearchTyped == TypeOK /\ SearchInv

\* Nothing is the best of nothing.
LEMMA BestOfNone ==
    ASSUME NEW n \in Nat
    PROVE  Best(n, {}, {})
BY FS_EmptySet DEF Best, SmallerOf

\* A search starts on the level of its start.
LEMMA SearchInit == Init => SearchTyped
<1> SUFFICES ASSUME Init PROVE SearchTyped OBVIOUS
<1>1. ask \in Asks /\ nbrs \in Indexes /\ pc = "descend" BY DEF Init
<1>2. ask.level \in LevelsOf /\ ask.k \in Nat /\ HeapSize \in Nat \ {0} /\ ask.bounded \in BOOLEAN
        /\ ask.entry \in {NoVector} \cup AtLevel(ask.level + 1)
  BY <1>1, AskType
<1>3. nearest \in AtLevel(lvl) /\ lvl \in LevelsOf /\ lvl >= ask.level
  <2>1. CASE ask.entry = NoVector
    BY <1>2, <2>1, IndexAssumption, SizeAssumption DEF Init, Start, StartLevel, LevelsOf
  <2>2. CASE ask.entry # NoVector
    <3>1. ask.entry \in Vectors /\ Level[ask.entry] = ask.level + 1
      BY <1>2, <2>2 DEF AtLevel
    <3>2. ask.level \in Nat BY <1>2, SizeAssumption DEF LevelsOf
    <3>3. Cross[ask.entry] \in AtLevel(ask.level) BY <3>1, <3>2, IndexAssumption
    <3> QED BY <1>2, <2>2, <3>2, <3>3 DEF Init, Start, StartLevel
  <2> QED BY <2>1, <2>2
<1>4. TypeOK
  <2>1. NoHeap \in HeapType BY DEF NoHeap, HeapType
  <2> QED BY <1>1, <1>3, <2>1 DEF Init, TypeOK, AtLevel
<1>5. StaysOnLevel BY <1>3 DEF Init, StaysOnLevel
<1>6. HeapCounts BY <1>2, FS_EmptySet DEF Init, HeapCounts, NoHeap
<1>7. ResultsBest BY <1>2, BestOfNone DEF Init, ResultsBest
<1>8. Phases BY DEF Init, Phases, queues
<1>9. BeamBest
  <2>1. Beam = {} /\ Open = {} /\ visited = {} BY DEF Init, Beam, Open, NoHeap
  <2> QED BY <1>2, <2>1, BestOfNone DEF BeamBest
<1> QED BY <1>4, <1>5, <1>6, <1>7, <1>8, <1>9 DEF SearchTyped, SearchInv

\* Steps that leave the queues, the visited and the vector under way alone.
LEMMA QuietSearch ==
    ASSUME HeapCounts, ResultsBest, Phases, BeamBest,
           UNCHANGED <<fixed, pc, visited, heap, queues, node, nxt, res>>
    PROVE  HeapCounts' /\ ResultsBest' /\ Phases' /\ BeamBest'
<1>1. ask' = ask /\ nbrs' = nbrs /\ pc' = pc /\ visited' = visited /\ heap' = heap
        /\ top' = top /\ cand' = cand /\ node' = node /\ nxt' = nxt /\ res' = res
  BY DEF fixed, queues
<1>2. HeapCounts' BY <1>1 DEF HeapCounts, HeapSize, BiggerOf
<1>3. ResultsBest' BY <1>1 DEF ResultsBest, Best, D, SmallerOf
<1>4. Phases' BY <1>1 DEF Phases, queues, NoHeap
<1>5. BeamBest'
  BY <1>1 DEF BeamBest, Beam, Open, Best, D, SmallerOf, HeapSize, BiggerOf, Considered
<1> QED BY <1>2, <1>3, <1>4, <1>5

\* The descent stays on the level it has reached, or takes a cross link one down.
LEMMA DescentStep ==
    ASSUME SearchTyped, Hop \/ Down
    PROVE  SearchTyped'
<1>1. TypeOK /\ StaysOnLevel /\ HeapCounts /\ ResultsBest /\ Phases /\ BeamBest /\ pc = "descend"
  BY DEF SearchTyped, SearchInv, Hop, Down
<1>2. UNCHANGED <<fixed, pc, visited, heap, queues, node, nxt, res>>
  BY DEF Hop, Down
<1>3. HeapCounts' /\ ResultsBest' /\ Phases' /\ BeamBest' BY <1>1, <1>2, QuietSearch
<1>4. nearest \in AtLevel(lvl) /\ lvl >= ask.level /\ lvl \in LevelsOf /\ nbrs \in Indexes
        /\ nearest \in Vectors /\ ask.level \in LevelsOf
  BY <1>1, AskType DEF StaysOnLevel, TypeOK
<1>5. lvl' \in LevelsOf /\ nearest' \in AtLevel(lvl') /\ lvl' >= ask.level
  <2>1. CASE Hop
    <3>1. nearest' \in Range(nbrs[nearest]) /\ lvl' = lvl BY <2>1 DEF Hop, Closer, NearestOf
    <3>2. Range(nbrs[nearest]) \subseteq AtLevel(lvl) BY <1>4, ListType DEF AtLevel
    <3> QED BY <1>4, <3>1, <3>2
  <2>2. CASE Down
    <3>1. nearest' = Cross[nearest] /\ lvl' = lvl - 1 /\ lvl > ask.level BY <2>2 DEF Down
    <3>2. Level[nearest] = lvl BY <1>4 DEF AtLevel
    <3>3. lvl \in Nat /\ ask.level \in Nat /\ lvl <= ML BY <1>4, SizeAssumption DEF LevelsOf
    <3>4. Level[nearest] # 0 BY <3>1, <3>2, <3>3
    <3>5. Cross[nearest] \in AtLevel(lvl - 1) BY <1>4, <3>2, <3>4, IndexAssumption
    <3>6. lvl - 1 \in LevelsOf /\ lvl - 1 >= ask.level
      BY <3>1, <3>3, SizeAssumption DEF LevelsOf
    <3> QED BY <3>1, <3>5, <3>6
  <2> QED BY <2>1, <2>2
<1>6. StaysOnLevel' BY <1>1, <1>2, <1>5 DEF StaysOnLevel, fixed
<1>7. TypeOK' BY <1>1, <1>2, <1>5 DEF TypeOK, fixed, queues, AtLevel
<1> QED BY <1>3, <1>6, <1>7 DEF SearchTyped, SearchInv

\* The vectors the beam may come to are of the level it is on.
LEMMA NeighborOnLevel ==
    ASSUME SearchTyped, pc = "visit", nxt <= Len(nbrs[node])
    PROVE  /\ Neighbor \in AtLevel(ask.level)
           /\ nxt \in Nat \ {0} /\ node \in Vectors /\ Len(nbrs[node]) \in Nat
<1>1. TypeOK /\ StaysOnLevel /\ Phases BY DEF SearchTyped, SearchInv
<1>2. node \in AtLevel(ask.level) /\ node \in Vectors /\ Level[node] = ask.level
  BY <1>1 DEF Phases, StaysOnLevel, AtLevel
<1>3. nbrs \in Indexes /\ nxt \in Nat \ {0} BY <1>1 DEF TypeOK
<1>4. nbrs[node] \in Seq(Vectors) BY <1>2, <1>3, ListType
<1>5. Len(nbrs[node]) \in Nat BY <1>4
<1>6. nxt \in 1 .. Len(nbrs[node]) BY <1>3, <1>5
<1>7. Neighbor \in Range(nbrs[node]) BY <1>2, <1>3, <1>6, ListType DEF Neighbor
<1> QED BY <1>2, <1>3, <1>5, <1>7, ListType

\* A vector seen for the first time by the bounded search, be it the start or a
\* neighbor: the results and the heap stay the nearest of the visited.
LEMMA BoundedVisit ==
    ASSUME SearchTyped, ask.bounded, pc # "done",
           NEW v \in AtLevel(ask.level), v \notin visited,
           UNCHANGED <<fixed, queues>>,
           visited' = visited \cup {v},
           heap' \in Push(v), res' \in AddResult(v)
    PROVE  /\ heap' \in HeapType /\ res' \subseteq visited' /\ visited' \subseteq AtLevel(ask.level)
           /\ HeapCounts' /\ ResultsBest'
           /\ Best(HeapSize, Beam, visited)'
           /\ Open' \subseteq visited'
           /\ Beam' \ Open' \subseteq Beam \ Open
<1>1. TypeOK /\ StaysOnLevel /\ HeapCounts /\ ResultsBest /\ BeamBest
  BY DEF SearchTyped, SearchInv
<1>2. ask \in Asks /\ heap \in HeapType /\ visited \in SUBSET Vectors /\ v \in Vectors
        /\ visited \subseteq AtLevel(ask.level)
  BY <1>1 DEF TypeOK, AtLevel, StaysOnLevel
<1>3. ask' = ask /\ top' = top /\ cand' = cand BY DEF fixed, queues
<1>4. Best(HeapSize, heap.slots, visited) BY <1>1 DEF BeamBest, Beam
<1>5. /\ heap' \in HeapType
      /\ Best(HeapSize, (heap').slots, visited \cup {v})
      /\ (heap').valid \subseteq (heap').slots
      /\ (heap').nvalid = Cardinality((heap').valid)
      /\ Cardinality((heap').slots) <= HeapSize
      /\ (heap').slots \ (heap').valid \subseteq heap.slots \ heap.valid
  BY <1>1, <1>2, <1>4, PushBest
<1>6. Best(ask.k, res', visited \cup {v}) /\ res' \subseteq res \cup {v}
  <2>1. Best(ask.k, res, visited) BY <1>1 DEF ResultsBest
  <2>2. ask.k \in Nat \ {0} BY <1>2, AskType
  <2> QED BY <1>2, <2>1, <2>2, KeepNearestBest DEF AddResult
<1>7. HeapCounts' BY <1>3, <1>5 DEF HeapCounts, HeapSize, BiggerOf
<1>8. ResultsBest' BY <1>3, <1>6 DEF ResultsBest, Best, D, SmallerOf
<1>9. Best(HeapSize, Beam, visited)'
  BY <1>3, <1>5 DEF Best, D, SmallerOf, HeapSize, BiggerOf, Beam
<1>10. res' \subseteq visited' BY <1>6 DEF Best
<1>11. Open' \subseteq visited' BY <1>3, <1>5 DEF Open, Best
<1>12. Beam' \ Open' \subseteq Beam \ Open BY <1>3, <1>5 DEF Beam, Open
<1> QED BY <1>2, <1>5, <1>7, <1>8, <1>9, <1>10, <1>11, <1>12

\* The start of the beam.
LEMMA StartStep ==
    ASSUME SearchTyped, StartBounded \/ StartUnbounded
    PROVE  SearchTyped'
<1>1. TypeOK /\ StaysOnLevel /\ HeapCounts /\ ResultsBest /\ Phases /\ BeamBest /\ pc = "descend"
  BY DEF SearchTyped, SearchInv, StartBounded, StartUnbounded
<1>2. UNCHANGED <<fixed, descent, node, nxt>> /\ pc' = "pop" /\ visited' = {nearest}
        /\ nearest \in AtLevel(ask.level) /\ nearest \in Vectors
  BY <1>1 DEF StartBounded, StartUnbounded, StaysOnLevel, AtLevel
<1>3. visited = {} /\ heap = NoHeap /\ queues = <<{}, {}>> /\ res = {} /\ top = {} /\ cand = {}
  BY <1>1 DEF Phases, queues
<1>4. ask' = ask /\ nbrs' = nbrs BY <1>2 DEF fixed
<1>5. CASE StartBounded
  <2>1. ask.bounded /\ UNCHANGED queues /\ heap' \in Push(nearest) /\ res' \in AddResult(nearest)
          /\ visited' = visited \cup {nearest}
    BY <1>2, <1>3, <1>5 DEF StartBounded
  <2>2. /\ heap' \in HeapType /\ res' \subseteq visited' /\ visited' \subseteq AtLevel(ask.level)
        /\ HeapCounts' /\ ResultsBest'
        /\ Best(HeapSize, Beam, visited)'
        /\ Open' \subseteq visited'
        /\ Beam' \ Open' \subseteq Beam \ Open
    BY <1>1, <1>2, <1>3, <2>1, BoundedVisit
  <2>3. Beam = {} BY <1>3, <2>1 DEF Beam, NoHeap
  <2>4. TypeOK' BY <1>1, <1>2, <1>3, <2>1, <2>2 DEF TypeOK, fixed, descent, queues
  <2>5. StaysOnLevel' BY <1>2, <1>4, <2>2 DEF StaysOnLevel
  <2>6. Phases' BY <1>2, <1>3, <1>4, <2>1 DEF Phases, queues
  <2>7. BeamBest' BY <2>2, <2>3 DEF BeamBest
  <2> QED BY <2>2, <2>4, <2>5, <2>6, <2>7 DEF SearchTyped, SearchInv
<1>6. CASE StartUnbounded
  <2>1. ~ask.bounded /\ top' = {nearest} /\ cand' = {nearest} /\ heap' = heap /\ res' = res
    BY <1>6 DEF StartUnbounded
  <2>2. HeapSize \in Nat \ {0} BY <1>1, AskType DEF TypeOK
  <2>3. Best(HeapSize, Beam, visited)'
    <3>1. Beam' = {nearest} BY <1>4, <2>1 DEF Beam
    <3>2. Cardinality({nearest}) = 1 BY FS_Singleton
    <3>3. HeapSize' = HeapSize BY <1>4 DEF HeapSize, BiggerOf
    <3> QED BY <1>2, <2>2, <3>1, <3>2, <3>3 DEF Best, SmallerOf
  <2>4. BeamBest' BY <1>2, <1>4, <2>1, <2>3 DEF BeamBest, Beam, Open
  <2>5. TypeOK' BY <1>1, <1>2, <2>1 DEF TypeOK, fixed, descent
  <2>6. StaysOnLevel' BY <1>2, <1>3, <1>4, <2>1 DEF StaysOnLevel
  <2>7. HeapCounts' BY <1>1, <1>4, <2>1 DEF HeapCounts, HeapSize, BiggerOf
  <2>8. ResultsBest' BY <1>2, <1>4, <2>1 DEF ResultsBest
  <2>9. Phases' BY <1>2, <1>3, <1>4, <2>1 DEF Phases, queues, NoHeap
  <2> QED BY <2>4, <2>5, <2>6, <2>7, <2>8, <2>9 DEF SearchTyped, SearchInv
<1> QED BY <1>5, <1>6

\* A neighbor seen for the first time.
LEMMA VisitStep ==
    ASSUME SearchTyped, VisitBounded \/ VisitUnbounded
    PROVE  SearchTyped'
<1>1. TypeOK /\ StaysOnLevel /\ HeapCounts /\ ResultsBest /\ Phases /\ BeamBest /\ pc = "visit"
        /\ nxt <= Len(nbrs[node])
  BY DEF SearchTyped, SearchInv, VisitBounded, VisitUnbounded
<1> DEFINE v == Neighbor
<1>2. v \in AtLevel(ask.level) /\ v \in Vectors /\ nxt \in Nat \ {0} /\ node \in Vectors
        /\ Len(nbrs[node]) \in Nat /\ ask \in Asks
  BY <1>1, NeighborOnLevel DEF AtLevel, TypeOK
<1>3. UNCHANGED <<fixed, pc, descent, node>> /\ visited' = visited \cup {v} /\ v \notin visited
        /\ nxt' = nxt + 1
  BY DEF VisitBounded, VisitUnbounded
<1>4. ask' = ask /\ nbrs' = nbrs /\ pc' = pc /\ node' = node BY <1>3 DEF fixed
<1>5. nxt' <= Len(nbrs[node]) + 1 /\ \A i \in 1 .. nxt' - 1 : nbrs[node][i] \in visited'
  <2>1. ASSUME NEW i \in 1 .. nxt' - 1 PROVE nbrs[node][i] \in visited'
    <3>1. i \in 1 .. nxt - 1 \/ i = nxt BY <1>2, <1>3
    <3> QED BY <1>1, <1>3, <3>1 DEF Phases, Neighbor
  <2> QED BY <1>1, <1>2, <1>3, <2>1
<1>6. \A u \in Vectors : Considered(u) => Considered(u)' BY <1>3, <1>4 DEF Considered
<1>7. CASE VisitBounded
  <2>1. ask.bounded /\ UNCHANGED queues /\ heap' \in Push(v) /\ res' \in AddResult(v)
    BY <1>7 DEF VisitBounded
  <2>2. /\ heap' \in HeapType /\ res' \subseteq visited' /\ visited' \subseteq AtLevel(ask.level)
        /\ HeapCounts' /\ ResultsBest'
        /\ Best(HeapSize, Beam, visited)'
        /\ Open' \subseteq visited'
        /\ Beam' \ Open' \subseteq Beam \ Open
    <3> HIDE DEF v
    <3> QED BY <1>1, <1>2, <1>3, <2>1, BoundedVisit
  <2>3. TypeOK' BY <1>1, <1>2, <1>3, <2>1, <2>2 DEF TypeOK, fixed, descent, queues
  <2>4. StaysOnLevel' BY <1>1, <1>4, <2>2 DEF StaysOnLevel
  <2>5. Phases' BY <1>1, <1>3, <1>4, <1>5, <2>1 DEF Phases, queues
  <2>6. BeamBest'
    <3>1. Beam \subseteq Vectors BY <1>1, <2>1 DEF Beam, TypeOK, HeapType
    <3> QED BY <1>1, <1>4, <1>6, <2>2, <3>1 DEF BeamBest
  <2> QED BY <2>2, <2>3, <2>4, <2>5, <2>6 DEF SearchTyped, SearchInv
<1>8. CASE VisitUnbounded
  <2>1. ~ask.bounded /\ heap' = heap /\ res' = res /\ top' \in Offer(v)
          /\ cand' = IF v \in top' THEN cand \cup {v} ELSE cand
    BY <1>8 DEF VisitUnbounded
  <2>2. Best(HeapSize, top, visited) /\ cand \subseteq visited /\ visited \in SUBSET Vectors
    BY <1>1, <2>1 DEF BeamBest, Beam, Open, TypeOK
  <2>3. Best(HeapSize, top', visited') /\ top' \subseteq top \cup {v}
    <3>1. HeapSize \in Nat \ {0} BY <1>2, AskType
    <3> HIDE DEF v
    <3> QED BY <1>2, <1>3, <2>1, <2>2, <3>1, KeepNearestBest DEF Offer
  <2>4. Best(HeapSize, Beam, visited)'
    BY <1>4, <2>1, <2>3 DEF Best, D, SmallerOf, HeapSize, BiggerOf, Beam
  <2>5. cand' \subseteq visited' BY <1>3, <2>1, <2>2
  <2>6. top' \ cand' \subseteq top \ cand BY <2>1, <2>3
  <2>7. top \subseteq Vectors /\ visited' \subseteq AtLevel(ask.level) /\ top' \subseteq visited'
    BY <1>1, <1>2, <1>3, <2>3 DEF TypeOK, StaysOnLevel, Best
  <2>8. TypeOK' BY <1>1, <1>2, <1>3, <2>1, <2>5, <2>7 DEF TypeOK, fixed, descent, AtLevel
  <2>9. StaysOnLevel' BY <1>1, <1>4, <2>1, <2>7 DEF StaysOnLevel
  <2>10. HeapCounts' BY <1>1, <1>4, <2>1 DEF HeapCounts, HeapSize, BiggerOf
  <2>11. ResultsBest' BY <1>1, <1>4, <2>1 DEF ResultsBest
  <2>12. Phases' BY <1>1, <1>3, <1>4, <1>5, <2>1 DEF Phases, queues, NoHeap
  <2>13. BeamBest'
    <3>1. Open' \subseteq visited' BY <1>4, <2>1, <2>5 DEF Open
    <3>2. Beam' \ Open' \subseteq Beam \ Open /\ Beam \subseteq Vectors
      BY <1>4, <2>1, <2>6, <2>7 DEF Beam, Open
    <3> QED BY <1>1, <1>4, <1>6, <2>4, <3>1, <3>2 DEF BeamBest
  <2> QED BY <2>8, <2>9, <2>10, <2>11, <2>12, <2>13 DEF SearchTyped, SearchInv
<1> QED BY <1>7, <1>8

\* A neighbor seen before, and the end of a list.
LEMMA PassStep ==
    ASSUME SearchTyped, SkipVisited \/ Expanded
    PROVE  SearchTyped'
<1>1. TypeOK /\ StaysOnLevel /\ HeapCounts /\ ResultsBest /\ Phases /\ BeamBest /\ pc = "visit"
  BY DEF SearchTyped, SearchInv, SkipVisited, Expanded
<1>2. UNCHANGED <<fixed, descent, visited, heap, queues, node, res>>
  BY DEF SkipVisited, Expanded
<1>3. ask' = ask /\ nbrs' = nbrs /\ visited' = visited /\ heap' = heap /\ top' = top
        /\ cand' = cand /\ node' = node /\ res' = res
  BY <1>2 DEF fixed, queues
<1>4. pc' \in {"visit", "pop"} /\ nxt' \in Nat \ {0}
  BY <1>1 DEF SkipVisited, Expanded, TypeOK
<1>5. TypeOK' BY <1>1, <1>2, <1>4 DEF TypeOK, fixed, descent, queues
<1>6. StaysOnLevel' BY <1>1, <1>3, <1>4 DEF StaysOnLevel
<1>7. HeapCounts' BY <1>1, <1>3 DEF HeapCounts, HeapSize, BiggerOf
<1>8. ResultsBest' BY <1>1, <1>3, <1>4 DEF ResultsBest, Best, D, SmallerOf
<1>9. Best(HeapSize, Beam, visited)' /\ Open' = Open /\ Beam' = Beam /\ Open' \subseteq visited'
  BY <1>1, <1>3 DEF BeamBest, Beam, Open, Best, D, SmallerOf, HeapSize, BiggerOf
<1>10. node \in Vectors /\ nbrs \in Indexes /\ nxt \in Nat \ {0} /\ node \in visited
  BY <1>1 DEF TypeOK, Phases
<1>11. Len(nbrs[node]) \in Nat /\ DOMAIN nbrs[node] = 1 .. Len(nbrs[node])
  <2>1. nbrs[node] \in Seq(Vectors) BY <1>10, ListType
  <2> QED BY <2>1
<1>12. CASE SkipVisited
  <2>1. pc' = pc /\ nxt' = nxt + 1 /\ nxt <= Len(nbrs[node]) /\ Neighbor \in visited
    BY <1>12 DEF SkipVisited
  <2>2. nxt' <= Len(nbrs[node]) + 1 BY <1>10, <1>11, <2>1
  <2>3. ASSUME NEW i \in 1 .. nxt' - 1 PROVE nbrs[node][i] \in visited
    <3>1. i \in 1 .. nxt - 1 \/ i = nxt BY <1>10, <2>1
    <3> QED BY <1>1, <2>1, <3>1 DEF Phases, Neighbor
  <2>4. Phases' BY <1>1, <1>3, <2>1, <2>2, <2>3 DEF Phases, queues, NoHeap
  <2>5. BeamBest' BY <1>1, <1>3, <1>9, <2>1 DEF BeamBest, Considered
  <2> QED BY <1>5, <1>6, <1>7, <1>8, <2>4, <2>5 DEF SearchTyped, SearchInv
<1>13. CASE Expanded
  <2>1. pc' = "pop" /\ nxt > Len(nbrs[node]) BY <1>13 DEF Expanded
  <2>2. Considered(node)
    <3>1. ASSUME NEW i \in DOMAIN nbrs[node] PROVE nbrs[node][i] \in visited
      <4>1. i \in 1 .. nxt - 1 BY <1>10, <1>11, <2>1
      <4> QED BY <1>1, <4>1 DEF Phases
    <3> QED BY <3>1 DEF Considered, Range
  <2>3. Phases' BY <1>1, <1>3, <2>1 DEF Phases, queues, NoHeap
  <2>4. BeamBest' BY <1>1, <1>3, <1>9, <2>1, <2>2 DEF BeamBest, Considered
  <2> QED BY <1>5, <1>6, <1>7, <1>8, <2>3, <2>4 DEF SearchTyped, SearchInv
<1> QED BY <1>12, <1>13

\* An entry that is popped keeps its slot and is no longer counted.
LEMMA PoppedType ==
    ASSUME heap \in HeapType, HeapCounts, NEW v \in heap.valid
    PROVE  /\ Popped(v) \in HeapType
           /\ Popped(v).slots = heap.slots
           /\ Popped(v).valid = heap.valid \ {v}
           /\ Popped(v).nvalid = Cardinality(heap.valid \ {v})
<1>1. heap.valid \in SUBSET Vectors /\ heap.slots \in SUBSET Vectors /\ heap.nvalid \in Int
        /\ heap.nvalid = Cardinality(heap.valid)
  BY DEF HeapType, HeapCounts
<1>2. IsFiniteSet(heap.valid) /\ Cardinality(heap.valid) \in Nat BY <1>1, VectorsFinite
<1>3. Cardinality(heap.valid \ {v}) = Cardinality(heap.valid) - 1 BY <1>2, FS_RemoveElement
<1> QED BY <1>1, <1>2, <1>3 DEF HeapType, Popped

\* The nearest candidate is taken to be expanded.
LEMMA PopStep ==
    ASSUME SearchTyped, PopBounded \/ PopUnbounded
    PROVE  SearchTyped'
<1>1. TypeOK /\ StaysOnLevel /\ HeapCounts /\ ResultsBest /\ Phases /\ BeamBest /\ pc = "pop"
  BY DEF SearchTyped, SearchInv, PopBounded, PopUnbounded
<1>2. UNCHANGED <<fixed, descent, visited, res, top>> /\ nxt' = 1 /\ pc' = "visit"
  BY DEF PopBounded, PopUnbounded, queues
<1>3. ask' = ask /\ nbrs' = nbrs /\ visited' = visited /\ res' = res /\ top' = top
  BY <1>2 DEF fixed
<1>4. StaysOnLevel' BY <1>1, <1>2, <1>3 DEF StaysOnLevel
<1>5. ResultsBest' BY <1>1, <1>2, <1>3 DEF ResultsBest, Best, D, SmallerOf
<1>6. Best(HeapSize, Beam, visited) /\ Open \subseteq visited /\ visited \subseteq Vectors
        /\ \A v \in Beam \ Open : Considered(v)
  BY <1>1 DEF BeamBest, TypeOK
<1>7. /\ node' \in Open /\ Open' = Open \ {node'} /\ Beam' = Beam
      /\ heap' \in HeapType /\ cand' \subseteq cand /\ HeapCounts'
      /\ ask.bounded => queues' = queues
      /\ ~ask.bounded => heap' = heap
  <2>1. CASE PopBounded
    <3>1. PICK v \in NearestOf(heap.valid) : heap' = Popped(v) /\ node' = v
      BY <2>1 DEF PopBounded
    <3>2. v \in heap.valid /\ heap \in HeapType BY <1>1, <3>1 DEF NearestOf, TypeOK
    <3>3. /\ heap' \in HeapType
          /\ (heap').slots = heap.slots
          /\ (heap').valid = heap.valid \ {v}
          /\ (heap').nvalid = Cardinality(heap.valid \ {v})
      BY <1>1, <3>1, <3>2, PoppedType
    <3>4. ask.bounded /\ cand' = cand BY <2>1 DEF PopBounded, queues
    <3>5. HeapCounts' BY <1>1, <1>3, <3>3 DEF HeapCounts, HeapSize, BiggerOf
    <3> QED BY <1>3, <3>1, <3>2, <3>3, <3>4, <3>5 DEF Open, Beam, queues
  <2>2. CASE PopUnbounded
    <3>1. ~ask.bounded /\ heap' = heap /\ node' \in cand /\ cand' = cand \ {node'}
      BY <2>2 DEF PopUnbounded, NearestOf
    <3>2. HeapCounts' BY <1>1, <1>3, <3>1 DEF HeapCounts, HeapSize, BiggerOf
    <3> QED BY <1>1, <1>3, <3>1, <3>2 DEF Open, Beam, TypeOK
  <2> QED BY <2>1, <2>2
<1>8. TypeOK' BY <1>1, <1>2, <1>6, <1>7 DEF TypeOK, fixed, descent
<1>9. Phases'
  <2>1. nbrs \in Indexes /\ node' \in Vectors /\ node' \in visited BY <1>1, <1>6, <1>7 DEF TypeOK
  <2>2. nbrs[node'] \in Seq(Vectors) BY <2>1, ListType
  <2>3. Len(nbrs[node']) \in Nat BY <2>2
  <2>4. nxt' <= Len(nbrs[node']) + 1 /\ 1 .. nxt' - 1 = {} BY <1>2, <2>3
  <2>5. ask.bounded => queues' = <<{}, {}>> BY <1>1, <1>7 DEF Phases
  <2>6. ~ask.bounded => heap' = NoHeap /\ res' = {} BY <1>1, <1>3, <1>7 DEF Phases
  <2> QED BY <1>2, <1>3, <2>1, <2>4, <2>5, <2>6 DEF Phases, NoHeap
<1>10. BeamBest'
  <2>1. Best(HeapSize, Beam, visited)'
    BY <1>3, <1>6, <1>7 DEF Best, D, SmallerOf, HeapSize, BiggerOf
  <2>2. \A v \in Beam' \ Open' : Considered(v)' \/ v = node'
    BY <1>3, <1>6, <1>7 DEF Considered
  <2> QED BY <1>2, <1>3, <1>6, <1>7, <2>1, <2>2 DEF BeamBest
<1> QED BY <1>4, <1>5, <1>7, <1>8, <1>9, <1>10 DEF SearchTyped, SearchInv

\* The end of the beam.
LEMMA StopStep ==
    ASSUME SearchTyped, StopBounded \/ StopUnbounded
    PROVE  SearchTyped'
<1>1. TypeOK /\ StaysOnLevel /\ HeapCounts /\ ResultsBest /\ Phases /\ BeamBest /\ pc = "pop"
  BY DEF SearchTyped, SearchInv, StopBounded, StopUnbounded
<1>2. UNCHANGED <<fixed, descent, visited, queues, node, nxt>> /\ pc' = "done"
  BY DEF StopBounded, StopUnbounded
<1>3. ask' = ask /\ nbrs' = nbrs /\ visited' = visited /\ top' = top /\ cand' = cand
  BY <1>2 DEF fixed, queues
<1>4. Best(HeapSize, Beam, visited) /\ Open \subseteq visited BY <1>1 DEF BeamBest
<1>5. /\ heap' \in HeapType /\ HeapCounts' /\ Beam' = Beam /\ Open' \subseteq Open
      /\ ~ask.bounded => heap' = heap
      /\ ask.bounded => res' = res
  <2>1. CASE heap' = heap /\ (ask.bounded => res' = res)
    BY <1>1, <1>3, <2>1 DEF HeapCounts, HeapSize, BiggerOf, Beam, Open, TypeOK
  <2>2. CASE ask.bounded /\ res' = res /\ \E v \in NearestOf(heap.valid) : heap' = Popped(v)
    <3>1. PICK v \in heap.valid : heap' = Popped(v) BY <2>2 DEF NearestOf
    <3>2. /\ heap' \in HeapType
          /\ (heap').slots = heap.slots
          /\ (heap').valid = heap.valid \ {v}
          /\ (heap').nvalid = Cardinality(heap.valid \ {v})
      BY <1>1, <3>1, PoppedType DEF TypeOK
    <3>3. HeapCounts' BY <1>1, <1>3, <3>2 DEF HeapCounts, HeapSize, BiggerOf
    <3> QED BY <1>3, <2>2, <3>2, <3>3 DEF Beam, Open
  <2> QED BY <2>1, <2>2 DEF StopBounded, StopUnbounded
<1>6. Best(ask.k, res', visited)
  <2>1. CASE ask.bounded BY <1>1, <1>5, <2>1 DEF ResultsBest
  <2>2. CASE ~ask.bounded
    <3>1. Best(ask.k, res', top) BY <2>2 DEF StopUnbounded, StopBounded
    <3>2. Best(HeapSize, top, visited) BY <1>4, <2>2 DEF Beam
    <3>3. ask \in Asks /\ visited \in SUBSET Vectors BY <1>1 DEF TypeOK
    <3> QED BY <3>1, <3>2, <3>3, AskType, BestOfBest
  <2> QED BY <2>1, <2>2
<1>7. res' \subseteq visited BY <1>6 DEF Best
<1>8. TypeOK' BY <1>1, <1>2, <1>5, <1>7 DEF TypeOK, fixed, descent, queues
<1>9. StaysOnLevel' BY <1>1, <1>2, <1>3, <1>7 DEF StaysOnLevel
<1>10. ResultsBest' BY <1>3, <1>6 DEF ResultsBest, Best, D, SmallerOf
<1>11. Phases' BY <1>1, <1>2, <1>3, <1>5 DEF Phases, queues, NoHeap
<1>12. BeamBest'
  <2>1. Best(HeapSize, Beam, visited)'
    BY <1>3, <1>4, <1>5 DEF Best, D, SmallerOf, HeapSize, BiggerOf
  <2> QED BY <1>2, <1>3, <1>4, <1>5, <2>1 DEF BeamBest
<1> QED BY <1>5, <1>8, <1>9, <1>10, <1>11, <1>12 DEF SearchTyped, SearchInv

\* Every step of a search keeps the invariant.
LEMMA SearchNext == SearchTyped /\ [Next]_vars => SearchTyped'
<1> SUFFICES ASSUME SearchTyped, [Next]_vars PROVE SearchTyped' OBVIOUS
<1>1. CASE Step BY <1>1, DescentStep, StartStep, PopStep, StopStep, VisitStep, PassStep DEF Step
<1>2. CASE UNCHANGED vars
  <2>1. UNCHANGED <<fixed, pc, visited, heap, queues, node, nxt, res>> /\ UNCHANGED descent
    BY <1>2 DEF vars
  <2>2. TypeOK' BY <2>1 DEF SearchTyped, TypeOK, fixed, descent, queues
  <2>3. StaysOnLevel' BY <2>1 DEF SearchTyped, SearchInv, StaysOnLevel, fixed, descent
  <2> QED BY <2>1, <2>2, <2>3, QuietSearch DEF SearchTyped, SearchInv
<1> QED BY <1>1, <1>2 DEF Next, Done

\* The invariant holds of every search.
THEOREM SearchInvariant == Spec => []SearchTyped
<1> QED BY SearchInit, SearchNext, PTL DEF Spec

\* A search keeps its types.
THEOREM SearchTypeCorrect == Spec => []TypeOK
<1> QED BY SearchInvariant, PTL DEF SearchTyped

\* A search follows existing cross links only and returns vectors of the level it was
\* asked for.
THEOREM SearchStaysOnLevel == Spec => []StaysOnLevel
<1>1. SearchTyped => StaysOnLevel BY DEF SearchTyped, SearchInv
<1> QED BY <1>1, SearchInvariant, PTL

\* The MinimaxHeap counts its candidates right and keeps to its size.
THEOREM HeapCountsRight == Spec => []HeapCounts
<1>1. SearchTyped => HeapCounts BY DEF SearchTyped, SearchInv
<1> QED BY <1>1, SearchInvariant, PTL

\* The results are the k nearest of all visited vectors.
THEOREM ResultsAreBest == Spec => []ResultsBest
<1>1. SearchTyped => ResultsBest BY DEF SearchTyped, SearchInv
<1> QED BY <1>1, SearchInvariant, PTL

--------------------------------------------------------------------------------
(***************************************************************************)
(* What the end of a search guarantees.                                    *)
(***************************************************************************)
\* When the unbounded search stops, it has expanded all of the beam.
LEMMA UnboundedBeamDone ==
    ASSUME SearchTyped, StopUnbounded, NEW v \in top
    PROVE  Considered(v)
<1>1. TypeOK /\ BeamBest /\ pc = "pop" /\ ~ask.bounded
  BY DEF SearchTyped, SearchInv, StopUnbounded
<1>2. ask \in Asks /\ cand \in SUBSET Vectors /\ top \subseteq Vectors BY <1>1 DEF TypeOK
<1>3. v \notin cand
  <2> SUFFICES ASSUME v \in cand PROVE FALSE OBVIOUS
  <2>1. PICK u \in NearestOf(cand) : TRUE BY <1>2, NearestExists
  <2>2. u \in cand /\ D(u) <= D(v) BY DEF NearestOf
  <2>3. D(u) > D(v) BY DEF StopUnbounded
  <2>4. D(u) \in Nat /\ D(v) \in Nat BY <1>2, <2>2, DistType
  <2> QED BY <2>2, <2>3, <2>4
<1> QED BY <1>1, <1>3 DEF BeamBest, Beam, Open

\* When the bounded search stops, it has expanded its heap, or efSearch entries nearer
\* than everything it has not expanded.
LEMMA BoundedBeamDone ==
    ASSUME SearchTyped, StopBounded
    PROVE  \/ \A u \in heap.slots : Considered(u)
           \/ \E v \in heap.slots :
                /\ Cardinality(NearerSlots(v)) >= ask.efSearch
                /\ \A u \in NearerSlots(v) : Considered(u)
<1>1. TypeOK /\ HeapCounts /\ BeamBest /\ pc = "pop" /\ ask.bounded
  BY DEF SearchTyped, SearchInv, StopBounded
<1>2. heap.valid \in SUBSET Vectors /\ heap.slots \in SUBSET Vectors /\ ask \in Asks
        /\ heap.valid \subseteq heap.slots /\ heap.nvalid = Cardinality(heap.valid)
  BY <1>1 DEF TypeOK, HeapType, HeapCounts
<1>3. \A u \in heap.slots \ heap.valid : Considered(u) BY <1>1 DEF BeamBest, Beam, Open
<1>4. CASE heap.nvalid = 0
  <2>1. heap.valid = {} BY <1>2, <1>4, VectorsFinite, FS_EmptySet
  <2> QED BY <1>3, <2>1
<1>5. CASE heap.nvalid # 0
  <2>1. PICK v \in NearestOf(heap.valid) : Cardinality(NearerSlots(v)) >= ask.efSearch
    BY <1>5 DEF StopBounded
  <2>2. v \in heap.slots BY <1>2 DEF NearestOf
  <2>3. ASSUME NEW u \in NearerSlots(v) PROVE Considered(u)
    <3>1. u \in heap.slots /\ D(u) < D(v) BY DEF NearerSlots
    <3>2. D(u) \in Nat /\ D(v) \in Nat BY <1>2, <2>2, <3>1, DistType
    <3>3. u \notin heap.valid BY <3>1, <3>2 DEF NearestOf
    <3> QED BY <1>3, <3>1, <3>3
  <2> QED BY <2>1, <2>2, <2>3
<1> QED BY <1>4, <1>5

\* k vectors without one of the k results have one that is no result.
LEMMA Outsider ==
    ASSUME NEW k \in Nat \ {0}, NEW S \in SUBSET Vectors, NEW R, Best(k, R, S),
           NEW T \in SUBSET S, Cardinality(T) >= k, NEW v \in R, v \notin T
    PROVE  \E w \in T : w \in S \ R
<1> SUFFICES ASSUME T \subseteq R PROVE FALSE OBVIOUS
<1>1. R \subseteq S /\ Cardinality(S) \in Nat BY VectorsFinite DEF Best
<1>2. Cardinality(R) <= k BY <1>1 DEF Best, SmallerOf
<1>3. IsFiniteSet(R) /\ Cardinality(R) \in Nat /\ Cardinality(T) \in Nat
  BY <1>1, VectorsFinite
<1>4. IsFiniteSet(R \ {v}) /\ Cardinality(R \ {v}) = Cardinality(R) - 1
  BY <1>3, FS_RemoveElement
<1>5. T \in SUBSET (R \ {v}) OBVIOUS
<1>6. Cardinality(T) <= Cardinality(R \ {v}) BY <1>4, <1>5, FS_Subset
<1> QED BY <1>2, <1>3, <1>4, <1>6

\* At the end of a search with k at most efSearch, the neighbors of a result were
\* considered, but for ties.
LEMMA ExpandedAtStop ==
    ASSUME SearchTyped, StopBounded \/ StopUnbounded, ask.k <= ask.efSearch, NEW v \in res'
    PROVE  Considered(v) \/ \E w \in visited \ {v} : D(w) = D(v)
<1>1. TypeOK /\ HeapCounts /\ ResultsBest /\ BeamBest BY DEF SearchTyped, SearchInv
<1>2. ask \in Asks /\ visited \in SUBSET Vectors BY <1>1 DEF TypeOK
<1>3. ask.k \in Nat \ {0} /\ ask.efSearch \in Nat /\ HeapSize \in Nat \ {0} /\ HeapSize >= ask.k
  BY <1>2, AskType
<1>4. CASE StopUnbounded
  <2>1. v \in top BY <1>4 DEF StopUnbounded
  <2> QED BY <1>4, <2>1, UnboundedBeamDone
<1>5. CASE StopBounded
  <2>1. v \in res /\ ask.bounded /\ Best(ask.k, res, visited)
    BY <1>1, <1>5 DEF StopBounded, ResultsBest
  <2>2. Best(HeapSize, heap.slots, visited) BY <1>1, <2>1 DEF BeamBest, Beam
  <2>3. heap.slots \subseteq visited /\ res \subseteq visited /\ v \in visited
    BY <2>1, <2>2 DEF Best
  <2>4. \A u \in visited : D(u) \in Nat BY <1>2, DistType
  <2>5. CASE \A u \in heap.slots : Considered(u)
    <3>1. CASE v \in heap.slots BY <2>5, <3>1
    <3>2. CASE v \notin heap.slots
      <4>1. Cardinality(heap.slots) >= ask.k
        <5>1. IsFiniteSet(visited) /\ Cardinality(visited) \in Nat BY <1>2, VectorsFinite
        <5>2. Cardinality(heap.slots) # Cardinality(visited)
          BY <2>3, <3>2, <5>1, FS_Subset
        <5> QED BY <1>3, <2>2, <5>1, <5>2 DEF Best, SmallerOf
      <4>2. PICK w \in heap.slots : w \in visited \ res
        BY <1>2, <1>3, <2>1, <2>3, <3>2, <4>1, Outsider
      <4>3. D(v) <= D(w) /\ D(w) <= D(v) BY <2>1, <2>2, <2>3, <3>2, <4>2 DEF Best
      <4> QED BY <2>3, <2>4, <3>2, <4>2, <4>3
    <3> QED BY <3>1, <3>2
  <2>6. CASE \E u \in heap.slots : /\ Cardinality(NearerSlots(u)) >= ask.efSearch
                                   /\ \A w \in NearerSlots(u) : Considered(w)
    <3>1. PICK u \in heap.slots : /\ Cardinality(NearerSlots(u)) >= ask.efSearch
                                  /\ \A w \in NearerSlots(u) : Considered(w)
      BY <2>6
    <3>2. CASE v \in NearerSlots(u) BY <3>1, <3>2
    <3>3. CASE v \notin NearerSlots(u)
      <4>1. D(u) <= D(v)
        <5>1. CASE v \in heap.slots BY <2>3, <2>4, <3>3, <5>1 DEF NearerSlots
        <5>2. CASE v \notin heap.slots BY <2>2, <2>3, <5>2 DEF Best
        <5> QED BY <5>1, <5>2
      <4>2. NearerSlots(u) \in SUBSET visited BY <2>3 DEF NearerSlots
      <4>3. Cardinality(NearerSlots(u)) >= ask.k
        <5>1. Cardinality(NearerSlots(u)) \in Nat BY <1>2, <4>2, VectorsFinite
        <5> QED BY <1>3, <3>1, <5>1
      <4>4. PICK w \in NearerSlots(u) : w \in visited \ res
        BY <1>2, <1>3, <2>1, <3>3, <4>2, <4>3, Outsider
      <4>5. D(v) <= D(w) BY <2>1, <4>4 DEF Best
      <4>6. D(w) < D(u) BY <4>4 DEF NearerSlots
      <4> QED BY <2>3, <2>4, <4>1, <4>4, <4>5, <4>6
    <3> QED BY <3>2, <3>3
  <2> QED BY <1>5, <2>5, <2>6, BoundedBeamDone
<1> QED BY <1>4, <1>5

\* A beam as large as the level has expanded everything it has visited.
LEMMA ExhaustedAtStop ==
    ASSUME SearchTyped, StopBounded \/ StopUnbounded,
           Cardinality(AtLevel(ask.level)) <= ask.efSearch, NEW v \in visited
    PROVE  Considered(v)
<1>1. TypeOK /\ StaysOnLevel /\ BeamBest BY DEF SearchTyped, SearchInv
<1>2. ask \in Asks /\ visited \in SUBSET Vectors /\ visited \subseteq AtLevel(ask.level)
  BY <1>1 DEF TypeOK, StaysOnLevel
<1>3. ask.efSearch \in Nat \ {0} /\ HeapSize \in Nat \ {0} /\ HeapSize >= ask.efSearch
  BY <1>2, AskType
<1>4. IsFiniteSet(visited) /\ Cardinality(visited) \in Nat BY <1>2, VectorsFinite
<1>5. Cardinality(visited) <= ask.efSearch
  <2>1. AtLevel(ask.level) \in SUBSET Vectors BY DEF AtLevel
  <2>2. IsFiniteSet(AtLevel(ask.level)) /\ Cardinality(AtLevel(ask.level)) \in Nat
    BY <2>1, VectorsFinite
  <2>3. Cardinality(visited) <= Cardinality(AtLevel(ask.level)) BY <1>2, <2>2, FS_Subset
  <2> QED BY <1>3, <1>4, <2>2, <2>3
<1>6. Beam = visited
  <2>1. Beam \subseteq visited /\ Cardinality(Beam) = SmallerOf(HeapSize, Cardinality(visited))
    BY <1>1 DEF BeamBest, Best
  <2>2. Cardinality(Beam) = Cardinality(visited) BY <1>3, <1>4, <1>5, <2>1 DEF SmallerOf
  <2> QED BY <1>4, <2>1, <2>2, FS_Subset
<1>7. CASE StopUnbounded
  BY <1>6, <1>7, UnboundedBeamDone DEF Beam, StopUnbounded
<1>8. CASE StopBounded
  <2>1. heap.slots = visited BY <1>6, <1>8 DEF Beam, StopBounded
  <2>2. ASSUME NEW u \in heap.slots PROVE ~(Cardinality(NearerSlots(u)) >= ask.efSearch)
    <3>1. D(u) \in Nat BY <1>2, <2>1, DistType
    <3>2. NearerSlots(u) \in SUBSET (visited \ {u}) BY <2>1, <3>1 DEF NearerSlots
    <3>3. IsFiniteSet(visited \ {u}) /\ Cardinality(visited \ {u}) = Cardinality(visited) - 1
      BY <1>4, <2>1, FS_RemoveElement
    <3>4. IsFiniteSet(NearerSlots(u)) /\ Cardinality(NearerSlots(u)) <= Cardinality(visited \ {u})
      BY <3>2, <3>3, FS_Subset
    <3>5. Cardinality(NearerSlots(u)) \in Nat BY <3>4, FS_CardinalityType
    <3> QED BY <1>3, <1>4, <1>5, <3>3, <3>4, <3>5
  <2> QED BY <1>8, <2>1, <2>2, BoundedBeamDone
<1> QED BY <1>7, <1>8

\* Only the two stops end a search.
LEMMA EndsAtStop ==
    ASSUME SearchTyped, [Next]_vars, pc' = "done"
    PROVE  /\ ask' = ask /\ nbrs' = nbrs /\ visited' = visited
           /\ (pc = "done" /\ res' = res) \/ StopBounded \/ StopUnbounded
<1>1. pc = "done" => UNCHANGED vars
  BY DEF Next, Step, Done, Hop, Down, StartBounded, StartUnbounded, PopBounded, StopBounded,
     PopUnbounded, StopUnbounded, VisitBounded, VisitUnbounded, SkipVisited, Expanded
<1>2. pc # "done" => StopBounded \/ StopUnbounded
  BY DEF Next, Step, Done, Hop, Down, StartBounded, StartUnbounded, PopBounded,
     PopUnbounded, VisitBounded, VisitUnbounded, SkipVisited, Expanded, vars
<1>3. StopBounded \/ StopUnbounded => UNCHANGED fixed /\ visited' = visited
  BY DEF StopBounded, StopUnbounded
<1> QED BY <1>1, <1>2, <1>3 DEF vars, fixed

\* Local optimality: with k at most efSearch, as the retrieval of a level has it for up
\* to 16 results, every neighbor of a result was considered, but for ties.
THEOREM ResultsAreExpanded == Spec => []ResultsExpanded
<1>1. Init => ResultsExpanded BY DEF Init, ResultsExpanded
<1>2. SearchTyped /\ ResultsExpanded /\ [Next]_vars => ResultsExpanded'
  <2> SUFFICES ASSUME SearchTyped, ResultsExpanded, [Next]_vars, pc' = "done",
                      (ask.k <= ask.efSearch)', NEW v \in res'
               PROVE  (Considered(v) \/ \E w \in visited \ {v} : D(w) = D(v))'
    BY DEF ResultsExpanded
  <2>1. ask' = ask /\ nbrs' = nbrs /\ visited' = visited BY EndsAtStop
  <2>2. Considered(v) \/ \E w \in visited \ {v} : D(w) = D(v)
    BY <2>1, EndsAtStop, ExpandedAtStop DEF ResultsExpanded
  <2> QED BY <2>1, <2>2 DEF Considered, D
<1> QED BY <1>1, <1>2, SearchInvariant, PTL DEF Spec

\* A beam as large as its level misses nothing that can be reached.
THEOREM LargeBeamExhausts == Spec => []BeamExhausts
<1>1. Init => BeamExhausts BY DEF Init, BeamExhausts
<1>2. SearchTyped /\ BeamExhausts /\ [Next]_vars => BeamExhausts'
  <2> SUFFICES ASSUME SearchTyped, BeamExhausts, [Next]_vars, pc' = "done",
                      (Cardinality(AtLevel(ask.level)) <= ask.efSearch)', NEW v \in visited'
               PROVE  Considered(v)'
    BY DEF BeamExhausts
  <2>1. ask' = ask /\ nbrs' = nbrs /\ visited' = visited BY EndsAtStop
  <2>2. Considered(v) BY <2>1, EndsAtStop, ExhaustedAtStop DEF BeamExhausts
  <2> QED BY <2>1, <2>2 DEF Considered
<1> QED BY <1>1, <1>2, SearchInvariant, PTL DEF Spec
================================================================================
