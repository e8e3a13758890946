-------------------------------- MODULE HCHNSW ---------------------------------
(***************************************************************************)
(* Building a C-HNSW index: hchnsw_add_vertices (IndexHCHNSW.cpp) and      *)
(* HCHNSW::add_with_locks_level (impl/HCHNSW.cpp).                         *)
(*                                                                         *)
(* Levels are filled from the highest to the lowest; the vectors of a      *)
(* level are inserted by a team of OpenMP threads.  A thread descends      *)
(* greedily from the highest level, follows one cross link per level, may  *)
(* change the cross link above its own level, and links its vector to      *)
(* vectors found on its own level.  Lists are written under the lock of    *)
(* their vector and read without it; cross links and first entries are     *)
(* read and written without any lock.  A list is written in one step, and  *)
(* who reads it while a link is being added sees any part of the old and   *)
(* the new one.                                                            *)
(***************************************************************************)
EXTENDS Integers, FiniteSets, Sequences, Functions

CONSTANTS
    Vectors,         \* internal ids of the vectors
    ML,              \* max_level
    Level,           \* levels[v]
    Dist,            \* symmetric_dis(v, w)
    M,               \* neighbors per vector, twice that on level 0
    EfConstruction,  \* efConstruction
    Threads,         \* threads of the OpenMP team
    NoVector,        \* -1
    NoThread         \* owner of a lock nobody holds

LevelsOf == 0 .. ML
AtLevel(l) == {v \in Vectors : Level[v] = l}

ASSUME SizeAssumption == ML \in Nat /\ M \in Nat \ {0} /\ EfConstruction \in Nat \ {0}
ASSUME LevelAssumption ==
    /\ Level \in [Vectors -> LevelsOf]
    /\ \A l \in LevelsOf : AtLevel(l) # {}
ASSUME DistAssumption ==
    /\ Dist \in [Vectors -> [Vectors -> Nat]]
    /\ \A v, w \in Vectors : Dist[v][w] = 0 <=> v = w
ASSUME VectorsAssumption == IsFiniteSet(Vectors) /\ NoVector \notin Vectors
ASSUME ThreadsAssumption == NoThread \notin Threads

VARIABLES
    ptLevel,    \* pt_level of the outer loop
    stage,      \* "insert", "remain" (add_remain_cross_link) or "done"
    todo,       \* vectors no thread has taken, or no cross link was looked at of
    nbrs,       \* neighbors[v], without the trailing -1
    cross,      \* cross_neighbors[v]
    first,      \* first_entry_points_in_level[l]
    lock,       \* locks[v]: the thread that holds it
    th,         \* what each thread is doing
    rem         \* add_remain_cross_link: the vector and where its search is

vars == <<ptLevel, stage, todo, nbrs, cross, first, lock, th, rem>>

MaybeVector == Vectors \cup {NoVector}

\* get_nb_neighbor
NbNeighbor(l) == IF l = 0 THEN 2 * M ELSE M
Capacity(v) == NbNeighbor(Level[v])

SmallerOf(a, b) == IF a <= b THEN a ELSE b

--------------------------------------------------------------------------------
(***************************************************************************)
(* Lists.                                                                  *)
(***************************************************************************)
\* faulty: the search moves on to a vector that is as near, and comes back
CloserOrAsClose(q, v, seen) ==
    {w \in seen \ {v} : Dist[q][w] <= Dist[q][v] /\ \A u \in seen : Dist[q][w] <= Dist[q][u]}

\* what greedy_update_nearest may move to from v, looking for q and seeing the
\* neighbors in seen: the nearest one, if it is nearer than v
Closer(q, v, seen) ==
    {w \in seen : Dist[q][w] < Dist[q][v] /\ \A u \in seen : Dist[q][w] <= Dist[q][u]}

\* a queue of what was met keeps the efConstruction nearest
Results(met, q) ==
    {R \in SUBSET met :
        /\ Cardinality(R) = SmallerOf(EfConstruction, Cardinality(met))
        /\ \A v \in R, w \in met \ R : Dist[q][v] <= Dist[q][w]}

\* w is taken from the queue of shrink_neighbor_list before v, and v is nearer to
\* w than to q
Shadows(w, v, q) == w # v /\ Dist[q][w] <= Dist[q][v] /\ Dist[w][v] < Dist[q][v]

\* shrink_neighbor_list: from nearest to farthest, keep a vector unless a kept one
\* shadows it, until size are kept
Shrinks(S, q, size) ==
    {R \in SUBSET S :
        /\ Cardinality(R) <= size
        /\ \A v, w \in R : ~Shadows(w, v, q)
        /\ \A v \in S \ R :
              \/ \E w \in R : Shadows(w, v, q)
              \/ Cardinality(R) = size /\ \A w \in R : Dist[q][w] <= Dist[q][v]}

\* the wrapper leaves a queue alone that is shorter than the limit
LinkTargets(S, q) ==
    IF Cardinality(S) < NbNeighbor(Level[q]) THEN {S} ELSE Shrinks(S, q, NbNeighbor(Level[q]))

\* a NodeDistCloser queue is emptied from the farthest to the nearest
FarthestFirst(S, q) ==
    {s \in [1 .. Cardinality(S) -> S] :
        /\ Range(s) = S
        /\ \A i, j \in DOMAIN s : i < j => Dist[q][s[i]] >= Dist[q][s[j]]}

\* add_link(src, dest): append while there is room, otherwise shrink the list and
\* dest to what fits.  Copies of src in its own list are nearest and stay.
Copies(v, list) == Cardinality({i \in DOMAIN list : list[i] = v})
AddLink(src, dest) ==
    LET list == Append(nbrs[src], dest)
        self == SmallerOf(Copies(src, list), Capacity(src))
    IN  IF Len(list) <= Capacity(src) THEN {list}
        ELSE UNION {{s \o [i \in 1 .. self |-> src] : s \in FarthestFirst(R, src)} :
                       R \in Shrinks(Range(list) \ {src}, src, Capacity(src) - self)}

--------------------------------------------------------------------------------
(***************************************************************************)
(* One thread inserting one vector.                                        *)
(***************************************************************************)
Idle == [pc |-> "idle", pt |-> NoVector, lvl |-> 0, nearest |-> NoVector,
         entry |-> NoVector, seen |-> {}, met |-> {}, expanded |-> {},
         pending |-> <<>>, filled |-> 0]

Init ==
    /\ ptLevel = ML
    /\ stage = "insert"
    /\ todo = AtLevel(ML)
    /\ nbrs = [v \in Vectors |-> <<>>]
    /\ cross = [v \in Vectors |-> NoVector]
    /\ first = [l \in LevelsOf |-> NoVector]
    /\ lock = [v \in Vectors |-> NoThread]
    /\ th = [t \in Threads |-> Idle]
    /\ rem = [v |-> NoVector, at |-> NoVector]

\* the next iteration of the omp for loop, up to the end of the critical section:
\* get_max_level_random_entry draws the entry of the highest level once
Take(t) ==
    /\ stage = "insert"
    /\ th[t].pc = "idle"
    /\ \E pt \in todo :
        /\ todo' = todo \ {pt}
        /\ \E e \in IF first[ML] = NoVector THEN AtLevel(ML) ELSE {first[ML]} :
            /\ first' = [first EXCEPT ![ML] = e]
            /\ th' = [th EXCEPT ![t] = [Idle EXCEPT !.pc = "lock", !.pt = pt, !.nearest = e]]
    /\ UNCHANGED <<ptLevel, stage, nbrs, cross, lock, rem>>

\* omp_set_lock(&locks[pt_id]), then start the descent at max_level
LockOwn(t) ==
    /\ th[t].pc = "lock"
    /\ lock[th[t].pt] = NoThread
    /\ lock' = [lock EXCEPT ![th[t].pt] = t]
    /\ th' = [th EXCEPT ![t].pc = "hop", ![t].lvl = ML]
    /\ UNCHANGED <<ptLevel, stage, todo, nbrs, cross, first, rem>>

\* add_link(v, dest) is under way for these
BeingAdded(v) ==
    {th[u].pt : u \in {u \in Threads : th[u].pc = "add" /\ Head(th[u].pending) = v}}
        \cup {th[u].pending[th[u].filled + 1] :
                 u \in {u \in Threads : /\ th[u].pc = "fill" /\ th[u].pt = v
                                         /\ th[u].filled < Len(th[u].pending)}}

\* the neighbors of v, and while they are written those that come or go
Holding(v) == Range(nbrs[v]) \cup BeingAdded(v)

\* what a thread sees of the list it reads
Views(t, v) ==
    IF th[t].seen = {} /\ BeingAdded(v) = {} THEN {Range(nbrs[v])}
    ELSE SUBSET (th[t].seen \cup Holding(v))

\* a thread may have read a part of a list when it is written
Look(t) ==
    /\ th[t].pc \in {"hop", "read"}
    /\ BeingAdded(th[t].nearest) # {}
    /\ th' = [th EXCEPT ![t].seen = @ \cup Holding(th[t].nearest)]
    /\ UNCHANGED <<ptLevel, stage, todo, nbrs, cross, first, lock, rem>>

\* one round of greedy_update_nearest; a round that finds nothing nearer ends it, and on
\* the own level the search for neighbors starts from what it has found
Hop(t) ==
    /\ th[t].pc = "hop"
    /\ \E view \in Views(t, th[t].nearest) :
        LET closer == Closer(th[t].pt, th[t].nearest, view)
        IN  \/ \E w \in closer : th' = [th EXCEPT ![t].nearest = w, ![t].seen = {}]
            \/ /\ closer = {}
               /\ th' = IF th[t].lvl = Level[th[t].pt]
                        THEN [th EXCEPT ![t].pc = "link", ![t].seen = {},
                                        ![t].met = {th[t].nearest}]
                        ELSE [th EXCEPT ![t].pc = "cross", ![t].seen = {}]
    /\ UNCHANGED <<ptLevel, stage, todo, nbrs, cross, first, lock, rem>>

\* next_level_entry = cross_neighbors[nearest]
ReadCross(t) ==
    /\ th[t].pc = "cross"
    /\ LET entry == cross[th[t].nearest]
       IN  IF th[t].lvl = Level[th[t].pt] + 1
           THEN th' = [th EXCEPT ![t].pc = "update", ![t].entry = entry]
           ELSE th' = [th EXCEPT ![t].pc = "hop", ![t].nearest = entry,
                                 ![t].lvl = th[t].lvl - 1]
    /\ UNCHANGED <<ptLevel, stage, todo, nbrs, cross, first, lock, rem>>

\* just above the level of pt, no cross link was read: set it to pt
SetCross(t) ==
    /\ th[t].pc = "update"
    /\ th[t].entry = NoVector
    /\ cross' = [cross EXCEPT ![th[t].nearest] = th[t].pt]
    /\ th' = [th EXCEPT ![t].pc = "first"]
    /\ UNCHANGED <<ptLevel, stage, todo, nbrs, first, lock, rem>>

\* just above the level of pt, a cross link was read: take it over if pt is nearer
UpdateCross(t) ==
    /\ th[t].pc = "update"
    /\ th[t].entry # NoVector
    /\ cross' = IF Dist[th[t].pt][th[t].nearest] < Dist[th[t].nearest][th[t].entry]
                THEN [cross EXCEPT ![th[t].nearest] = th[t].pt] ELSE cross
    /\ th' = [th EXCEPT ![t].pc = "hop", ![t].nearest = th[t].entry,
                        ![t].lvl = th[t].lvl - 1]
    /\ UNCHANGED <<ptLevel, stage, todo, nbrs, first, lock, rem>>

\* faulty: without a first entry the vector goes on from itself and sets none
GetFirstSetsNone(t) ==
    /\ th[t].pc = "first"
    /\ LET entry == first[Level[th[t].pt]]
       IN  th' = [th EXCEPT ![t].pc = "hop", ![t].lvl = th[t].lvl - 1,
                            ![t].nearest = IF entry = NoVector THEN th[t].pt ELSE entry]
    /\ UNCHANGED <<ptLevel, stage, todo, nbrs, cross, first, lock, rem>>

\* get_first_entry_points_in_level: the test ...
GetFirst(t) ==
    /\ th[t].pc = "first"
    /\ LET entry == first[Level[th[t].pt]]
       IN  IF entry = NoVector
           THEN th' = [th EXCEPT ![t].pc = "setfirst"]
           ELSE th' = [th EXCEPT ![t].pc = "hop", ![t].nearest = entry,
                                 ![t].lvl = th[t].lvl - 1]
    /\ UNCHANGED <<ptLevel, stage, todo, nbrs, cross, first, lock, rem>>

\* ... and the assignment
SetFirst(t) ==
    /\ th[t].pc = "setfirst"
    /\ first' = [first EXCEPT ![Level[th[t].pt]] = th[t].pt]
    /\ th' = [th EXCEPT ![t].pc = "hop", ![t].nearest = th[t].pt,
                        ![t].lvl = th[t].lvl - 1]
    /\ UNCHANGED <<ptLevel, stage, todo, nbrs, cross, lock, rem>>

\* search_neighbors_to_add: the nearest of the candidates, if it is not too far ...
Expand(t) ==
    /\ th[t].pc = "link"
    /\ \E v \in th[t].met \ th[t].expanded :
          /\ \A w \in th[t].met \ th[t].expanded : Dist[th[t].pt][v] <= Dist[th[t].pt][w]
          /\ \E R \in Results(th[t].met, th[t].pt) : v \in R
          /\ th' = [th EXCEPT ![t].pc = "read", ![t].nearest = v]
    /\ UNCHANGED <<ptLevel, stage, todo, nbrs, cross, first, lock, rem>>

\* ... and its neighbors
ReadList(t) ==
    /\ th[t].pc = "read"
    /\ \E view \in Views(t, th[t].nearest) :
          th' = [th EXCEPT ![t].pc = "link", ![t].seen = {}, ![t].met = @ \cup view,
                           ![t].expanded = @ \cup {th[t].nearest}]
    /\ UNCHANGED <<ptLevel, stage, todo, nbrs, cross, first, lock, rem>>

\* add_links_level_starting_from: of the results take those to link to ...
FindTargets(t) ==
    /\ th[t].pc = "link"
    /\ \E found \in Results(th[t].met, th[t].pt) :
          /\ found \subseteq th[t].expanded
          /\ \E targets \in LinkTargets(found, th[t].pt) :
             \E pending \in FarthestFirst(targets, th[t].pt) :
                th' = [th EXCEPT ![t].pc = "fill", ![t].pending = pending,
                                 ![t].met = {}, ![t].expanded = {}]
    /\ UNCHANGED <<ptLevel, stage, todo, nbrs, cross, first, lock, rem>>

\* ... put them into the own list one by one ...
AddOwn(t) ==
    /\ th[t].pc = "fill"
    /\ th[t].filled < Len(th[t].pending)
    /\ \E list \in AddLink(th[t].pt, th[t].pending[th[t].filled + 1]) :
          nbrs' = [nbrs EXCEPT ![th[t].pt] = list]
    /\ th' = [th EXCEPT ![t].filled = @ + 1]
    /\ UNCHANGED <<ptLevel, stage, todo, cross, first, lock, rem>>

\* ... and give the own lock up before asking for those of the neighbors
UnlockOwn(t) ==
    /\ th[t].pc = "fill"
    /\ th[t].filled = Len(th[t].pending)
    /\ lock' = [lock EXCEPT ![th[t].pt] = NoThread]
    /\ th' = [th EXCEPT ![t].pc = IF th[t].pending = <<>> THEN "relock" ELSE "lockother"]
    /\ UNCHANGED <<ptLevel, stage, todo, nbrs, cross, first, rem>>

\* faulty: the link back is written without the lock
LockOtherNot(t) ==
    /\ th[t].pc = "lockother"
    /\ th' = [th EXCEPT ![t].pc = "add"]
    /\ UNCHANGED <<ptLevel, stage, todo, nbrs, cross, first, lock, rem>>

\* omp_set_lock(&locks[other_id])
LockOther(t) ==
    /\ th[t].pc = "lockother"
    /\ lock[Head(th[t].pending)] = NoThread
    /\ lock' = [lock EXCEPT ![Head(th[t].pending)] = t]
    /\ th' = [th EXCEPT ![t].pc = "add"]
    /\ UNCHANGED <<ptLevel, stage, todo, nbrs, cross, first, rem>>

\* faulty: the neighbors are not linked back
AddBackNothing(t) ==
    /\ th[t].pc = "add"
    /\ lock' = [lock EXCEPT ![Head(th[t].pending)] = NoThread]
    /\ th' = [th EXCEPT ![t].pending = Tail(@),
                        ![t].pc = IF Tail(th[t].pending) = <<>> THEN "relock" ELSE "lockother"]
    /\ UNCHANGED <<ptLevel, stage, todo, nbrs, cross, first, rem>>

\* add_link(other_id, pt_id) and omp_unset_lock(&locks[other_id])
AddBack(t) ==
    /\ th[t].pc = "add"
    /\ LET other == Head(th[t].pending)
           others == Tail(th[t].pending)
       IN  /\ \E list \in AddLink(other, th[t].pt) : nbrs' = [nbrs EXCEPT ![other] = list]
           /\ lock' = [lock EXCEPT ![other] = NoThread]
           /\ th' = [th EXCEPT ![t].pc = IF others = <<>> THEN "relock" ELSE "lockother",
                               ![t].pending = others]
    /\ UNCHANGED <<ptLevel, stage, todo, cross, first, rem>>

\* omp_set_lock(&locks[pt_id]) and, back in add_with_locks_level, omp_unset_lock
Relock(t) ==
    /\ th[t].pc = "relock"
    /\ lock[th[t].pt] = NoThread
    /\ th' = [th EXCEPT ![t] = Idle]
    /\ UNCHANGED <<ptLevel, stage, todo, nbrs, cross, first, lock, rem>>

Insert(t) ==
    \/ Take(t) \/ LockOwn(t) \/ Look(t) \/ Hop(t) \/ ReadCross(t) \/ SetCross(t) \/ UpdateCross(t)
    \/ GetFirst(t) \/ SetFirst(t) \/ Expand(t) \/ ReadList(t) \/ FindTargets(t)
    \/ AddOwn(t) \/ UnlockOwn(t) \/ LockOther(t) \/ AddBack(t) \/ Relock(t)

--------------------------------------------------------------------------------
(***************************************************************************)
(* Between two levels, the main thread alone.                              *)
(***************************************************************************)
NextLevelDown ==
    IF ptLevel = 0
    THEN stage' = "done" /\ UNCHANGED <<ptLevel, todo>>
    ELSE stage' = "insert" /\ ptLevel' = ptLevel - 1 /\ todo' = AtLevel(ptLevel - 1)

\* faulty: a parallel loop without its barrier (nowait)
LevelInsertedNoWait ==
    /\ stage = "insert"
    /\ todo = {}
    /\ IF ptLevel = ML THEN NextLevelDown
       ELSE stage' = "remain" /\ todo' = AtLevel(ptLevel + 1) /\ UNCHANGED ptLevel
    /\ UNCHANGED <<nbrs, cross, first, lock, th, rem>>

\* the barrier at the end of the parallel region
LevelInserted ==
    /\ stage = "insert"
    /\ todo = {}
    /\ \A t \in Threads : th[t].pc = "idle"
    /\ IF ptLevel = ML THEN NextLevelDown
       ELSE stage' = "remain" /\ todo' = AtLevel(ptLevel + 1) /\ UNCHANGED ptLevel
    /\ UNCHANGED <<nbrs, cross, first, lock, th, rem>>

\* add_remain_cross_link is called for each vector of the level above, and leaves those
\* alone to which an insertion gave a cross link
RemainSkip ==
    /\ stage = "remain"
    /\ rem.v = NoVector
    /\ \E v \in todo : cross[v] # NoVector /\ todo' = todo \ {v}
    /\ UNCHANGED <<ptLevel, stage, nbrs, cross, first, lock, th, rem>>

\* For the others it starts from the first entry of the level.  Without one,
\* get_first_entry_points_in_level draws a vector of the highest level.
RemainStart ==
    /\ stage = "remain"
    /\ rem.v = NoVector
    /\ \E v \in todo :
       \E e \in IF first[ptLevel] = NoVector THEN AtLevel(ML) ELSE {first[ptLevel]} :
          /\ cross[v] = NoVector
          /\ todo' = todo \ {v}
          /\ first' = [first EXCEPT ![ptLevel] = e]
          /\ rem' = [v |-> v, at |-> e]
    /\ UNCHANGED <<ptLevel, stage, nbrs, cross, lock, th>>

RemainHop ==
    /\ stage = "remain"
    /\ rem.v # NoVector
    /\ \E w \in Closer(rem.v, rem.at, Range(nbrs[rem.at])) : rem' = [rem EXCEPT !.at = w]
    /\ UNCHANGED <<ptLevel, stage, todo, nbrs, cross, first, lock, th>>

\* faulty: the link found is not stored
RemainSetNothing ==
    /\ stage = "remain"
    /\ rem.v # NoVector
    /\ Closer(rem.v, rem.at, Range(nbrs[rem.at])) = {}
    /\ rem' = [v |-> NoVector, at |-> NoVector]
    /\ UNCHANGED <<ptLevel, stage, todo, nbrs, cross, first, lock, th>>

RemainSet ==
    /\ stage = "remain"
    /\ rem.v # NoVector
    /\ Closer(rem.v, rem.at, Range(nbrs[rem.at])) = {}
    /\ cross' = [cross EXCEPT ![rem.v] = rem.at]
    /\ rem' = [v |-> NoVector, at |-> NoVector]
    /\ UNCHANGED <<ptLevel, stage, todo, nbrs, first, lock, th>>

RemainDone ==
    /\ stage = "remain"
    /\ rem.v = NoVector
    /\ todo = {}
    /\ NextLevelDown
    /\ UNCHANGED <<nbrs, cross, first, lock, th, rem>>

Main == LevelInserted \/ RemainSkip \/ RemainStart \/ RemainHop \/ RemainSet \/ RemainDone

\* the index is built; nothing happens any more
Done == stage = "done" /\ UNCHANGED vars

Next == (\E t \in Threads : Insert(t)) \/ Main \/ Done

Spec == Init /\ [][Next]_vars

\* The threads run; a thread that waits for a lock gets it in the end.
FairSpec ==
    /\ Spec
    /\ WF_vars(Main)
    /\ \A t \in Threads :
          /\ WF_vars(Insert(t))
          /\ SF_vars(LockOwn(t)) /\ SF_vars(LockOther(t)) /\ SF_vars(Relock(t))

--------------------------------------------------------------------------------
(***************************************************************************)
(* Properties.                                                             *)
(***************************************************************************)
ThreadType ==
    [pc : {"idle", "lock", "hop", "cross", "update", "first", "setfirst", "link", "read",
           "fill", "lockother", "add", "relock"},
     pt : MaybeVector, lvl : LevelsOf, nearest : MaybeVector, entry : MaybeVector,
     seen : SUBSET Vectors, met : SUBSET Vectors, expanded : SUBSET Vectors,
     pending : Seq(Vectors), filled : Nat]

\* Every variable has its type.
TypeOK ==
    /\ ptLevel \in LevelsOf
    /\ stage \in {"insert", "remain", "done"}
    /\ todo \subseteq Vectors
    /\ nbrs \in [Vectors -> Seq(Vectors)]
    /\ cross \in [Vectors -> MaybeVector]
    /\ first \in [LevelsOf -> MaybeVector]
    /\ lock \in [Vectors -> Threads \cup {NoThread}]
    /\ th \in [Threads -> ThreadType]
    /\ rem \in [v : MaybeVector, at : MaybeVector]

\* the vectors linked to v, directly or not
Reach(v) ==
    {w \in Vectors : \A S \in SUBSET Vectors :
        v \in S /\ (\A x \in S : Range(nbrs[x]) \subseteq S) => w \in S}

\* A vector is only ever linked to vectors of its own level, whatever the threads
\* read from each other's unfinished work.
LevelHomogeneous ==
    \A v \in Vectors : \A w \in Range(nbrs[v]) : Level[w] = Level[v]

\* A cross link leads exactly one level down.
CrossOneDown ==
    \A v \in Vectors : cross[v] # NoVector => Level[cross[v]] = Level[v] - 1

\* The first entry of a level is a vector of that level.
EntryAtLevel ==
    \A l \in LevelsOf : first[l] # NoVector => Level[first[l]] = l

\* Once the level below is finished, every vector has a cross link: no search and
\* no later insertion reads cross_neighbors[nearest] = -1 and uses it as an index.
CrossComplete ==
    \A v \in Vectors :
        \/ Level[v] >= ptLevel + 2
        \/ stage = "done" /\ Level[v] >= 1
        => cross[v] # NoVector

\* Every finished level has its first entry.
FinishedLevelHasEntry ==
    \A l \in LevelsOf :
        l > ptLevel \/ (l = ptLevel /\ stage # "insert") => first[l] # NoVector

Waiting == {"lock", "lockother", "relock"}
Held(t) == {v \in Vectors : lock[v] = t}

\* A thread holds at most one lock, and none while it waits for one: the reason the
\* own lock is given up before the locks of the neighbors are taken.
OneLock ==
    \A t \in Threads : /\ Cardinality(Held(t)) <= 1
                       /\ th[t].pc \in Waiting => Held(t) = {}

\* Below the highest level, the list a thread is about to fill is empty, although
\* its vector is already published through a cross link or as first entry and other
\* threads queue for its lock.  (On the highest level the common entry is linked to
\* before it is inserted.)
OwnListFresh ==
    \A t \in Threads :
        th[t].pc = "link" /\ Level[th[t].pt] < ML => nbrs[th[t].pt] = <<>>

\* No list outgrows its slots.
ListsFit == \A v \in Vectors : Len(nbrs[v]) <= Capacity(v)

\* A list changes only in a step of the thread that holds the lock of its vector.
ListsChangeUnderLock ==
    [][\A v \in Vectors : nbrs'[v] # nbrs[v] =>
          \E t \in Threads : lock[v] = t /\ th'[t] # th[t]]_vars

\* Once a level is finished, its lists and its first entry stay as they are.
FinishedLevelsFrozen ==
    [][/\ \A v \in Vectors : Level[v] > ptLevel => nbrs'[v] = nbrs[v]
       /\ \A l \in LevelsOf : l > ptLevel => first'[l] = first[l]]_vars

\* The index is built, whatever the order in which the threads get the locks.
BuildEnds == <>(stage = "done")

\* Inserted one after the other, and with slots to spare, the vectors of a finished
\* level can all be reached from its first entry.
LevelConnected ==
    \A l \in LevelsOf : l > ptLevel \/ stage = "done" => AtLevel(l) \subseteq Reach(first[l])

--------------------------------------------------------------------------------
(***************************************************************************)
(* The inductive invariant behind LevelHomogeneous, CrossOneDown,          *)
(* EntryAtLevel, CrossComplete and FinishedLevelHasEntry.                  *)
(***************************************************************************)
\* a thread at work is on its way down to the vector it inserts
ThreadOnItsWay(t) ==
    LET x == th[t]
    IN  x.pc # "idle" =>
        /\ x.pt \in AtLevel(ptLevel)
        /\ stage = "insert"
        /\ first[ML] # NoVector
        /\ x.pc = "lock" => x.nearest \in AtLevel(ML)
        /\ x.pc \in {"hop", "cross", "update", "first", "setfirst", "link", "read"} =>
              x.nearest \in AtLevel(x.lvl)
        /\ IF x.pc \in {"hop", "read"} THEN x.seen \subseteq AtLevel(x.lvl) ELSE x.seen = {}
        /\ x.pc = "hop" => x.lvl >= ptLevel
        /\ x.pc = "cross" => x.lvl > ptLevel
        /\ x.pc \in {"update", "first", "setfirst"} => x.lvl = ptLevel + 1
        /\ x.pc = "update" /\ x.entry # NoVector => Level[x.entry] = ptLevel
        /\ x.pc \in {"link", "read"} => x.lvl = ptLevel /\ x.met # {} /\ x.met \subseteq AtLevel(ptLevel)
        /\ x.pc \in {"fill", "lockother", "add"} => Range(x.pending) \subseteq AtLevel(ptLevel)
        /\ x.pc \in {"lockother", "add"} => x.pending # <<>>

\* add_remain_cross_link searches the level below its vector
RemainOnItsWay ==
    /\ stage = "remain" => ptLevel < ML
    /\ rem.v # NoVector =>
          /\ stage = "remain"
          /\ rem.v \in AtLevel(ptLevel + 1)
          /\ rem.at \in AtLevel(ptLevel)
    /\ stage = "remain" =>
          \A v \in AtLevel(ptLevel + 1) \ todo : cross[v] # NoVector \/ v = rem.v

\* vectors of the level under way and of those below have no cross link yet
LowerUnlinked == \A v \in Vectors : Level[v] <= ptLevel => cross[v] = NoVector

\* thread t has not yet made sure of, or passed, the first entry of its level
BeforeEntry(t) ==
    \/ th[t].pc \in {"lock", "first", "setfirst"}
    \/ th[t].pc \in {"hop", "cross", "update"} /\ th[t].lvl > ptLevel

\* who sees a cross link into the level being filled relies on another thread to set
\* the first entry; who sees none sets it
EntryUnderWay ==
    stage = "insert" =>
        /\ \/ todo = AtLevel(ptLevel)
           \/ first[ptLevel] # NoVector
           \/ \E t \in Threads : BeforeEntry(t)
        /\ \/ \A v \in AtLevel(ptLevel + 1) : cross[v] = NoVector
           \/ first[ptLevel] # NoVector
           \/ \E t \in Threads : th[t].pc \in {"first", "setfirst"}
        /\ \A t \in Threads : th[t].pc = "update" /\ th[t].entry # NoVector =>
              first[ptLevel] # NoVector \/ \E u \in Threads : th[u].pc \in {"first", "setfirst"}

\* A thread always works at the level its position says, no thread descends through
\* a missing cross link, and the first entry of a level under way is never forgotten.
BuildInv ==
    /\ LevelHomogeneous /\ CrossOneDown /\ EntryAtLevel
    /\ CrossComplete /\ FinishedLevelHasEntry
    /\ \A t \in Threads : ThreadOnItsWay(t)
    /\ RemainOnItsWay
    /\ LowerUnlinked
    /\ EntryUnderWay
    /\ stage = "insert" => todo \subseteq AtLevel(ptLevel)
    /\ stage = "remain" => todo \subseteq AtLevel(ptLevel + 1)

\* the lock of a vector is held by the thread on its way to link it, or by the thread
\* that links back to it
Holds(t, v) ==
    \/ /\ th[t].pc \in {"hop", "cross", "update", "first", "setfirst", "link", "read",
                      "fill"}
       /\ v = th[t].pt
    \/ th[t].pc = "add" /\ v = Head(th[t].pending)

\* Locks are held exactly where the threads are in their critical sections.
LocksMatch == \A t \in Threads, v \in Vectors : lock[v] = t <=> Holds(t, v)
================================================================================
