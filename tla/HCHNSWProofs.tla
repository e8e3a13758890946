------------------------------ MODULE HCHNSWProofs ------------------------------
(***************************************************************************)
(* Theorems about HCHNSW, for every set of vectors, every distance, every  *)
(* team of threads and every parameter of the index.                       *)
(***************************************************************************)
EXTENDS HCHNSW, FiniteSetTheorems, SequenceTheorems, TLAPS

--------------------------------------------------------------------------------
(***************************************************************************)
(* Lists and searches.                                                     *)
(***************************************************************************)
\* The capacity of a list is a positive number.
LEMMA CapacityType ==
    ASSUME NEW v \in Vectors
    PROVE  Capacity(v) \in Nat \ {0}
BY SizeAssumption, LevelAssumption DEF Capacity, NbNeighbor, LevelsOf

\* How often a vector occurs in a list is a number.
LEMMA CopiesType ==
    ASSUME NEW list \in Seq(Vectors), NEW v
    PROVE  Copies(v, list) \in Nat
<1>1. IsFiniteSet(1 .. Len(list)) BY FS_Interval, LenProperties
<1>2. {i \in DOMAIN list : list[i] = v} \in SUBSET (1 .. Len(list)) BY LenProperties
<1>3. IsFiniteSet({i \in DOMAIN list : list[i] = v}) BY <1>1, <1>2, FS_Subset
<1> QED BY <1>3, FS_CardinalityType DEF Copies

\* A queue of vectors, emptied, is a sequence of exactly these vectors.
LEMMA FarthestFirstType ==
    ASSUME NEW S \in SUBSET Vectors, NEW q, NEW s \in FarthestFirst(S, q)
    PROVE  /\ s \in Seq(Vectors)
           /\ Len(s) = Cardinality(S)
           /\ Range(s) = S
<1>1. Cardinality(S) \in Nat BY VectorsAssumption, FS_Subset, FS_CardinalityType
<1>2. s \in [1 .. Cardinality(S) -> S] /\ Range(s) = S BY DEF FarthestFirst
<1>3. s \in Seq(S) BY <1>1, <1>2, SeqDef
<1>4. Len(s) = Cardinality(S) BY <1>1, <1>2, <1>3, LenProperties
<1> QED BY <1>2, <1>3, <1>4, SeqMonotonic

\* add_link leaves a list of vectors that has nothing but the old ones, the new one
\* and the owner in it, and that fits if the old one did.
LEMMA AddLinkResult ==
    ASSUME NEW src \in Vectors, NEW dest \in Vectors,
           nbrs[src] \in Seq(Vectors),
           NEW list \in AddLink(src, dest)
    PROVE  /\ list \in Seq(Vectors)
           /\ Range(list) \subseteq Range(nbrs[src]) \cup {src, dest}
           /\ Len(list) <= Capacity(src)
<1> DEFINE longer == Append(nbrs[src], dest)
           self == SmallerOf(Copies(src, longer), Capacity(src))
           queue == Range(longer) \ {src}
<1>1. longer \in Seq(Vectors) BY AppendProperties
<1>2. Range(longer) = Range(nbrs[src]) \cup {dest}
  <2>1. longer = nbrs[src] \o <<dest>> BY AppendIsConcat
  <2>2. Range(<<dest>>) = {dest} BY DEF Range
  <2>3. <<dest>> \in Seq(Vectors) OBVIOUS
  <2>4. Range(nbrs[src] \o <<dest>>) = Range(nbrs[src]) \cup Range(<<dest>>)
    BY <2>3, RangeConcatenation
  <2> HIDE DEF longer
  <2> QED BY <2>1, <2>2, <2>4
<1>3. self \in Nat /\ self <= Capacity(src)
  <2>1. Copies(src, longer) \in Nat BY <1>1, CopiesType
  <2>2. Capacity(src) \in Nat BY CapacityType
  <2> HIDE DEF longer
  <2> QED BY <2>1, <2>2 DEF SmallerOf
<1>4. CASE Len(longer) <= Capacity(src)
  <2>1. list = longer BY <1>4 DEF AddLink
  <2> QED BY <1>1, <1>2, <1>4, <2>1
<1>5. CASE ~(Len(longer) <= Capacity(src))
  <2>1. PICK R \in Shrinks(queue, src, Capacity(src) - self) :
          \E s \in FarthestFirst(R, src) : list = s \o [i \in 1 .. self |-> src]
    BY <1>5 DEF AddLink
  <2>2. PICK s \in FarthestFirst(R, src) : list = s \o [i \in 1 .. self |-> src]
    BY <2>1
  <2>3. R \subseteq queue /\ Cardinality(R) <= Capacity(src) - self
    BY DEF Shrinks
  <2>4. queue \subseteq Vectors BY <1>1, RangeOfSeq
  <2>5. s \in Seq(Vectors) /\ Len(s) = Cardinality(R) /\ Range(s) = R
    BY <2>3, <2>4, FarthestFirstType
  <2> DEFINE copies == [i \in 1 .. self |-> src]
  <2>6. copies \in Seq(Vectors) /\ Len(copies) = self /\ Range(copies) \subseteq {src}
    <3>1. copies \in [1 .. self -> Vectors] OBVIOUS
    <3>2. copies \in Seq(Vectors) BY <1>3, <3>1, SeqDef
    <3>3. Len(copies) = self BY <1>3, <3>1, <3>2, LenProperties
    <3> QED BY <3>2, <3>3 DEF Range
  <2>7. list \in Seq(Vectors) /\ Len(list) = Len(s) + self /\ Range(list) \subseteq R \cup {src}
    <3>1. list = s \o copies BY <2>2
    <3> HIDE DEF copies, self
    <3>2. s \o copies \in Seq(Vectors) /\ Len(s \o copies) = Len(s) + Len(copies)
      BY <2>5, <2>6, ConcatProperties
    <3>3. Range(s \o copies) = Range(s) \cup Range(copies)
      BY <2>5, <2>6, RangeConcatenation
    <3> QED BY <2>5, <2>6, <3>1, <3>2, <3>3
  <2>8. Cardinality(R) \in Nat
    BY <2>3, <2>4, VectorsAssumption, FS_Subset, FS_CardinalityType
  <2> QED BY <1>2, <1>3, <2>3, <2>5, <2>7, <2>8, CapacityType
<1> QED BY <1>4, <1>5

\* If every link stays on its level, so does everything that links lead to.
LEMMA ReachSameLevel ==
    ASSUME LevelHomogeneous, nbrs \in [Vectors -> Seq(Vectors)],
           NEW v \in Vectors, NEW w \in Reach(v)
    PROVE  w \in AtLevel(Level[v])
<1> DEFINE S == AtLevel(Level[v])
<1>1. S \in SUBSET Vectors /\ v \in S BY DEF AtLevel
<1>2. \A x \in S : Range(nbrs[x]) \subseteq S
  BY RangeOfSeq DEF LevelHomogeneous, AtLevel
<1> QED BY <1>1, <1>2 DEF Reach

\* The vectors a new vector is linked to come from the search.
LEMMA LinkTargetsSubset ==
    ASSUME NEW S, NEW q, NEW R \in LinkTargets(S, q)
    PROVE  R \subseteq S
BY DEF LinkTargets, Shrinks

--------------------------------------------------------------------------------
(***************************************************************************)
(* TypeOK and BuildInv are inductive together.                             *)
(***************************************************************************)
BuildTyped == TypeOK /\ BuildInv

\* A thread that waits for work.
LEMMA IdleType == Idle \in ThreadType /\ Idle.pc = "idle" /\ Idle.seen = {}
BY SizeAssumption DEF Idle, ThreadType, MaybeVector, LevelsOf

\* The initial state satisfies the invariant.
LEMMA InitBuild == Init => BuildTyped
<1> SUFFICES ASSUME Init PROVE BuildTyped OBVIOUS
<1> USE DEF Init
<1>1. ML \in LevelsOf BY SizeAssumption DEF LevelsOf
<1>2. TypeOK
  <2> QED BY <1>1, IdleType DEF TypeOK, AtLevel, MaybeVector
<1>3. LevelHomogeneous BY DEF LevelHomogeneous, Range
<1>4. CrossOneDown /\ EntryAtLevel BY DEF CrossOneDown, EntryAtLevel
<1>5. CrossComplete
  <2>1. \A v \in Vectors : Level[v] <= ML BY LevelAssumption, SizeAssumption DEF LevelsOf
  <2> QED BY <2>1, LevelAssumption, SizeAssumption DEF CrossComplete, LevelsOf
<1>6. FinishedLevelHasEntry BY SizeAssumption DEF FinishedLevelHasEntry, LevelsOf
<1>7. \A t \in Threads : ThreadOnItsWay(t) BY DEF ThreadOnItsWay, Idle
<1>8. RemainOnItsWay /\ LowerUnlinked BY DEF RemainOnItsWay, LowerUnlinked
<1>9. EntryUnderWay
  <2>1. \A t \in Threads : th[t].pc = "idle" BY DEF Idle
  <2> QED BY <2>1 DEF EntryUnderWay, AtLevel
<1> QED BY <1>2, <1>3, <1>4, <1>5, <1>6, <1>7, <1>8, <1>9 DEF BuildTyped, BuildInv

\* What a step leaves alone keeps its type and its level.
LEMMA Kept ==
    ASSUME BuildTyped
    PROVE  /\ nbrs' = nbrs => nbrs' \in [Vectors -> Seq(Vectors)] /\ LevelHomogeneous'
           /\ cross' = cross => cross' \in [Vectors -> MaybeVector] /\ CrossOneDown'
           /\ first' = first => first' \in [LevelsOf -> MaybeVector] /\ EntryAtLevel'
           /\ lock' = lock => lock' \in [Vectors -> Threads \cup {NoThread}]
<1>1. nbrs' = nbrs => nbrs' \in [Vectors -> Seq(Vectors)] /\ LevelHomogeneous'
  BY DEF BuildTyped, BuildInv, TypeOK, LevelHomogeneous
<1>2. cross' = cross => cross' \in [Vectors -> MaybeVector] /\ CrossOneDown'
  BY DEF BuildTyped, BuildInv, TypeOK, CrossOneDown
<1>3. first' = first => first' \in [LevelsOf -> MaybeVector] /\ EntryAtLevel'
  BY DEF BuildTyped, BuildInv, TypeOK, EntryAtLevel
<1>4. lock' = lock => lock' \in [Vectors -> Threads \cup {NoThread}]
  BY DEF BuildTyped, TypeOK
<1> QED BY <1>1, <1>2, <1>3, <1>4

\* What has to be shown of a step of one thread: its own place, the level of what it
\* writes, that it takes no link and no entry away, and what becomes of the entry of
\* the level under way.
LEMMA ThreadStep ==
    ASSUME BuildTyped, NEW t \in Threads, NEW x \in ThreadType,
           th' = [th EXCEPT ![t] = x],
           UNCHANGED <<ptLevel, stage, rem>>,
           todo' \subseteq todo, todo' = todo \/ stage = "insert",
           nbrs' \in [Vectors -> Seq(Vectors)],
           cross' \in [Vectors -> MaybeVector],
           first' \in [LevelsOf -> MaybeVector],
           lock' \in [Vectors -> Threads \cup {NoThread}],
           \A v \in Vectors : cross[v] # NoVector => cross'[v] # NoVector,
           \A v \in Vectors : cross'[v] # cross[v] => Level[v] = ptLevel + 1,
           \A l \in LevelsOf : first[l] # NoVector => first'[l] # NoVector,
           LevelHomogeneous', CrossOneDown', EntryAtLevel',
           ThreadOnItsWay(t)', EntryUnderWay'
    PROVE  BuildTyped'
<1> USE DEF BuildTyped, BuildInv
<1>1. TypeOK' BY DEF TypeOK
<1>2. CrossComplete' BY DEF CrossComplete
<1>3. FinishedLevelHasEntry' BY DEF FinishedLevelHasEntry
<1>4. \A u \in Threads : ThreadOnItsWay(u)'
  <2> SUFFICES ASSUME NEW u \in Threads \ {t} PROVE ThreadOnItsWay(u)'
    OBVIOUS
  <2>1. ThreadOnItsWay(u) /\ th'[u] = th[u] BY DEF TypeOK
  <2>2. first[ML] # NoVector => first'[ML] # NoVector BY SizeAssumption DEF LevelsOf
  <2> QED BY <2>1, <2>2 DEF ThreadOnItsWay, AtLevel, Range
<1>5. RemainOnItsWay' BY DEF RemainOnItsWay, AtLevel
<1>6. (stage = "insert" => todo \subseteq AtLevel(ptLevel))' BY DEF AtLevel
<1>7. LowerUnlinked'
  <2>1. ptLevel \in Nat /\ \A v \in Vectors : Level[v] \in Nat
    BY LevelAssumption, SizeAssumption DEF TypeOK, LevelsOf
  <2> SUFFICES ASSUME NEW v \in Vectors, Level[v] <= ptLevel PROVE cross'[v] = NoVector
    BY DEF LowerUnlinked
  <2>2. cross[v] = NoVector /\ Level[v] # ptLevel + 1 BY <2>1 DEF LowerUnlinked
  <2> QED BY <2>2
<1> QED BY <1>1, <1>2, <1>3, <1>4, <1>5, <1>6, <1>7

\* A step that writes neither lists nor links nor entries.
LEMMA QuietStep ==
    ASSUME BuildTyped, NEW t \in Threads, NEW x \in ThreadType,
           th' = [th EXCEPT ![t] = x],
           UNCHANGED <<ptLevel, stage, todo, nbrs, cross, first, rem>>,
           lock' \in [Vectors -> Threads \cup {NoThread}],
           ThreadOnItsWay(t)',
           BeforeEntry(t) => BeforeEntry(t)' \/ first[ptLevel] # NoVector,
           th[t].pc \in {"first", "setfirst"} =>
               x.pc \in {"first", "setfirst"} \/ first[ptLevel] # NoVector,
           x.pc = "update" /\ x.entry # NoVector =>
               \/ first[ptLevel] # NoVector
               \/ \E v \in AtLevel(ptLevel + 1) : cross[v] # NoVector
    PROVE  BuildTyped'
<1> USE DEF BuildTyped, BuildInv
<1>1. nbrs \in [Vectors -> Seq(Vectors)] /\ cross \in [Vectors -> MaybeVector]
        /\ first \in [LevelsOf -> MaybeVector]
  BY DEF TypeOK
<1>2. LevelHomogeneous' /\ CrossOneDown' /\ EntryAtLevel'
  BY DEF LevelHomogeneous, CrossOneDown, EntryAtLevel, Range
<1>3. th'[t] = x /\ \A u \in Threads \ {t} : th'[u] = th[u]
  BY DEF TypeOK
<1>4. EntryUnderWay'
  <2> SUFFICES ASSUME stage = "insert", first[ptLevel] = NoVector PROVE EntryUnderWay'
    BY DEF EntryUnderWay
  <2>1. \/ todo = AtLevel(ptLevel)
        \/ \E u \in Threads : BeforeEntry(u)'
    <3>1. \A u \in Threads : BeforeEntry(u) => BeforeEntry(u)' BY <1>3 DEF BeforeEntry
    <3> QED BY <3>1 DEF EntryUnderWay
  <2>2. (\E u \in Threads : th[u].pc \in {"first", "setfirst"}) =>
           \E u \in Threads : th'[u].pc \in {"first", "setfirst"}
    BY <1>3
  <2>3. \/ \A v \in AtLevel(ptLevel + 1) : cross[v] = NoVector
        \/ \E u \in Threads : th'[u].pc \in {"first", "setfirst"}
    BY <2>2 DEF EntryUnderWay
  <2>4. \A u \in Threads : th'[u].pc = "update" /\ th'[u].entry # NoVector =>
           \E w \in Threads : th'[w].pc \in {"first", "setfirst"}
    BY <1>3, <2>2, <2>3 DEF EntryUnderWay
  <2> QED BY <2>1, <2>3, <2>4 DEF EntryUnderWay, AtLevel
<1> QED BY <1>1, <1>2, <1>4, ThreadStep

\* What is known of a thread that is at work.
LEMMA ThreadFacts ==
    ASSUME BuildTyped, NEW t \in Threads, th[t].pc # "idle"
    PROVE  /\ th[t] \in ThreadType
           /\ th[t].pt \in Vectors /\ Level[th[t].pt] = ptLevel
           /\ ptLevel \in LevelsOf /\ stage = "insert" /\ first[ML] # NoVector
           /\ ThreadOnItsWay(t)
BY DEF BuildTyped, BuildInv, TypeOK, ThreadOnItsWay, AtLevel

\* What comes into a list that is being written is of the level of its vector.
LEMMA BeingAddedLevel ==
    ASSUME BuildTyped, NEW v \in Vectors
    PROVE  BeingAdded(v) \subseteq AtLevel(Level[v])
<1> SUFFICES ASSUME NEW w \in BeingAdded(v) PROVE w \in AtLevel(Level[v])
  OBVIOUS
<1>1. CASE \E u \in Threads : th[u].pc = "add" /\ Head(th[u].pending) = v /\ w = th[u].pt
  <2>1. PICK u \in Threads : th[u].pc = "add" /\ Head(th[u].pending) = v /\ w = th[u].pt
    BY <1>1
  <2>2. /\ th[u] \in ThreadType /\ th[u].pt \in AtLevel(ptLevel) /\ th[u].pending # <<>>
        /\ Range(th[u].pending) \subseteq AtLevel(ptLevel)
    BY <2>1, ThreadFacts DEF ThreadOnItsWay
  <2>3. th[u].pending \in Seq(Vectors) BY <2>2 DEF ThreadType
  <2>4. v \in Range(th[u].pending) BY <2>1, <2>2, <2>3 DEF Range
  <2> QED BY <2>1, <2>2, <2>4 DEF AtLevel
<1>2. CASE \E u \in Threads : /\ th[u].pc = "fill" /\ th[u].pt = v
                              /\ th[u].filled < Len(th[u].pending)
                              /\ w = th[u].pending[th[u].filled + 1]
  <2>1. PICK u \in Threads : /\ th[u].pc = "fill" /\ th[u].pt = v
                             /\ th[u].filled < Len(th[u].pending)
                             /\ w = th[u].pending[th[u].filled + 1]
    BY <1>2
  <2>2. /\ th[u] \in ThreadType /\ th[u].pt \in AtLevel(ptLevel)
        /\ Range(th[u].pending) \subseteq AtLevel(ptLevel)
    BY <2>1, ThreadFacts DEF ThreadOnItsWay
  <2>3. th[u].pending \in Seq(Vectors) /\ th[u].filled \in Nat BY <2>2 DEF ThreadType
  <2>4. th[u].filled + 1 \in DOMAIN th[u].pending BY <2>1, <2>3, LenProperties
  <2>5. w \in Range(th[u].pending) BY <2>1, <2>4 DEF Range
  <2> QED BY <2>1, <2>2, <2>5 DEF AtLevel
<1> QED BY <1>1, <1>2 DEF BeingAdded

\* So is everything a list holds while it is written, ...
LEMMA HoldingLevel ==
    ASSUME BuildTyped, NEW v \in Vectors
    PROVE  Holding(v) \subseteq AtLevel(Level[v])
<1>1. Range(nbrs[v]) \subseteq AtLevel(Level[v])
  BY RangeOfSeq DEF BuildTyped, BuildInv, TypeOK, LevelHomogeneous, AtLevel
<1> QED BY <1>1, BeingAddedLevel DEF Holding

\* ... and whatever a thread sees of it.
LEMMA ViewsLevel ==
    ASSUME BuildTyped, NEW t \in Threads, th[t].pc \in {"hop", "read"},
           NEW view \in Views(t, th[t].nearest)
    PROVE  view \subseteq AtLevel(th[t].lvl)
<1>1. th[t].nearest \in AtLevel(th[t].lvl) /\ th[t].seen \subseteq AtLevel(th[t].lvl)
  BY ThreadFacts DEF ThreadOnItsWay
<1>2. Holding(th[t].nearest) \subseteq AtLevel(th[t].lvl)
  BY <1>1, HoldingLevel DEF AtLevel
<1>3. view \subseteq th[t].seen \cup Holding(th[t].nearest) BY DEF Views, Holding
<1> QED BY <1>1, <1>2, <1>3

\* What a step of the greedy search does to its thread.
LEMMA HopMoves ==
    ASSUME BuildTyped, NEW t \in Threads, Hop(t)
    PROVE  /\ th[t].pc = "hop" /\ UNCHANGED <<ptLevel, stage, todo, nbrs, cross, first, lock, rem>>
           /\ th'[t].pt = th[t].pt /\ th'[t].entry = th[t].entry /\ th'[t].lvl = th[t].lvl
           /\ th'[t].pending = th[t].pending /\ th'[t].filled = th[t].filled
           /\ th'[t].seen = {} /\ th'[t].expanded = th[t].expanded
           /\ \E view \in Views(t, th[t].nearest) :
                 \/ /\ th'[t].pc = "hop" /\ th'[t].met = th[t].met
                    /\ th'[t].nearest \in Closer(th[t].pt, th[t].nearest, view)
                 \/ /\ Closer(th[t].pt, th[t].nearest, view) = {}
                    /\ th'[t].nearest = th[t].nearest
                    /\ \/ /\ th[t].lvl = Level[th[t].pt] /\ th'[t].pc = "link"
                          /\ th'[t].met = {th[t].nearest}
                       \/ th[t].lvl # Level[th[t].pt] /\ th'[t].pc = "cross" /\ th'[t].met = th[t].met
<1>1. th \in [Threads -> ThreadType] /\ th[t] \in ThreadType BY DEF BuildTyped, TypeOK
<1>2. /\ th[t].pc = "hop" /\ UNCHANGED <<ptLevel, stage, todo, nbrs, cross, first, lock, rem>>
  BY DEF Hop
<1>3. PICK view \in Views(t, th[t].nearest) :
        \/ \E w \in Closer(th[t].pt, th[t].nearest, view) :
              th' = [th EXCEPT ![t].nearest = w, ![t].seen = {}]
        \/ /\ Closer(th[t].pt, th[t].nearest, view) = {}
           /\ th' = IF th[t].lvl = Level[th[t].pt]
                    THEN [th EXCEPT ![t].pc = "link", ![t].seen = {}, ![t].met = {th[t].nearest}]
                    ELSE [th EXCEPT ![t].pc = "cross", ![t].seen = {}]
  BY DEF Hop
<1>4. ASSUME NEW w \in Closer(th[t].pt, th[t].nearest, view),
             th' = [th EXCEPT ![t].nearest = w, ![t].seen = {}]
      PROVE  /\ th'[t].pc = "hop" /\ th'[t].nearest = w /\ th'[t].met = th[t].met
             /\ th'[t].pt = th[t].pt /\ th'[t].entry = th[t].entry /\ th'[t].lvl = th[t].lvl
             /\ th'[t].pending = th[t].pending /\ th'[t].filled = th[t].filled
             /\ th'[t].seen = {} /\ th'[t].expanded = th[t].expanded
  BY <1>1, <1>2, <1>4 DEF ThreadType
<1>5. ASSUME th' = [th EXCEPT ![t].pc = "link", ![t].seen = {}, ![t].met = {th[t].nearest}]
      PROVE  /\ th'[t].pc = "link" /\ th'[t].nearest = th[t].nearest
             /\ th'[t].met = {th[t].nearest}
             /\ th'[t].pt = th[t].pt /\ th'[t].entry = th[t].entry /\ th'[t].lvl = th[t].lvl
             /\ th'[t].pending = th[t].pending /\ th'[t].filled = th[t].filled
             /\ th'[t].seen = {} /\ th'[t].expanded = th[t].expanded
  BY <1>1, <1>5 DEF ThreadType
<1>6. ASSUME th' = [th EXCEPT ![t].pc = "cross", ![t].seen = {}]
      PROVE  /\ th'[t].pc = "cross" /\ th'[t].nearest = th[t].nearest /\ th'[t].met = th[t].met
             /\ th'[t].pt = th[t].pt /\ th'[t].entry = th[t].entry /\ th'[t].lvl = th[t].lvl
             /\ th'[t].pending = th[t].pending /\ th'[t].filled = th[t].filled
             /\ th'[t].seen = {} /\ th'[t].expanded = th[t].expanded
  BY <1>1, <1>6 DEF ThreadType
<1>7. CASE \E w \in Closer(th[t].pt, th[t].nearest, view) :
             th' = [th EXCEPT ![t].nearest = w, ![t].seen = {}]
  BY <1>2, <1>4, <1>7
<1>8. CASE /\ Closer(th[t].pt, th[t].nearest, view) = {}
           /\ th[t].lvl = Level[th[t].pt]
           /\ th' = [th EXCEPT ![t].pc = "link", ![t].seen = {}, ![t].met = {th[t].nearest}]
  BY <1>2, <1>5, <1>8
<1>9. CASE /\ Closer(th[t].pt, th[t].nearest, view) = {}
           /\ th[t].lvl # Level[th[t].pt]
           /\ th' = [th EXCEPT ![t].pc = "cross", ![t].seen = {}]
  BY <1>2, <1>6, <1>9
<1> QED BY <1>3, <1>7, <1>8, <1>9

\* What the steps of the search for neighbors do to their thread.
LEMMA SearchMoves ==
    ASSUME BuildTyped, NEW t \in Threads, Look(t) \/ Expand(t) \/ ReadList(t)
    PROVE  /\ UNCHANGED <<ptLevel, stage, todo, nbrs, cross, first, lock, rem>>
           /\ th'[t].pt = th[t].pt /\ th'[t].entry = th[t].entry /\ th'[t].lvl = th[t].lvl
           /\ th'[t].pending = th[t].pending /\ th'[t].filled = th[t].filled
           /\ \/ /\ Look(t) /\ th[t].pc \in {"hop", "read"} /\ th'[t].pc = th[t].pc
                 /\ th'[t].nearest = th[t].nearest /\ th'[t].met = th[t].met
                 /\ th'[t].expanded = th[t].expanded
                 /\ th'[t].seen = th[t].seen \cup Holding(th[t].nearest)
              \/ /\ th[t].pc = "link" /\ th'[t].pc = "read" /\ th'[t].nearest \in th[t].met
                 /\ th'[t].met = th[t].met /\ th'[t].expanded = th[t].expanded
                 /\ th'[t].seen = th[t].seen
              \/ /\ th[t].pc = "read" /\ th'[t].pc = "link" /\ th'[t].nearest = th[t].nearest
                 /\ \E view \in Views(t, th[t].nearest) : th'[t].met = th[t].met \cup view
                 /\ th'[t].expanded = th[t].expanded \cup {th[t].nearest}
                 /\ th'[t].seen = {}
<1>1. th \in [Threads -> ThreadType] /\ th[t] \in ThreadType BY DEF BuildTyped, TypeOK
<1>2. UNCHANGED <<ptLevel, stage, todo, nbrs, cross, first, lock, rem>>
  BY DEF Look, Expand, ReadList
<1>3. CASE Look(t)
  <2> DEFINE held == Holding(th[t].nearest)
  <2>1. th[t].pc \in {"hop", "read"} /\ th' = [th EXCEPT ![t].seen = @ \cup held]
    BY <1>3 DEF Look
  <2> HIDE DEF held
  <2>2. /\ th'[t].pt = th[t].pt /\ th'[t].entry = th[t].entry /\ th'[t].lvl = th[t].lvl
        /\ th'[t].pending = th[t].pending /\ th'[t].filled = th[t].filled
        /\ th'[t].pc = th[t].pc /\ th'[t].nearest = th[t].nearest /\ th'[t].met = th[t].met
        /\ th'[t].expanded = th[t].expanded /\ th'[t].seen = th[t].seen \cup held
    BY <1>1, <2>1 DEF ThreadType
  <2> QED BY <1>2, <1>3, <2>1, <2>2 DEF held
<1>4. CASE Expand(t)
  <2>1. PICK v \in th[t].met : th' = [th EXCEPT ![t].pc = "read", ![t].nearest = v]
    BY <1>4 DEF Expand
  <2>2. th[t].pc = "link" BY <1>4 DEF Expand
  <2>3. /\ th'[t].pt = th[t].pt /\ th'[t].entry = th[t].entry /\ th'[t].lvl = th[t].lvl
        /\ th'[t].pending = th[t].pending /\ th'[t].filled = th[t].filled
        /\ th'[t].pc = "read" /\ th'[t].nearest = v /\ th'[t].met = th[t].met
        /\ th'[t].expanded = th[t].expanded /\ th'[t].seen = th[t].seen
    BY <1>1, <2>1 DEF ThreadType
  <2> QED BY <1>2, <2>2, <2>3
<1>5. CASE ReadList(t)
  <2>1. PICK view \in Views(t, th[t].nearest) :
          th' = [th EXCEPT ![t].pc = "link", ![t].seen = {}, ![t].met = @ \cup view,
                           ![t].expanded = @ \cup {th[t].nearest}]
    BY <1>5 DEF ReadList
  <2>2. th[t].pc = "read" BY <1>5 DEF ReadList
  <2>3. /\ th'[t].pt = th[t].pt /\ th'[t].entry = th[t].entry /\ th'[t].lvl = th[t].lvl
        /\ th'[t].pending = th[t].pending /\ th'[t].filled = th[t].filled
        /\ th'[t].pc = "link" /\ th'[t].nearest = th[t].nearest
        /\ th'[t].met = th[t].met \cup view
        /\ th'[t].expanded = th[t].expanded \cup {th[t].nearest} /\ th'[t].seen = {}
    BY <1>1, <2>1 DEF ThreadType
  <2> QED BY <1>2, <2>2, <2>3
<1> QED BY <1>3, <1>4, <1>5

\* What the choice of the neighbors to link to does to its thread.
LEMMA TargetMoves ==
    ASSUME BuildTyped, NEW t \in Threads, FindTargets(t)
    PROVE  /\ th[t].pc = "link" /\ UNCHANGED <<ptLevel, stage, todo, nbrs, cross, first, lock, rem>>
           /\ th'[t].pc = "fill" /\ th'[t].pt = th[t].pt /\ th'[t].entry = th[t].entry
           /\ th'[t].nearest = th[t].nearest /\ th'[t].seen = th[t].seen /\ th'[t].met = {}
           /\ th'[t].filled = th[t].filled
           /\ \E found \in Results(th[t].met, th[t].pt) :
                 /\ found \subseteq th[t].expanded
                 /\ \E targets \in LinkTargets(found, th[t].pt) :
                       th'[t].pending \in FarthestFirst(targets, th[t].pt)
<1>1. th \in [Threads -> ThreadType] /\ th[t] \in ThreadType BY DEF BuildTyped, TypeOK
<1>2. /\ th[t].pc = "link" /\ UNCHANGED <<ptLevel, stage, todo, nbrs, cross, first, lock, rem>>
  BY DEF FindTargets
<1>3. PICK found \in Results(th[t].met, th[t].pt) :
        /\ found \subseteq th[t].expanded
        /\ \E targets \in LinkTargets(found, th[t].pt) :
           \E pending \in FarthestFirst(targets, th[t].pt) :
              th' = [th EXCEPT ![t].pc = "fill", ![t].pending = pending,
                               ![t].met = {}, ![t].expanded = {}]
  BY DEF FindTargets
<1>4. PICK targets \in LinkTargets(found, th[t].pt) :
        \E pending \in FarthestFirst(targets, th[t].pt) :
           th' = [th EXCEPT ![t].pc = "fill", ![t].pending = pending,
                            ![t].met = {}, ![t].expanded = {}]
  BY <1>3
<1>5. PICK pending \in FarthestFirst(targets, th[t].pt) :
        th' = [th EXCEPT ![t].pc = "fill", ![t].pending = pending,
                         ![t].met = {}, ![t].expanded = {}]
  BY <1>4
<1>6. /\ th'[t].pc = "fill" /\ th'[t].pt = th[t].pt /\ th'[t].entry = th[t].entry
      /\ th'[t].nearest = th[t].nearest /\ th'[t].seen = th[t].seen /\ th'[t].met = {}
      /\ th'[t].filled = th[t].filled /\ th'[t].pending = pending
  BY <1>1, <1>5 DEF ThreadType
<1>7. found \subseteq th[t].expanded BY <1>3
<1>8. th'[t].pending \in FarthestFirst(targets, th[t].pt) BY <1>6
<1>9. \E R \in Results(th[t].met, th[t].pt) :
        /\ R \subseteq th[t].expanded
        /\ \E S \in LinkTargets(R, th[t].pt) : th'[t].pending \in FarthestFirst(S, th[t].pt)
  BY <1>7, <1>8, Zenon
<1> QED BY <1>2, <1>6, <1>9

\* Taking the own lock starts the descent on the highest level, where the entry is.
LEMMA LockOwnBuild ==
    ASSUME BuildTyped, NEW t \in Threads, LockOwn(t) PROVE BuildTyped'
<1> DEFINE x == [th[t] EXCEPT !.pc = "hop", !.lvl = ML]
<1>1. /\ th[t].pc = "lock" /\ th[t] \in ThreadType /\ th[t].nearest \in AtLevel(ML)
      /\ th[t].pt \in AtLevel(ptLevel) /\ stage = "insert" /\ first[ML] # NoVector
      /\ ptLevel \in LevelsOf /\ th[t].seen = {}
  BY ThreadFacts DEF LockOwn, ThreadOnItsWay
<1>2. ML \in LevelsOf /\ ptLevel <= ML /\ ptLevel \in Nat
  BY <1>1, SizeAssumption DEF LevelsOf
<1>3. x \in ThreadType /\ x.pc = "hop" /\ x.lvl = ML /\ x.pt = th[t].pt
        /\ x.nearest = th[t].nearest /\ x.seen = {}
  BY <1>1, <1>2 DEF ThreadType
<1>4. th' = [th EXCEPT ![t] = x] /\ UNCHANGED <<ptLevel, stage, todo, nbrs, cross, first, rem>>
        /\ lock' \in [Vectors -> Threads \cup {NoThread}]
  BY DEF LockOwn, BuildTyped, TypeOK
<1> HIDE DEF x
<1>5. th'[t] = x BY <1>4 DEF BuildTyped, TypeOK
<1>6. ThreadOnItsWay(t)' BY <1>1, <1>2, <1>3, <1>4, <1>5 DEF ThreadOnItsWay, AtLevel
<1>7. BeforeEntry(t)' \/ first[ptLevel] # NoVector
  BY <1>1, <1>2, <1>3, <1>4, <1>5, SizeAssumption DEF BeforeEntry
<1> QED BY <1>1, <1>3, <1>4, <1>6, <1>7, QuietStep

\* What a thread remembers of a list while it is written is on the level it searches.
LEMMA LookBuild ==
    ASSUME BuildTyped, NEW t \in Threads, Look(t) PROVE BuildTyped'
<1> DEFINE held == Holding(th[t].nearest)
           x == [th[t] EXCEPT !.seen = @ \cup held]
<1>1. /\ th[t].pc \in {"hop", "read"} /\ th[t].nearest \in AtLevel(th[t].lvl)
      /\ th[t].seen \subseteq AtLevel(th[t].lvl) /\ th[t] \in ThreadType
      /\ ThreadOnItsWay(t)
  BY ThreadFacts DEF Look, ThreadOnItsWay
<1>2. held \subseteq AtLevel(th[t].lvl) BY <1>1, HoldingLevel DEF AtLevel
<1> HIDE DEF held
<1>3. /\ x \in ThreadType /\ x.pc = th[t].pc /\ x.pt = th[t].pt /\ x.lvl = th[t].lvl
      /\ x.nearest = th[t].nearest /\ x.entry = th[t].entry /\ x.met = th[t].met
      /\ x.pending = th[t].pending /\ x.seen = th[t].seen \cup held
  BY <1>1, <1>2 DEF ThreadType, AtLevel
<1>4. th' = [th EXCEPT ![t] = x] /\ UNCHANGED <<ptLevel, stage, todo, nbrs, cross, first, lock, rem>>
        /\ lock' \in [Vectors -> Threads \cup {NoThread}]
  BY DEF Look, BuildTyped, TypeOK, held
<1> HIDE DEF x
<1>5. th'[t] = x BY <1>4 DEF BuildTyped, TypeOK
<1>6. ThreadOnItsWay(t)' BY <1>1, <1>2, <1>3, <1>4, <1>5 DEF ThreadOnItsWay, AtLevel
<1>7. BeforeEntry(t) => BeforeEntry(t)' BY <1>3, <1>4, <1>5 DEF BeforeEntry
<1> QED BY <1>1, <1>3, <1>4, <1>6, <1>7, QuietStep

\* A hop stays on its level: whatever is seen of a list, it holds vectors of that level.
LEMMA HopBuild ==
    ASSUME BuildTyped, NEW t \in Threads, Hop(t) PROVE BuildTyped'
<1>1. /\ th[t].pc = "hop" /\ th[t].lvl >= ptLevel /\ th[t].nearest \in AtLevel(th[t].lvl)
      /\ th[t] \in ThreadType /\ th[t].pt \in AtLevel(ptLevel) /\ stage = "insert"
      /\ first[ML] # NoVector /\ th[t].lvl \in Nat /\ ptLevel \in Nat
  BY ThreadFacts, SizeAssumption DEF Hop, ThreadOnItsWay, ThreadType, LevelsOf
<1>2. UNCHANGED <<ptLevel, stage, todo, nbrs, cross, first, lock, rem>>
        /\ lock' \in [Vectors -> Threads \cup {NoThread}]
  BY DEF Hop, BuildTyped, TypeOK
<1>3. PICK view \in Views(t, th[t].nearest) :
        \/ \E w \in Closer(th[t].pt, th[t].nearest, view) :
              th' = [th EXCEPT ![t].nearest = w, ![t].seen = {}]
        \/ th' = IF th[t].lvl = Level[th[t].pt]
                 THEN [th EXCEPT ![t].pc = "link", ![t].seen = {}, ![t].met = {th[t].nearest}]
                 ELSE [th EXCEPT ![t].pc = "cross", ![t].seen = {}]
  BY DEF Hop
<1>4. CASE \E w \in Closer(th[t].pt, th[t].nearest, view) :
             th' = [th EXCEPT ![t].nearest = w, ![t].seen = {}]
  <2>1. PICK w \in Closer(th[t].pt, th[t].nearest, view) :
          th' = [th EXCEPT ![t].nearest = w, ![t].seen = {}]
    BY <1>4
  <2> DEFINE x == [th[t] EXCEPT !.nearest = w, !.seen = {}]
  <2>2. w \in view BY DEF Closer
  <2>3. w \in AtLevel(th[t].lvl) BY <1>1, <2>2, ViewsLevel
  <2>5. x \in ThreadType /\ x.pc = "hop" /\ x.lvl = th[t].lvl /\ x.pt = th[t].pt /\ x.nearest = w
          /\ x.seen = {}
    BY <1>1, <2>3 DEF ThreadType, AtLevel, MaybeVector
  <2>6. th' = [th EXCEPT ![t] = x] BY <2>1
  <2> HIDE DEF x
  <2>7. th'[t] = x BY <2>6 DEF BuildTyped, TypeOK
  <2>8. ThreadOnItsWay(t)' BY <1>1, <1>2, <2>3, <2>5, <2>7 DEF ThreadOnItsWay, AtLevel
  <2>9. BeforeEntry(t) => BeforeEntry(t)' BY <1>1, <1>2, <2>5, <2>7 DEF BeforeEntry
  <2> QED BY <1>1, <1>2, <2>5, <2>6, <2>8, <2>9, QuietStep
<1>5. CASE /\ th[t].lvl = ptLevel
           /\ th' = [th EXCEPT ![t].pc = "link", ![t].seen = {}, ![t].met = {th[t].nearest}]
  <2> DEFINE x == [th[t] EXCEPT !.pc = "link", !.seen = {}, !.met = {th[t].nearest}]
  <2>1. x \in ThreadType /\ x.lvl = th[t].lvl /\ x.pt = th[t].pt /\ x.nearest = th[t].nearest
          /\ x.pc = "link" /\ x.seen = {} /\ x.met = {th[t].nearest}
    BY <1>1 DEF ThreadType, AtLevel
  <2>2. th' = [th EXCEPT ![t] = x] BY <1>5
  <2> HIDE DEF x
  <2>3. th'[t] = x BY <2>2 DEF BuildTyped, TypeOK
  <2>4. ThreadOnItsWay(t)' BY <1>1, <1>2, <1>5, <2>1, <2>3 DEF ThreadOnItsWay, AtLevel
  <2>5. ~BeforeEntry(t) BY <1>1, <1>5 DEF BeforeEntry
  <2> QED BY <1>1, <1>2, <2>1, <2>2, <2>4, <2>5, QuietStep
<1>6. CASE /\ th[t].lvl # ptLevel
           /\ th' = [th EXCEPT ![t].pc = "cross", ![t].seen = {}]
  <2> DEFINE x == [th[t] EXCEPT !.pc = "cross", !.seen = {}]
  <2>6. th[t].lvl > ptLevel BY <1>1, <1>6
  <2>1. x \in ThreadType /\ x.lvl = th[t].lvl /\ x.pt = th[t].pt /\ x.nearest = th[t].nearest
          /\ x.pc = "cross" /\ x.seen = {}
    BY <1>1 DEF ThreadType, AtLevel
  <2>2. th' = [th EXCEPT ![t] = x] BY <1>6
  <2> HIDE DEF x
  <2>3. th'[t] = x BY <2>2 DEF BuildTyped, TypeOK
  <2>4. ThreadOnItsWay(t)' BY <1>1, <1>2, <2>1, <2>3, <2>6 DEF ThreadOnItsWay, AtLevel
  <2>5. BeforeEntry(t) => BeforeEntry(t)' BY <1>1, <1>2, <1>6, <2>1, <2>3 DEF BeforeEntry
  <2> QED BY <1>1, <1>2, <2>1, <2>2, <2>4, <2>5, QuietStep
<1>7. Level[th[t].pt] = ptLevel BY <1>1 DEF AtLevel
<1> QED BY <1>3, <1>4, <1>5, <1>6, <1>7

\* Following a cross link leads one level down, and above the level under way none is missing.
LEMMA ReadCrossBuild ==
    ASSUME BuildTyped, NEW t \in Threads, ReadCross(t) PROVE BuildTyped'
<1> DEFINE entry == cross[th[t].nearest]
<1>1. /\ th[t].pc = "cross" /\ th[t].lvl > ptLevel /\ th[t].nearest \in AtLevel(th[t].lvl)
      /\ th[t] \in ThreadType /\ th[t].pt \in AtLevel(ptLevel) /\ stage = "insert"
      /\ first[ML] # NoVector /\ th[t].lvl \in LevelsOf /\ ptLevel \in LevelsOf
  BY ThreadFacts DEF ReadCross, ThreadOnItsWay, ThreadType
<1>8. th[t].seen = {} BY <1>1, ThreadFacts DEF ThreadOnItsWay
<1>2. th[t].lvl \in Nat /\ ptLevel \in Nat /\ th[t].lvl - 1 \in LevelsOf
  BY <1>1, SizeAssumption DEF LevelsOf
<1>3. UNCHANGED <<ptLevel, stage, todo, nbrs, cross, first, lock, rem>>
        /\ lock' \in [Vectors -> Threads \cup {NoThread}]
  BY DEF ReadCross, BuildTyped, TypeOK
<1>4. th[t].nearest \in Vectors /\ Level[th[t].nearest] = th[t].lvl BY <1>1 DEF AtLevel
<1>5. entry \in MaybeVector /\ (entry # NoVector => entry \in AtLevel(th[t].lvl - 1))
  BY <1>4 DEF BuildTyped, BuildInv, TypeOK, CrossOneDown, AtLevel, MaybeVector
<1> HIDE DEF entry
<1>6. CASE th[t].lvl = ptLevel + 1
  <2> DEFINE x == [th[t] EXCEPT !.pc = "update", !.entry = entry]
  <2>1. x \in ThreadType /\ x.pc = "update" /\ x.entry = entry /\ x.pt = th[t].pt
          /\ x.nearest = th[t].nearest /\ x.lvl = th[t].lvl /\ x.seen = {}
    BY <1>1, <1>5, <1>8 DEF ThreadType
  <2>2. th' = [th EXCEPT ![t] = x] BY <1>1, <1>6 DEF ReadCross, AtLevel, entry
  <2> HIDE DEF x
  <2>3. th'[t] = x BY <2>2 DEF BuildTyped, TypeOK
  <2>4. ThreadOnItsWay(t)'
    BY <1>1, <1>2, <1>3, <1>5, <1>6, <2>1, <2>3 DEF ThreadOnItsWay, AtLevel
  <2>5. BeforeEntry(t)' BY <1>2, <1>3, <1>6, <2>1, <2>3 DEF BeforeEntry
  <2>6. x.entry # NoVector => \E v \in AtLevel(ptLevel + 1) : cross[v] # NoVector
    BY <1>1, <1>6, <2>1 DEF entry
  <2> QED BY <1>1, <1>3, <2>1, <2>2, <2>4, <2>5, <2>6, QuietStep
<1>7. CASE th[t].lvl # ptLevel + 1
  <2> DEFINE x == [th[t] EXCEPT !.pc = "hop", !.nearest = entry, !.lvl = th[t].lvl - 1]
  <2>1. entry # NoVector
    <3>1. Level[th[t].nearest] >= ptLevel + 2 BY <1>1, <1>2, <1>4, <1>7
    <3> QED BY <1>4, <3>1 DEF BuildTyped, BuildInv, CrossComplete, entry
  <2>2. x \in ThreadType /\ x.pc = "hop" /\ x.nearest = entry /\ x.pt = th[t].pt
          /\ x.lvl = th[t].lvl - 1 /\ x.seen = {}
    BY <1>1, <1>2, <1>5, <1>8 DEF ThreadType
  <2>3. th' = [th EXCEPT ![t] = x] BY <1>1, <1>7 DEF ReadCross, AtLevel, entry
  <2> HIDE DEF x
  <2>4. th'[t] = x BY <2>3 DEF BuildTyped, TypeOK
  <2>5. ThreadOnItsWay(t)'
    BY <1>1, <1>2, <1>3, <1>5, <2>1, <2>2, <2>4 DEF ThreadOnItsWay, AtLevel
  <2>6. BeforeEntry(t)' BY <1>1, <1>2, <1>3, <1>7, <2>2, <2>4 DEF BeforeEntry
  <2> QED BY <1>1, <1>3, <2>2, <2>3, <2>5, <2>6, QuietStep
<1> QED BY <1>6, <1>7

\* A first entry that is read is a vector of the level under way.
LEMMA GetFirstBuild ==
    ASSUME BuildTyped, NEW t \in Threads, GetFirst(t) PROVE BuildTyped'
<1> DEFINE entry == first[ptLevel]
<1>1. /\ th[t].pc = "first" /\ th[t].lvl = ptLevel + 1 /\ th[t].nearest \in AtLevel(th[t].lvl)
      /\ th[t] \in ThreadType /\ th[t].pt \in AtLevel(ptLevel) /\ stage = "insert"
      /\ first[ML] # NoVector /\ ptLevel \in LevelsOf
  BY ThreadFacts DEF GetFirst, ThreadOnItsWay
<1>7. th[t].seen = {} BY <1>1, ThreadFacts DEF ThreadOnItsWay
<1>2. ptLevel \in Nat /\ th[t].lvl - 1 = ptLevel BY <1>1, SizeAssumption DEF LevelsOf
<1>3. UNCHANGED <<ptLevel, stage, todo, nbrs, cross, first, lock, rem>>
        /\ lock' \in [Vectors -> Threads \cup {NoThread}]
  BY DEF GetFirst, BuildTyped, TypeOK
<1>4. entry \in MaybeVector /\ (entry # NoVector => entry \in AtLevel(ptLevel))
  BY <1>1 DEF BuildTyped, BuildInv, TypeOK, EntryAtLevel, AtLevel, MaybeVector
<1>5. CASE entry = NoVector
  <2> DEFINE x == [th[t] EXCEPT !.pc = "setfirst"]
  <2>1. x \in ThreadType /\ x.pc = "setfirst" /\ x.pt = th[t].pt
          /\ x.nearest = th[t].nearest /\ x.lvl = th[t].lvl /\ x.seen = {}
    BY <1>1, <1>7 DEF ThreadType
  <2>2. th' = [th EXCEPT ![t] = x] BY <1>1, <1>5 DEF GetFirst, AtLevel
  <2> HIDE DEF x
  <2>3. th'[t] = x BY <2>2 DEF BuildTyped, TypeOK
  <2>4. ThreadOnItsWay(t)' BY <1>1, <1>3, <2>1, <2>3 DEF ThreadOnItsWay, AtLevel
  <2>5. BeforeEntry(t)' BY <2>1, <2>3 DEF BeforeEntry
  <2> QED BY <1>1, <1>3, <2>1, <2>2, <2>4, <2>5, QuietStep
<1>6. CASE entry # NoVector
  <2> DEFINE x == [th[t] EXCEPT !.pc = "hop", !.nearest = entry, !.lvl = th[t].lvl - 1]
  <2>1. x \in ThreadType /\ x.pc = "hop" /\ x.nearest = entry /\ x.pt = th[t].pt
          /\ x.lvl = ptLevel /\ x.seen = {}
    BY <1>1, <1>2, <1>4, <1>7 DEF ThreadType
  <2>2. th' = [th EXCEPT ![t] = x] BY <1>1, <1>6 DEF GetFirst, AtLevel
  <2> HIDE DEF x
  <2>3. th'[t] = x BY <2>2 DEF BuildTyped, TypeOK
  <2>4. ThreadOnItsWay(t)' BY <1>1, <1>2, <1>3, <1>4, <1>6, <2>1, <2>3 DEF ThreadOnItsWay, AtLevel
  <2> QED BY <1>1, <1>3, <1>6, <2>1, <2>2, <2>4, QuietStep
<1> QED BY <1>5, <1>6

\* The candidate whose neighbors are read is on the level of the vector.
LEMMA ExpandBuild ==
    ASSUME BuildTyped, NEW t \in Threads, Expand(t) PROVE BuildTyped'
<1>1. /\ th[t].pc = "link" /\ th[t].lvl = ptLevel /\ th[t].met \subseteq AtLevel(ptLevel)
      /\ th[t].met # {} /\ th[t].seen = {}
      /\ th[t] \in ThreadType /\ th[t].pt \in AtLevel(ptLevel) /\ stage = "insert"
      /\ first[ML] # NoVector /\ ptLevel \in LevelsOf
  BY ThreadFacts DEF Expand, ThreadOnItsWay
<1>2. UNCHANGED <<ptLevel, stage, todo, nbrs, cross, first, lock, rem>>
        /\ lock' \in [Vectors -> Threads \cup {NoThread}]
  BY DEF Expand, BuildTyped, TypeOK
<1>3. PICK v \in th[t].met : th' = [th EXCEPT ![t].pc = "read", ![t].nearest = v]
  BY DEF Expand
<1> DEFINE x == [th[t] EXCEPT !.pc = "read", !.nearest = v]
<1>4. x \in ThreadType /\ x.pc = "read" /\ x.pt = th[t].pt /\ x.nearest = v /\ x.lvl = ptLevel
        /\ x.seen = {} /\ x.met = th[t].met
  BY <1>1 DEF ThreadType, AtLevel, MaybeVector
<1>5. th' = [th EXCEPT ![t] = x] BY <1>3
<1> HIDE DEF x
<1>6. th'[t] = x BY <1>5 DEF BuildTyped, TypeOK
<1>7. v \in AtLevel(ptLevel) BY <1>1
<1>8. ThreadOnItsWay(t)'
  BY <1>1, <1>2, <1>4, <1>6, <1>7 DEF ThreadOnItsWay, AtLevel
<1>9. ~BeforeEntry(t) BY <1>1 DEF BeforeEntry
<1> QED BY <1>1, <1>2, <1>4, <1>5, <1>8, <1>9, QuietStep

\* So are the neighbors it reads.
LEMMA ReadListBuild ==
    ASSUME BuildTyped, NEW t \in Threads, ReadList(t) PROVE BuildTyped'
<1>1. /\ th[t].pc = "read" /\ th[t].lvl = ptLevel /\ th[t].met \subseteq AtLevel(ptLevel)
      /\ th[t].met # {} /\ th[t].nearest \in AtLevel(ptLevel)
      /\ th[t] \in ThreadType /\ th[t].pt \in AtLevel(ptLevel) /\ stage = "insert"
      /\ first[ML] # NoVector /\ ptLevel \in LevelsOf
  BY ThreadFacts DEF ReadList, ThreadOnItsWay
<1>2. UNCHANGED <<ptLevel, stage, todo, nbrs, cross, first, lock, rem>>
        /\ lock' \in [Vectors -> Threads \cup {NoThread}]
  BY DEF ReadList, BuildTyped, TypeOK
<1>3. PICK view \in Views(t, th[t].nearest) :
        th' = [th EXCEPT ![t].pc = "link", ![t].seen = {}, ![t].met = @ \cup view,
                         ![t].expanded = @ \cup {th[t].nearest}]
  BY DEF ReadList
<1>4. view \subseteq AtLevel(ptLevel) BY <1>1, ViewsLevel
<1> DEFINE x == [th[t] EXCEPT !.pc = "link", !.seen = {}, !.met = @ \cup view,
                              !.expanded = @ \cup {th[t].nearest}]
<1>5. x.pc = "link" /\ x.pt = th[t].pt /\ x.nearest = th[t].nearest /\ x.lvl = ptLevel
        /\ x.seen = {} /\ x.met = th[t].met \cup view
  BY <1>1 DEF ThreadType
<1>6. x \in ThreadType BY <1>1, <1>4 DEF ThreadType, AtLevel
<1>7. th' = [th EXCEPT ![t] = x] BY <1>3
<1> HIDE DEF x
<1>8. th'[t] = x BY <1>7 DEF BuildTyped, TypeOK
<1>9. x.met # {} /\ x.met \subseteq AtLevel(ptLevel) BY <1>1, <1>4, <1>5
<1>10. ThreadOnItsWay(t)'
  BY <1>1, <1>2, <1>5, <1>8, <1>9 DEF ThreadOnItsWay, AtLevel
<1>11. ~BeforeEntry(t) BY <1>1 DEF BeforeEntry
<1> QED BY <1>1, <1>2, <1>5, <1>6, <1>7, <1>10, <1>11, QuietStep

\* The neighbors to link to are found on the level of the vector.
LEMMA FindTargetsBuild ==
    ASSUME BuildTyped, NEW t \in Threads, FindTargets(t) PROVE BuildTyped'
<1>1. /\ th[t].pc = "link" /\ th[t].lvl = ptLevel /\ th[t].met \subseteq AtLevel(ptLevel)
      /\ th[t] \in ThreadType /\ th[t].pt \in AtLevel(ptLevel) /\ stage = "insert"
      /\ first[ML] # NoVector /\ ptLevel \in LevelsOf /\ th[t].seen = {}
  BY ThreadFacts DEF FindTargets, ThreadOnItsWay
<1>2. UNCHANGED <<ptLevel, stage, todo, nbrs, cross, first, lock, rem>>
        /\ lock' \in [Vectors -> Threads \cup {NoThread}]
  BY DEF FindTargets, BuildTyped, TypeOK
<1>3. PICK found \in Results(th[t].met, th[t].pt) :
        \E targets \in LinkTargets(found, th[t].pt) :
        \E pending \in FarthestFirst(targets, th[t].pt) :
           th' = [th EXCEPT ![t].pc = "fill", ![t].pending = pending,
                            ![t].met = {}, ![t].expanded = {}]
  BY DEF FindTargets
<1>4. PICK targets \in LinkTargets(found, th[t].pt) :
        \E pending \in FarthestFirst(targets, th[t].pt) :
           th' = [th EXCEPT ![t].pc = "fill", ![t].pending = pending,
                            ![t].met = {}, ![t].expanded = {}]
  BY <1>3
<1>5. PICK pending \in FarthestFirst(targets, th[t].pt) :
        th' = [th EXCEPT ![t].pc = "fill", ![t].pending = pending,
                         ![t].met = {}, ![t].expanded = {}]
  BY <1>4
<1>6. targets \subseteq AtLevel(ptLevel)
  <2>1. found \subseteq th[t].met BY DEF Results
  <2> QED BY <1>1, <2>1, LinkTargetsSubset
<1>7. pending \in Seq(Vectors) /\ Range(pending) \subseteq AtLevel(ptLevel)
  <2>1. targets \in SUBSET Vectors BY <1>6 DEF AtLevel
  <2> QED BY <1>6, <2>1, FarthestFirstType
<1> DEFINE x == [th[t] EXCEPT !.pc = "fill", !.pending = pending, !.met = {}, !.expanded = {}]
<1>8. x \in ThreadType /\ x.pc = "fill" /\ x.pt = th[t].pt /\ x.pending = pending
        /\ x.seen = {}
  BY <1>1, <1>7 DEF ThreadType
<1>9. th' = [th EXCEPT ![t] = x] BY <1>5
<1> HIDE DEF x
<1>10. th'[t] = x BY <1>9 DEF BuildTyped, TypeOK
<1>11. ThreadOnItsWay(t)'
  BY <1>1, <1>2, <1>7, <1>8, <1>10 DEF ThreadOnItsWay, AtLevel, Range
<1>12. ~BeforeEntry(t) BY <1>1 DEF BeforeEntry
<1> QED BY <1>1, <1>2, <1>8, <1>9, <1>11, <1>12, QuietStep

\* Threads that keep their lists, and those that write them, are past the entry.
LEMMA LinkingStep ==
    ASSUME BuildTyped, NEW t \in Threads, NEW x \in ThreadType,
           th[t].pc \in {"fill", "lockother", "add", "relock"},
           x.pc \in {"fill", "lockother", "add", "relock"}, x.pt = th[t].pt,
           Range(x.pending) \subseteq Range(th[t].pending),
           x.pc \in {"fill", "lockother", "add"} => th[t].pc # "relock",
           x.pc \in {"lockother", "add"} => x.pending # <<>>,
           x.seen = th[t].seen,
           th' = [th EXCEPT ![t] = x],
           UNCHANGED <<ptLevel, stage, todo, cross, first, rem>>,
           lock' \in [Vectors -> Threads \cup {NoThread}],
           nbrs' \in [Vectors -> Seq(Vectors)],
           LevelHomogeneous'
    PROVE  BuildTyped'
<1>1. /\ th[t] \in ThreadType /\ th[t].pt \in AtLevel(ptLevel) /\ stage = "insert"
      /\ first[ML] # NoVector /\ ptLevel \in LevelsOf
      /\ th[t].pc # "relock" => Range(th[t].pending) \subseteq AtLevel(ptLevel)
      /\ x.seen = {}
  BY ThreadFacts DEF ThreadOnItsWay
<1>2. th'[t] = x /\ \A u \in Threads \ {t} : th'[u] = th[u]
  BY DEF BuildTyped, TypeOK
<1>3. ThreadOnItsWay(t)'
  <2>1. x.pc # "relock" => Range(x.pending) \subseteq AtLevel(ptLevel) BY <1>1
  <2>2. ptLevel' = ptLevel /\ stage' = stage /\ first' = first OBVIOUS
  <2>3. x.pc \notin {"idle", "lock", "hop", "cross", "update", "first", "setfirst", "link",
                     "read"}
    OBVIOUS
  <2> QED BY <1>1, <1>2, <2>1, <2>2, <2>3 DEF ThreadOnItsWay, AtLevel
<1>4. EntryUnderWay'
  <2>1. \A u \in Threads : BeforeEntry(u) => BeforeEntry(u)' BY <1>2 DEF BeforeEntry
  <2>2. \A u \in Threads : th[u].pc \in {"first", "setfirst"} => th'[u] = th[u] BY <1>2
  <2>3. \A u \in Threads : th'[u].pc = "update" => th'[u] = th[u] BY <1>2
  <2>4. EntryUnderWay BY DEF BuildTyped, BuildInv
  <2> QED BY <2>1, <2>2, <2>3, <2>4 DEF EntryUnderWay, AtLevel
<1>5. cross' \in [Vectors -> MaybeVector] /\ first' \in [LevelsOf -> MaybeVector]
        /\ CrossOneDown' /\ EntryAtLevel'
  BY DEF BuildTyped, BuildInv, TypeOK, CrossOneDown, EntryAtLevel
<1> QED BY <1>3, <1>4, <1>5, ThreadStep

\* Giving up the own lock changes nothing the invariant speaks of but the position.
LEMMA UnlockOwnBuild ==
    ASSUME BuildTyped, NEW t \in Threads, UnlockOwn(t) PROVE BuildTyped'
<1> DEFINE next == IF th[t].pending = <<>> THEN "relock" ELSE "lockother"
           x == [th[t] EXCEPT !.pc = next]
<1>1. th[t].pc = "fill" /\ th[t] \in ThreadType
  BY ThreadFacts DEF UnlockOwn
<1>2. x \in ThreadType /\ x.pc = next /\ x.pt = th[t].pt /\ x.pending = th[t].pending
        /\ x.seen = th[t].seen
  BY <1>1 DEF ThreadType
<1>3. th' = [th EXCEPT ![t] = x] /\ UNCHANGED <<ptLevel, stage, todo, nbrs, cross, first, rem>>
        /\ lock' \in [Vectors -> Threads \cup {NoThread}]
  BY DEF UnlockOwn, BuildTyped, TypeOK
<1>4. nbrs' \in [Vectors -> Seq(Vectors)] /\ LevelHomogeneous'
  BY <1>3, Kept
<1> HIDE DEF x
<1> QED BY <1>1, <1>2, <1>3, <1>4, LinkingStep

\* Taking the lock of a neighbor changes nothing but the position.
LEMMA LockOtherBuild ==
    ASSUME BuildTyped, NEW t \in Threads, LockOther(t) PROVE BuildTyped'
<1> DEFINE x == [th[t] EXCEPT !.pc = "add"]
<1>1. th[t].pc = "lockother" /\ th[t] \in ThreadType /\ th[t].pending # <<>>
  BY ThreadFacts DEF LockOther, ThreadOnItsWay
<1>2. x \in ThreadType /\ x.pc = "add" /\ x.pt = th[t].pt /\ x.pending = th[t].pending
        /\ x.seen = th[t].seen
  BY <1>1 DEF ThreadType
<1>3. th' = [th EXCEPT ![t] = x] /\ UNCHANGED <<ptLevel, stage, todo, nbrs, cross, first, rem>>
        /\ lock' \in [Vectors -> Threads \cup {NoThread}]
  BY DEF LockOther, BuildTyped, TypeOK
<1>4. nbrs' \in [Vectors -> Seq(Vectors)] /\ LevelHomogeneous'
  BY <1>3, Kept
<1> HIDE DEF x
<1> QED BY <1>1, <1>2, <1>3, <1>4, LinkingStep

\* A list that add_link leaves is on its level if the new vector is.
LEMMA AddLinkHomogeneous ==
    ASSUME BuildTyped, NEW src \in Vectors, NEW dest \in Vectors, Level[src] = Level[dest],
           NEW list \in AddLink(src, dest), nbrs' = [nbrs EXCEPT ![src] = list]
    PROVE  nbrs' \in [Vectors -> Seq(Vectors)] /\ LevelHomogeneous'
<1>1. nbrs \in [Vectors -> Seq(Vectors)] /\ LevelHomogeneous
  BY DEF BuildTyped, BuildInv, TypeOK
<1>2. list \in Seq(Vectors) /\ Range(list) \subseteq Range(nbrs[src]) \cup {src, dest}
  BY <1>1, AddLinkResult
<1>3. nbrs'[src] = list /\ \A v \in Vectors \ {src} : nbrs'[v] = nbrs[v] BY <1>1
<1>4. \A w \in Range(nbrs[src]) \cup {src, dest} : Level[w] = Level[src]
  BY <1>1 DEF LevelHomogeneous
<1>5. \A v \in Vectors : \A w \in Range(nbrs'[v]) : Level[w] = Level[v]
  BY <1>1, <1>2, <1>3, <1>4 DEF LevelHomogeneous
<1> QED BY <1>1, <1>2, <1>5 DEF LevelHomogeneous, Range

\* The own list gets vectors of its own level.
LEMMA AddOwnBuild ==
    ASSUME BuildTyped, NEW t \in Threads, AddOwn(t) PROVE BuildTyped'
<1> DEFINE x == [th[t] EXCEPT !.filled = @ + 1]
           dest == th[t].pending[th[t].filled + 1]
<1>1. /\ th[t].pc = "fill" /\ th[t] \in ThreadType /\ th[t].pt \in AtLevel(ptLevel)
      /\ Range(th[t].pending) \subseteq AtLevel(ptLevel)
  BY ThreadFacts DEF AddOwn, ThreadOnItsWay
<1>2. dest \in AtLevel(ptLevel)
  <2>1. th[t].pending \in Seq(Vectors) /\ th[t].filled \in Nat BY <1>1 DEF ThreadType
  <2>2. th[t].filled + 1 \in DOMAIN th[t].pending BY <2>1, LenProperties DEF AddOwn
  <2> QED BY <1>1, <2>2 DEF Range
<1>3. x \in ThreadType /\ x.pc = "fill" /\ x.pt = th[t].pt /\ x.pending = th[t].pending
        /\ x.seen = th[t].seen
  BY <1>1 DEF ThreadType
<1>4. th' = [th EXCEPT ![t] = x] /\ UNCHANGED <<ptLevel, stage, todo, cross, first, lock, rem>>
        /\ lock' \in [Vectors -> Threads \cup {NoThread}]
  BY DEF AddOwn, BuildTyped, TypeOK
<1>5. PICK list \in AddLink(th[t].pt, dest) : nbrs' = [nbrs EXCEPT ![th[t].pt] = list]
  BY DEF AddOwn
<1> HIDE DEF x, dest
<1>6. nbrs' \in [Vectors -> Seq(Vectors)] /\ LevelHomogeneous'
  BY <1>1, <1>2, <1>5, AddLinkHomogeneous DEF AtLevel
<1> QED BY <1>1, <1>3, <1>4, <1>6, LinkingStep

\* The list of a neighbor gets a vector of its own level.
LEMMA AddBackBuild ==
    ASSUME BuildTyped, NEW t \in Threads, AddBack(t) PROVE BuildTyped'
<1> DEFINE other == Head(th[t].pending)
           others == Tail(th[t].pending)
           next == IF others = <<>> THEN "relock" ELSE "lockother"
           x == [th[t] EXCEPT !.pc = next, !.pending = others]
<1>1. /\ th[t].pc = "add" /\ th[t] \in ThreadType /\ th[t].pt \in AtLevel(ptLevel)
      /\ Range(th[t].pending) \subseteq AtLevel(ptLevel) /\ th[t].pending # <<>>
  BY ThreadFacts DEF AddBack, ThreadOnItsWay
<1>2. other \in Range(th[t].pending) /\ others \in Seq(Vectors)
        /\ Range(others) \subseteq Range(th[t].pending)
  <2>1. th[t].pending \in Seq(Vectors) BY <1>1 DEF ThreadType
  <2> QED BY <1>1, <2>1 DEF Range
<1>3. x \in ThreadType /\ x.pc = next /\ x.pt = th[t].pt /\ x.pending = others
        /\ x.seen = th[t].seen
  BY <1>1, <1>2 DEF ThreadType
<1>4. th' = [th EXCEPT ![t] = x] /\ UNCHANGED <<ptLevel, stage, todo, cross, first, rem>>
        /\ lock' \in [Vectors -> Threads \cup {NoThread}]
  BY DEF AddBack, BuildTyped, TypeOK
<1>5. PICK list \in AddLink(other, th[t].pt) : nbrs' = [nbrs EXCEPT ![other] = list]
  BY DEF AddBack
<1>6. next \in {"relock", "lockother"} /\ (next = "lockother" => others # <<>>)
  OBVIOUS
<1> HIDE DEF x, other, others, next
<1>7. nbrs' \in [Vectors -> Seq(Vectors)] /\ LevelHomogeneous'
  BY <1>1, <1>2, <1>5, AddLinkHomogeneous DEF AtLevel
<1> QED BY <1>1, <1>2, <1>3, <1>4, <1>6, <1>7, LinkingStep

\* A thread that is done is idle again.
LEMMA RelockBuild ==
    ASSUME BuildTyped, NEW t \in Threads, Relock(t) PROVE BuildTyped'
<1>1. th[t].pc = "relock" BY DEF Relock
<1>2. Idle \in ThreadType /\ Idle.pc = "idle" BY IdleType
<1>3. th' = [th EXCEPT ![t] = Idle]
        /\ UNCHANGED <<ptLevel, stage, todo, nbrs, cross, first, rem>>
        /\ lock' \in [Vectors -> Threads \cup {NoThread}]
  BY DEF Relock, BuildTyped, TypeOK
<1>4. ThreadOnItsWay(t)'
  BY <1>2, <1>3 DEF ThreadOnItsWay, BuildTyped, TypeOK
<1> QED BY <1>1, <1>2, <1>3, <1>4, QuietStep DEF BeforeEntry

\* A thread takes a vector of the level under way and the entry of the highest level.
LEMMA TakeBuild ==
    ASSUME BuildTyped, NEW t \in Threads, Take(t) PROVE BuildTyped'
<1>1. stage = "insert" /\ th[t].pc = "idle" /\ UNCHANGED <<ptLevel, stage, nbrs, cross, lock, rem>>
  BY DEF Take
<1>2. PICK pt \in todo :
        /\ todo' = todo \ {pt}
        /\ \E e \in IF first[ML] = NoVector THEN AtLevel(ML) ELSE {first[ML]} :
            /\ first' = [first EXCEPT ![ML] = e]
            /\ th' = [th EXCEPT ![t] = [Idle EXCEPT !.pc = "lock", !.pt = pt, !.nearest = e]]
  BY DEF Take
<1>3. PICK e \in IF first[ML] = NoVector THEN AtLevel(ML) ELSE {first[ML]} :
        /\ first' = [first EXCEPT ![ML] = e]
        /\ th' = [th EXCEPT ![t] = [Idle EXCEPT !.pc = "lock", !.pt = pt, !.nearest = e]]
  BY <1>2
<1> DEFINE x == [Idle EXCEPT !.pc = "lock", !.pt = pt, !.nearest = e]
<1>4. ML \in LevelsOf /\ first \in [LevelsOf -> MaybeVector] /\ EntryAtLevel
        /\ th \in [Threads -> ThreadType] /\ EntryUnderWay /\ ptLevel \in LevelsOf
  BY SizeAssumption DEF BuildTyped, BuildInv, TypeOK, LevelsOf
<1>5. e \in AtLevel(ML) /\ (first[ML] # NoVector => e = first[ML])
  BY <1>4 DEF EntryAtLevel, MaybeVector, AtLevel
<1>6. pt \in AtLevel(ptLevel) BY <1>1 DEF BuildTyped, BuildInv
<1>7. x \in ThreadType /\ x.pc = "lock" /\ x.pt = pt /\ x.nearest = e /\ x.seen = {}
  BY <1>5, <1>6, IdleType DEF ThreadType, MaybeVector, AtLevel
<1>8. th' = [th EXCEPT ![t] = x] BY <1>3
<1> HIDE DEF x
<1>9. th'[t] = x /\ \A u \in Threads \ {t} : th'[u] = th[u] BY <1>4, <1>8
<1>10. e # NoVector /\ e \in MaybeVector BY <1>5, VectorsAssumption DEF AtLevel, MaybeVector
<1>11. first' \in [LevelsOf -> MaybeVector] /\ first'[ML] = e
         /\ \A l \in LevelsOf \ {ML} : first'[l] = first[l]
  BY <1>3, <1>4, <1>10
<1>12. EntryAtLevel' BY <1>4, <1>5, <1>11 DEF EntryAtLevel, AtLevel
<1>13. ThreadOnItsWay(t)' BY <1>1, <1>5, <1>6, <1>7, <1>9, <1>10, <1>11 DEF ThreadOnItsWay, AtLevel
<1>14. \A l \in LevelsOf : first[l] # NoVector => first'[l] # NoVector BY <1>10, <1>11
<1>15. EntryUnderWay'
  <2>1. \E u \in Threads : BeforeEntry(u)' BY <1>7, <1>9 DEF BeforeEntry
  <2>2. \A u \in Threads : th[u].pc \in {"first", "setfirst"} => th'[u] = th[u] BY <1>1, <1>9
  <2>3. \A u \in Threads : th'[u].pc = "update" => th'[u] = th[u] BY <1>7, <1>9
  <2> QED BY <1>1, <1>4, <1>14, <2>1, <2>2, <2>3 DEF EntryUnderWay, AtLevel
<1>16. nbrs' \in [Vectors -> Seq(Vectors)] /\ cross' \in [Vectors -> MaybeVector]
         /\ lock' \in [Vectors -> Threads \cup {NoThread}]
         /\ LevelHomogeneous' /\ CrossOneDown'
         /\ \A v \in Vectors : cross[v] # NoVector => cross'[v] # NoVector
  BY <1>1, Kept
<1>17. todo' \subseteq todo BY <1>2
<1> QED BY <1>1, <1>7, <1>8, <1>11, <1>12, <1>13, <1>14, <1>15, <1>16, <1>17, ThreadStep

\* The first entry set is the vector itself, of the level under way; setting it twice is harmless.
LEMMA SetFirstBuild ==
    ASSUME BuildTyped, NEW t \in Threads, SetFirst(t) PROVE BuildTyped'
<1> DEFINE pt == th[t].pt
           x == [th[t] EXCEPT !.pc = "hop", !.nearest = pt, !.lvl = th[t].lvl - 1]
<1>1. /\ th[t].pc = "setfirst" /\ th[t].lvl = ptLevel + 1 /\ th[t] \in ThreadType
      /\ pt \in AtLevel(ptLevel) /\ stage = "insert" /\ first[ML] # NoVector
      /\ ptLevel \in LevelsOf /\ th[t].seen = {}
  BY ThreadFacts DEF SetFirst, ThreadOnItsWay
<1>2. ptLevel \in Nat /\ th[t].lvl - 1 = ptLevel /\ ML \in LevelsOf
  BY <1>1, SizeAssumption DEF LevelsOf
<1>3. x \in ThreadType /\ x.pc = "hop" /\ x.pt = pt /\ x.nearest = pt /\ x.lvl = ptLevel
        /\ x.seen = {}
  BY <1>1, <1>2 DEF ThreadType
<1>4. th' = [th EXCEPT ![t] = x] /\ UNCHANGED <<ptLevel, stage, todo, nbrs, cross, lock, rem>>
        /\ first' = [first EXCEPT ![ptLevel] = pt]
  BY <1>1 DEF SetFirst, AtLevel
<1> HIDE DEF x, pt
<1>5. th'[t] = x BY <1>4 DEF BuildTyped, TypeOK
<1>6. pt # NoVector /\ pt \in MaybeVector BY <1>1, VectorsAssumption DEF AtLevel, MaybeVector
<1>7. first' \in [LevelsOf -> MaybeVector] /\ first'[ptLevel] = pt
        /\ \A l \in LevelsOf \ {ptLevel} : first'[l] = first[l]
  BY <1>1, <1>4, <1>6 DEF BuildTyped, TypeOK
<1>8. EntryAtLevel' BY <1>1, <1>7 DEF BuildTyped, BuildInv, EntryAtLevel, AtLevel
<1>9. \A l \in LevelsOf : first[l] # NoVector => first'[l] # NoVector BY <1>6, <1>7
<1>10. ThreadOnItsWay(t)'
  BY <1>1, <1>2, <1>3, <1>4, <1>5, <1>9 DEF ThreadOnItsWay, AtLevel
<1>11. EntryUnderWay' BY <1>4, <1>6, <1>7 DEF EntryUnderWay
<1>12. nbrs' \in [Vectors -> Seq(Vectors)] /\ cross' \in [Vectors -> MaybeVector]
         /\ lock' \in [Vectors -> Threads \cup {NoThread}]
         /\ LevelHomogeneous' /\ CrossOneDown'
         /\ \A v \in Vectors : cross[v] # NoVector => cross'[v] # NoVector
  BY <1>4, Kept
<1> QED BY <1>3, <1>4, <1>7, <1>8, <1>9, <1>10, <1>11, <1>12, ThreadStep

\* A thread just above its level writes a cross link to its own vector.
LEMMA CrossWrite ==
    ASSUME BuildTyped, NEW t \in Threads, th[t].pc = "update",
           cross' = [cross EXCEPT ![th[t].nearest] = th[t].pt]
    PROVE  /\ cross' \in [Vectors -> MaybeVector]
           /\ \A v \in Vectors : cross[v] # NoVector => cross'[v] # NoVector
           /\ \A v \in Vectors : cross'[v] # cross[v] => Level[v] = ptLevel + 1
           /\ CrossOneDown'
<1>1. /\ th[t].lvl = ptLevel + 1 /\ th[t].nearest \in AtLevel(ptLevel + 1)
      /\ th[t].pt \in AtLevel(ptLevel) /\ ptLevel \in Nat
  BY ThreadFacts, SizeAssumption DEF ThreadOnItsWay, LevelsOf
<1>2. cross \in [Vectors -> MaybeVector] /\ CrossOneDown
  BY DEF BuildTyped, BuildInv, TypeOK
<1>3. th[t].pt # NoVector /\ th[t].pt \in Vectors BY <1>1, VectorsAssumption DEF AtLevel
<1> QED BY <1>1, <1>2, <1>3 DEF CrossOneDown, AtLevel, MaybeVector

\* The missing cross link is set to a vector one level down, and the entry of that level follows.
LEMMA SetCrossBuild ==
    ASSUME BuildTyped, NEW t \in Threads, SetCross(t) PROVE BuildTyped'
<1> DEFINE x == [th[t] EXCEPT !.pc = "first"]
<1>1. /\ th[t].pc = "update" /\ th[t].lvl = ptLevel + 1 /\ th[t] \in ThreadType
      /\ th[t].pt \in AtLevel(ptLevel) /\ stage = "insert" /\ first[ML] # NoVector
      /\ th[t].nearest \in AtLevel(ptLevel + 1) /\ th[t].seen = {}
  BY ThreadFacts DEF SetCross, ThreadOnItsWay
<1>2. x \in ThreadType /\ x.pc = "first" /\ x.pt = th[t].pt /\ x.nearest = th[t].nearest
        /\ x.lvl = th[t].lvl /\ x.seen = {}
  BY <1>1 DEF ThreadType
<1>3. th' = [th EXCEPT ![t] = x] /\ UNCHANGED <<ptLevel, stage, todo, nbrs, first, lock, rem>>
        /\ cross' = [cross EXCEPT ![th[t].nearest] = th[t].pt]
  BY DEF SetCross
<1> HIDE DEF x
<1>4. th'[t] = x /\ \A u \in Threads \ {t} : th'[u] = th[u] BY <1>3 DEF BuildTyped, TypeOK
<1>5. /\ cross' \in [Vectors -> MaybeVector] /\ CrossOneDown'
      /\ \A v \in Vectors : cross[v] # NoVector => cross'[v] # NoVector
      /\ \A v \in Vectors : cross'[v] # cross[v] => Level[v] = ptLevel + 1
  BY <1>1, <1>3, CrossWrite
<1>6. ThreadOnItsWay(t)' BY <1>1, <1>2, <1>3, <1>4 DEF ThreadOnItsWay, AtLevel
<1>7. EntryUnderWay'
  <2>1. BeforeEntry(t)' BY <1>2, <1>4 DEF BeforeEntry
  <2>2. th'[t].pc \in {"first", "setfirst"} BY <1>2, <1>4
  <2> QED BY <2>1, <2>2 DEF EntryUnderWay
<1>8. nbrs' \in [Vectors -> Seq(Vectors)] /\ first' \in [LevelsOf -> MaybeVector]
        /\ lock' \in [Vectors -> Threads \cup {NoThread}] /\ LevelHomogeneous' /\ EntryAtLevel'
  BY <1>3, Kept
<1> QED BY <1>2, <1>3, <1>5, <1>6, <1>7, <1>8, ThreadStep

\* A cross link is replaced by one to the same level, and the search goes on one level down.
LEMMA UpdateCrossBuild ==
    ASSUME BuildTyped, NEW t \in Threads, UpdateCross(t) PROVE BuildTyped'
<1> DEFINE x == [th[t] EXCEPT !.pc = "hop", !.nearest = th[t].entry, !.lvl = th[t].lvl - 1]
<1>1. /\ th[t].pc = "update" /\ th[t].lvl = ptLevel + 1 /\ th[t] \in ThreadType
      /\ th[t].pt \in AtLevel(ptLevel) /\ stage = "insert" /\ first[ML] # NoVector
      /\ th[t].entry # NoVector /\ Level[th[t].entry] = ptLevel /\ ptLevel \in LevelsOf
      /\ th[t].seen = {}
  BY ThreadFacts DEF UpdateCross, ThreadOnItsWay
<1>2. ptLevel \in Nat /\ th[t].lvl - 1 = ptLevel BY <1>1, SizeAssumption DEF LevelsOf
<1>3. th[t].entry \in AtLevel(ptLevel) BY <1>1 DEF ThreadType, MaybeVector, AtLevel
<1>4. x \in ThreadType /\ x.pc = "hop" /\ x.pt = th[t].pt /\ x.nearest = th[t].entry
        /\ x.lvl = ptLevel /\ x.seen = {}
  BY <1>1, <1>2 DEF ThreadType
<1>5. th' = [th EXCEPT ![t] = x] /\ UNCHANGED <<ptLevel, stage, todo, nbrs, first, lock, rem>>
  BY DEF UpdateCross
<1> HIDE DEF x
<1>6. th'[t] = x /\ \A u \in Threads \ {t} : th'[u] = th[u] BY <1>5 DEF BuildTyped, TypeOK
<1>7. /\ cross' \in [Vectors -> MaybeVector] /\ CrossOneDown'
      /\ \A v \in Vectors : cross[v] # NoVector => cross'[v] # NoVector
      /\ \A v \in Vectors : cross'[v] # cross[v] => Level[v] = ptLevel + 1
  <2>1. CASE cross' = cross
    BY <2>1 DEF BuildTyped, BuildInv, TypeOK, CrossOneDown
  <2>2. CASE cross' = [cross EXCEPT ![th[t].nearest] = th[t].pt]
    BY <1>1, <2>2, CrossWrite
  <2> QED BY <2>1, <2>2 DEF UpdateCross
<1>8. ThreadOnItsWay(t)' BY <1>1, <1>2, <1>3, <1>4, <1>5, <1>6 DEF ThreadOnItsWay, AtLevel
<1>9. EntryUnderWay'
  <2>1. first[ptLevel] # NoVector \/ \E u \in Threads : th[u].pc \in {"first", "setfirst"}
    BY <1>1 DEF BuildTyped, BuildInv, EntryUnderWay
  <2>2. \A u \in Threads : th[u].pc \in {"first", "setfirst"} => th'[u] = th[u] BY <1>1, <1>6
  <2>3. first'[ptLevel'] # NoVector \/ \E u \in Threads : th'[u].pc \in {"first", "setfirst"}
    BY <1>5, <2>1, <2>2
  <2> QED BY <2>3 DEF EntryUnderWay, BeforeEntry
<1>10. nbrs' \in [Vectors -> Seq(Vectors)] /\ first' \in [LevelsOf -> MaybeVector]
         /\ lock' \in [Vectors -> Threads \cup {NoThread}] /\ LevelHomogeneous' /\ EntryAtLevel'
  BY <1>5, Kept
<1> QED BY <1>4, <1>5, <1>7, <1>8, <1>9, <1>10, ThreadStep

--------------------------------------------------------------------------------
(***************************************************************************)
(* The main thread.                                                        *)
(***************************************************************************)
\* Once the insertions of a level are over, the level has its first entry.
LEMMA LevelOver ==
    ASSUME BuildTyped, stage = "insert", todo = {},
           \A t \in Threads : th[t].pc = "idle"
    PROVE  first[ptLevel] # NoVector
<1>1. \A t \in Threads : ~BeforeEntry(t) BY DEF BeforeEntry
<1>2. AtLevel(ptLevel) # {} BY LevelAssumption DEF BuildTyped, TypeOK
<1> QED BY <1>1, <1>2 DEF BuildTyped, BuildInv, EntryUnderWay

\* Between two levels the main thread goes down a level, or is done.
LEMMA NextLevelDownBuild ==
    ASSUME BuildTyped, \A t \in Threads : th[t].pc = "idle", NextLevelDown,
           UNCHANGED <<nbrs, cross, first, lock, th, rem>>,
           rem.v = NoVector, first[ptLevel] # NoVector,
           \A v \in AtLevel(ptLevel + 1) : cross[v] # NoVector
    PROVE  BuildTyped'
<1> USE DEF BuildTyped, BuildInv
<1>1. ptLevel \in Nat /\ ptLevel <= ML /\ ML \in Nat
        /\ \A v \in Vectors : Level[v] \in Nat
  BY SizeAssumption, LevelAssumption DEF TypeOK, LevelsOf
<1>2. \/ ptLevel = 0 /\ stage' = "done" /\ ptLevel' = ptLevel /\ todo' = todo
      \/ ptLevel # 0 /\ stage' = "insert" /\ ptLevel' = ptLevel - 1 /\ todo' = AtLevel(ptLevel - 1)
  BY DEF NextLevelDown
<1>3. TypeOK' BY <1>1, <1>2 DEF TypeOK, LevelsOf, AtLevel
<1>4. LevelHomogeneous' /\ CrossOneDown' /\ EntryAtLevel' BY Kept
<1>5. CrossComplete'
  <2>1. CASE stage = "done" BY <1>1, <1>2, <2>1 DEF CrossComplete
  <2>2. CASE stage # "done"
    <3>1. \A v \in Vectors : Level[v] >= ptLevel + 2 => cross[v] # NoVector
      BY DEF CrossComplete
    <3>2. \A v \in Vectors : Level[v] >= ptLevel + 1 => cross[v] # NoVector
      BY <1>1, <3>1 DEF AtLevel
    <3> QED BY <1>1, <1>2, <3>2 DEF CrossComplete
  <2> QED BY <2>1, <2>2
<1>6. FinishedLevelHasEntry'
  <2>1. \A l \in LevelsOf : l >= ptLevel => first[l] # NoVector
    BY <1>1 DEF FinishedLevelHasEntry, LevelsOf
  <2> QED BY <1>1, <1>2, <2>1 DEF FinishedLevelHasEntry, LevelsOf
<1>7. \A t \in Threads : ThreadOnItsWay(t)' BY DEF ThreadOnItsWay
<1>8. RemainOnItsWay' BY <1>2 DEF RemainOnItsWay
<1>9. LowerUnlinked' BY <1>1, <1>2 DEF LowerUnlinked
<1>10. EntryUnderWay'
  <2> SUFFICES ASSUME stage' = "insert" PROVE EntryUnderWay'
    BY DEF EntryUnderWay
  <2>1. ptLevel' = ptLevel - 1 /\ todo' = AtLevel(ptLevel - 1) BY <1>2
  <2>2. \A v \in Vectors : Level[v] = ptLevel' + 1 => cross'[v] = NoVector
    BY <1>1, <2>1 DEF LowerUnlinked
  <2>3. \A t \in Threads : th'[t].pc = "idle" OBVIOUS
  <2> QED BY <2>1, <2>2, <2>3 DEF EntryUnderWay, AtLevel
<1>11. (stage = "insert" => todo \subseteq AtLevel(ptLevel))' BY <1>2 DEF AtLevel
<1>12. stage' # "remain" BY <1>2
<1> QED BY <1>3, <1>4, <1>5, <1>6, <1>7, <1>8, <1>9, <1>10, <1>11, <1>12

\* When all threads are idle and nothing is left to insert, the level has its entry.
LEMMA LevelInsertedBuild ==
    ASSUME BuildTyped, LevelInserted PROVE BuildTyped'
<1>1. /\ stage = "insert" /\ todo = {} /\ \A t \in Threads : th[t].pc = "idle"
      /\ UNCHANGED <<nbrs, cross, first, lock, th, rem>>
  BY DEF LevelInserted
<1>2. first[ptLevel] # NoVector BY <1>1, LevelOver
<1>3. rem.v = NoVector BY <1>1 DEF BuildTyped, BuildInv, RemainOnItsWay
<1>4. ptLevel \in LevelsOf /\ ML \in Nat BY SizeAssumption DEF BuildTyped, TypeOK
<1>5. CASE ptLevel = ML
  <2>1. AtLevel(ptLevel + 1) = {}
    BY <1>4, <1>5, LevelAssumption DEF AtLevel, LevelsOf
  <2>2. NextLevelDown BY <1>5 DEF LevelInserted
  <2> QED BY <1>1, <1>2, <1>3, <2>1, <2>2, NextLevelDownBuild
<1>6. CASE ptLevel # ML
  <2>1. stage' = "remain" /\ todo' = AtLevel(ptLevel + 1) /\ UNCHANGED ptLevel
    BY <1>6 DEF LevelInserted
  <2> USE DEF BuildTyped, BuildInv
  <2>2. TypeOK' BY <1>1, <2>1 DEF TypeOK, AtLevel
  <2>3. LevelHomogeneous' /\ CrossOneDown' /\ EntryAtLevel' BY <1>1, Kept
  <2>4. CrossComplete' BY <1>1, <2>1 DEF CrossComplete
  <2>5. FinishedLevelHasEntry' BY <1>1, <1>2, <2>1 DEF FinishedLevelHasEntry
  <2>6. \A t \in Threads : ThreadOnItsWay(t)' BY <1>1 DEF ThreadOnItsWay
  <2>7. RemainOnItsWay' BY <1>1, <1>3, <1>4, <1>6, <2>1 DEF RemainOnItsWay, LevelsOf, AtLevel
  <2>8. LowerUnlinked' BY <1>1, <2>1 DEF LowerUnlinked
  <2>9. EntryUnderWay' BY <2>1 DEF EntryUnderWay
  <2>10. (stage = "remain" => todo \subseteq AtLevel(ptLevel + 1))' BY <2>1 DEF AtLevel
  <2> QED BY <2>1, <2>2, <2>3, <2>4, <2>5, <2>6, <2>7, <2>8, <2>9, <2>10
<1> QED BY <1>5, <1>6

\* What has to be shown of a step of add_remain_cross_link.
LEMMA RemainStep ==
    ASSUME BuildTyped, stage = "remain",
           UNCHANGED <<ptLevel, stage, nbrs, first, lock, th>>, todo' \subseteq todo,
           rem' \in [v : MaybeVector, at : MaybeVector], RemainOnItsWay',
           cross' \in [Vectors -> MaybeVector], CrossOneDown',
           \A v \in Vectors : cross[v] # NoVector => cross'[v] # NoVector,
           \A v \in Vectors : cross'[v] # cross[v] => Level[v] = ptLevel + 1
    PROVE  BuildTyped'
<1> USE DEF BuildTyped, BuildInv
<1>1. TypeOK' BY DEF TypeOK
<1>2. LevelHomogeneous' /\ EntryAtLevel' BY Kept
<1>3. CrossComplete' BY DEF CrossComplete
<1>4. FinishedLevelHasEntry' BY DEF FinishedLevelHasEntry
<1>5. \A t \in Threads : ThreadOnItsWay(t)' BY DEF ThreadOnItsWay
<1>6. LowerUnlinked'
  <2>1. ptLevel \in Nat /\ \A v \in Vectors : Level[v] \in Nat
    BY LevelAssumption, SizeAssumption DEF TypeOK, LevelsOf
  <2> QED BY <2>1 DEF LowerUnlinked
<1>7. EntryUnderWay' BY DEF EntryUnderWay
<1>8. (stage = "remain" => todo \subseteq AtLevel(ptLevel + 1))' BY DEF AtLevel
<1> QED BY <1>1, <1>2, <1>3, <1>4, <1>5, <1>6, <1>7, <1>8

\* A vector that has its cross link is left alone.
LEMMA RemainSkipBuild ==
    ASSUME BuildTyped, RemainSkip PROVE BuildTyped'
<1>1. PICK v \in todo : cross[v] # NoVector /\ todo' = todo \ {v}
  BY DEF RemainSkip
<1>2. stage = "remain" /\ rem.v = NoVector
        /\ UNCHANGED <<ptLevel, stage, nbrs, cross, first, lock, th, rem>>
  BY DEF RemainSkip
<1>3. RemainOnItsWay' BY <1>1, <1>2 DEF BuildTyped, BuildInv, RemainOnItsWay, AtLevel
<1>4. cross' \in [Vectors -> MaybeVector] /\ CrossOneDown' BY <1>2, Kept
<1>5. rem' \in [v : MaybeVector, at : MaybeVector] BY <1>2 DEF BuildTyped, TypeOK
<1>6. todo' \subseteq todo BY <1>1
<1> QED BY <1>2, <1>3, <1>4, <1>5, <1>6, RemainStep

\* The search for a missing cross link starts from the entry of the level below.
LEMMA RemainStartBuild ==
    ASSUME BuildTyped, RemainStart PROVE BuildTyped'
<1>1. stage = "remain" /\ ptLevel \in LevelsOf /\ first[ptLevel] # NoVector
        /\ first[ptLevel] \in AtLevel(ptLevel)
  BY DEF RemainStart, BuildTyped, BuildInv, TypeOK, FinishedLevelHasEntry, EntryAtLevel,
         AtLevel, MaybeVector
<1>2. PICK v \in todo : /\ first' = [first EXCEPT ![ptLevel] = first[ptLevel]]
                        /\ rem' = [v |-> v, at |-> first[ptLevel]]
                        /\ todo' = todo \ {v}
  BY <1>1 DEF RemainStart
<1>3. first' = first BY <1>2 DEF BuildTyped, TypeOK
<1>4. v \in AtLevel(ptLevel + 1) BY <1>1 DEF BuildTyped, BuildInv
<1>5. rem' \in [v : MaybeVector, at : MaybeVector]
  BY <1>1, <1>2, <1>4 DEF AtLevel, MaybeVector
<1>6. UNCHANGED <<ptLevel, stage, nbrs, cross, first, lock, th>> /\ rem.v = NoVector
  BY <1>3 DEF RemainStart
<1>7. RemainOnItsWay'
  <2>1. ptLevel < ML /\ \A u \in AtLevel(ptLevel + 1) \ todo : cross[u] # NoVector \/ u = NoVector
    BY <1>1, <1>6 DEF RemainOnItsWay, BuildTyped, BuildInv
  <2>2. \A u \in AtLevel(ptLevel + 1) \ todo' : cross[u] # NoVector \/ u = v
    BY <1>2, <2>1, VectorsAssumption DEF AtLevel
  <2> QED BY <1>1, <1>2, <1>4, <1>6, <2>1, <2>2 DEF RemainOnItsWay, AtLevel
<1>8. cross' \in [Vectors -> MaybeVector] /\ CrossOneDown' BY <1>6, Kept
<1>9. todo' \subseteq todo BY <1>2
<1> QED BY <1>1, <1>5, <1>6, <1>7, <1>8, <1>9, RemainStep

\* The search for a missing cross link stays on the level below.
LEMMA RemainHopBuild ==
    ASSUME BuildTyped, RemainHop PROVE BuildTyped'
<1>1. /\ stage = "remain" /\ rem.v # NoVector
      /\ UNCHANGED <<ptLevel, stage, todo, nbrs, cross, first, lock, th>>
  BY DEF RemainHop
<1>2. PICK w \in Closer(rem.v, rem.at, Range(nbrs[rem.at])) : rem' = [rem EXCEPT !.at = w]
  BY DEF RemainHop
<1>3. /\ rem \in [v : MaybeVector, at : MaybeVector] /\ ptLevel < ML
      /\ rem.v \in AtLevel(ptLevel + 1) /\ rem.at \in AtLevel(ptLevel)
  BY <1>1 DEF BuildTyped, BuildInv, TypeOK, RemainOnItsWay
<1>4. w \in AtLevel(ptLevel)
  <2>1. w \in Range(nbrs[rem.at]) /\ rem.at \in Vectors BY <1>3 DEF Closer, AtLevel
  <2>2. w \in Vectors BY <2>1, RangeOfSeq DEF BuildTyped, TypeOK
  <2> QED BY <1>3, <2>1, <2>2 DEF BuildTyped, BuildInv, LevelHomogeneous, AtLevel
<1>5. /\ rem' \in [v : MaybeVector, at : MaybeVector]
      /\ rem'.v = rem.v /\ rem'.at = w
  BY <1>2, <1>3, <1>4 DEF AtLevel, MaybeVector
<1>6. RemainOnItsWay'
  BY <1>1, <1>3, <1>4, <1>5 DEF BuildTyped, BuildInv, RemainOnItsWay, AtLevel
<1>7. cross' \in [Vectors -> MaybeVector] /\ CrossOneDown' BY <1>1, Kept
<1> QED BY <1>1, <1>5, <1>6, <1>7, RemainStep

\* The missing cross link is set to a vector of the level below.
LEMMA RemainSetBuild ==
    ASSUME BuildTyped, RemainSet PROVE BuildTyped'
<1>1. /\ stage = "remain" /\ rem.v # NoVector
      /\ UNCHANGED <<ptLevel, stage, todo, nbrs, first, lock, th>>
      /\ cross' = [cross EXCEPT ![rem.v] = rem.at]
      /\ rem' = [v |-> NoVector, at |-> NoVector]
  BY DEF RemainSet
<1>2. /\ ptLevel < ML /\ rem.v \in AtLevel(ptLevel + 1) /\ rem.at \in AtLevel(ptLevel)
      /\ ptLevel \in Nat
  BY <1>1, SizeAssumption DEF BuildTyped, BuildInv, TypeOK, RemainOnItsWay, LevelsOf
<1>3. cross \in [Vectors -> MaybeVector] /\ CrossOneDown
  BY DEF BuildTyped, BuildInv, TypeOK
<1>4. rem.at # NoVector /\ rem.at \in Vectors BY <1>2, VectorsAssumption DEF AtLevel
<1>5. /\ cross' \in [Vectors -> MaybeVector] /\ CrossOneDown'
      /\ \A v \in Vectors : cross[v] # NoVector => cross'[v] # NoVector
      /\ \A v \in Vectors : cross'[v] # cross[v] => Level[v] = ptLevel + 1
  BY <1>1, <1>2, <1>3, <1>4 DEF CrossOneDown, AtLevel, MaybeVector
<1>6. rem' \in [v : MaybeVector, at : MaybeVector] BY <1>1 DEF MaybeVector
<1>7. RemainOnItsWay'
  <2>1. \A v \in AtLevel(ptLevel + 1) \ todo : cross[v] # NoVector \/ v = rem.v
    BY <1>1 DEF BuildTyped, BuildInv, RemainOnItsWay
  <2>2. \A v \in AtLevel(ptLevel + 1) \ todo : cross'[v] # NoVector
    BY <1>1, <1>3, <1>4, <2>1 DEF AtLevel
  <2> QED BY <1>1, <1>2, <2>2 DEF RemainOnItsWay, AtLevel
<1> QED BY <1>1, <1>5, <1>6, <1>7, RemainStep

\* When no cross link is missing, the next level down may begin.
LEMMA RemainDoneBuild ==
    ASSUME BuildTyped, RemainDone PROVE BuildTyped'
<1>1. /\ stage = "remain" /\ rem.v = NoVector /\ NextLevelDown
      /\ UNCHANGED <<nbrs, cross, first, lock, th, rem>>
      /\ \A v \in AtLevel(ptLevel + 1) : cross[v] # NoVector
  BY VectorsAssumption DEF RemainDone, BuildTyped, BuildInv, RemainOnItsWay, AtLevel
<1>2. \A t \in Threads : th[t].pc = "idle"
  BY <1>1, ThreadFacts
<1>3. first[ptLevel] # NoVector
  BY <1>1 DEF BuildTyped, BuildInv, TypeOK, FinishedLevelHasEntry
<1> QED BY <1>1, <1>2, <1>3, NextLevelDownBuild

--------------------------------------------------------------------------------
\* A step that changes nothing preserves the invariant.
LEMMA StutterBuild ==
    ASSUME BuildTyped, UNCHANGED vars PROVE BuildTyped'
<1> USE DEF vars, BuildTyped, BuildInv
<1>1. TypeOK' BY DEF TypeOK
<1>2. LevelHomogeneous' /\ CrossOneDown' /\ EntryAtLevel' BY Kept
<1>3. CrossComplete' /\ FinishedLevelHasEntry' BY DEF CrossComplete, FinishedLevelHasEntry
<1>4. \A t \in Threads : ThreadOnItsWay(t)' BY DEF ThreadOnItsWay
<1>5. RemainOnItsWay' /\ LowerUnlinked' BY DEF RemainOnItsWay, LowerUnlinked
<1>6. EntryUnderWay' BY DEF EntryUnderWay, BeforeEntry
<1> QED BY <1>1, <1>2, <1>3, <1>4, <1>5, <1>6

\* Every step preserves the invariant.
LEMMA NextBuild == BuildTyped /\ [Next]_vars => BuildTyped'
<1> SUFFICES ASSUME BuildTyped, [Next]_vars PROVE BuildTyped'
  OBVIOUS
<1>1. ASSUME NEW t \in Threads, Insert(t) PROVE BuildTyped'
  BY <1>1, TakeBuild, LockOwnBuild, LookBuild, HopBuild, ReadCrossBuild, SetCrossBuild,
     UpdateCrossBuild, GetFirstBuild, SetFirstBuild, ExpandBuild, ReadListBuild,
     FindTargetsBuild, AddOwnBuild, UnlockOwnBuild, LockOtherBuild, AddBackBuild, RelockBuild DEF Insert
<1>2. CASE Main
  BY <1>2, LevelInsertedBuild, RemainSkipBuild, RemainStartBuild, RemainHopBuild, RemainSetBuild,
     RemainDoneBuild DEF Main
<1>3. CASE Done BY <1>3, StutterBuild DEF Done
<1>4. CASE UNCHANGED vars BY <1>4, StutterBuild
<1> QED BY <1>1, <1>2, <1>3, <1>4 DEF Next

\* The invariant holds in every state of every build.
THEOREM BuildInvariant == Spec => []BuildTyped
BY InitBuild, NextBuild, PTL DEF Spec

\* Every variable of the build keeps its type.
THEOREM TypeCorrect == Spec => []TypeOK
<1>1. BuildTyped => TypeOK BY DEF BuildTyped
<1> QED BY <1>1, BuildInvariant, PTL

\* However the threads interleave, no list ever links two levels.
THEOREM LevelsSeparate == Spec => []LevelHomogeneous
<1>1. BuildTyped => LevelHomogeneous BY DEF BuildTyped, BuildInv
<1> QED BY <1>1, BuildInvariant, PTL

\* However the threads race for a cross link, it leads one level down.
THEOREM CrossLinksLeadDown == Spec => []CrossOneDown
<1>1. BuildTyped => CrossOneDown BY DEF BuildTyped, BuildInv
<1> QED BY <1>1, BuildInvariant, PTL

\* However the threads race for the first entry of a level, it is a vector of it.
THEOREM EntriesInPlace == Spec => []EntryAtLevel
<1>1. BuildTyped => EntryAtLevel BY DEF BuildTyped, BuildInv
<1> QED BY <1>1, BuildInvariant, PTL

\* No insertion ever uses a missing cross link as an index: when a level is under
\* way, the levels it descends through are completely linked.
THEOREM CrossLinksComplete == Spec => []CrossComplete
<1>1. BuildTyped => CrossComplete BY DEF BuildTyped, BuildInv
<1> QED BY <1>1, BuildInvariant, PTL

\* A finished level has its first entry, although each thread may leave setting it to
\* another.
THEOREM FinishedLevelsHaveEntries == Spec => []FinishedLevelHasEntry
<1>1. BuildTyped => FinishedLevelHasEntry BY DEF BuildTyped, BuildInv
<1> QED BY <1>1, BuildInvariant, PTL

--------------------------------------------------------------------------------
(***************************************************************************)
(* Locks.                                                                  *)
(***************************************************************************)
\* A thread that neither takes nor gives up a lock, and stays in or out of its critical
\* section.
LEMMA LocksKept ==
    ASSUME BuildTyped, LocksMatch, NEW t \in Threads, lock' = lock,
           \A u \in Threads \ {t} : th'[u] = th[u],
           \A v \in Vectors : Holds(t, v)' <=> Holds(t, v)
    PROVE  LocksMatch'
<1> SUFFICES ASSUME NEW u \in Threads, NEW v \in Vectors
             PROVE  lock'[v] = u <=> Holds(u, v)'
  BY DEF LocksMatch
<1>1. Holds(u, v)' <=> Holds(u, v)
  <2>1. CASE u = t BY <2>1
  <2>2. CASE u # t
    <3>1. th'[u] = th[u] BY <2>2
    <3> QED BY <3>1 DEF Holds
  <2> QED BY <2>1, <2>2
<1> QED BY <1>1 DEF LocksMatch

\* A thread that takes the free lock of vector w.
LEMMA LockTaken ==
    ASSUME BuildTyped, LocksMatch, NEW t \in Threads, NEW w \in Vectors,
           lock[w] = NoThread, lock' = [lock EXCEPT ![w] = t],
           \A u \in Threads \ {t} : th'[u] = th[u],
           \A v \in Vectors : ~Holds(t, v),
           \A v \in Vectors : Holds(t, v)' <=> v = w
    PROVE  LocksMatch'
<1> SUFFICES ASSUME NEW u \in Threads, NEW v \in Vectors
             PROVE  lock'[v] = u <=> Holds(u, v)'
  BY DEF LocksMatch
<1>1. lock'[v] = IF v = w THEN t ELSE lock[v] BY DEF BuildTyped, TypeOK
<1>2. u # NoThread BY ThreadsAssumption
<1>3. CASE u = t BY <1>1, <1>3 DEF LocksMatch
<1>4. CASE u # t
  <2>1. th'[u] = th[u] BY <1>4
  <2>2. Holds(u, v)' <=> Holds(u, v) BY <2>1 DEF Holds
  <2> QED BY <1>1, <1>2, <1>4, <2>2 DEF LocksMatch
<1> QED BY <1>3, <1>4

\* A thread that gives up the lock of vector w, the only one it holds.
LEMMA LockGivenUp ==
    ASSUME BuildTyped, LocksMatch, NEW t \in Threads, NEW w \in Vectors,
           lock' = [lock EXCEPT ![w] = NoThread],
           \A u \in Threads \ {t} : th'[u] = th[u],
           \A v \in Vectors : Holds(t, v) <=> v = w,
           \A v \in Vectors : ~Holds(t, v)'
    PROVE  LocksMatch'
<1> SUFFICES ASSUME NEW u \in Threads, NEW v \in Vectors
             PROVE  lock'[v] = u <=> Holds(u, v)'
  BY DEF LocksMatch
<1>1. lock'[v] = IF v = w THEN NoThread ELSE lock[v] BY DEF BuildTyped, TypeOK
<1>2. u # NoThread BY ThreadsAssumption
<1>3. CASE u = t BY <1>1, <1>2, <1>3 DEF LocksMatch
<1>4. CASE u # t
  <2>1. th'[u] = th[u] BY <1>4
  <2>2. Holds(u, v)' <=> Holds(u, v) BY <2>1 DEF Holds
  <2>3. lock[w] = t BY DEF LocksMatch
  <2> QED BY <1>1, <1>2, <1>4, <2>2, <2>3 DEF LocksMatch
<1> QED BY <1>3, <1>4

\* Every step keeps locks and critical sections together.
LEMMA NextLocks == BuildTyped /\ LocksMatch /\ [Next]_vars => LocksMatch'
<1> SUFFICES ASSUME BuildTyped, LocksMatch, [Next]_vars PROVE LocksMatch'
  OBVIOUS
<1>1. th \in [Threads -> ThreadType] BY DEF BuildTyped, TypeOK
<1>2. CASE UNCHANGED <<lock, th>>
  BY <1>2 DEF LocksMatch, Holds
<1>3. ASSUME NEW t \in Threads, Insert(t) PROVE LocksMatch'
  <2>1. \A u \in Threads \ {t} : th'[u] = th[u]
    BY <1>1, <1>3 DEF Insert, Take, LockOwn, Look, Hop, ReadCross, SetCross, UpdateCross, GetFirst,
                      SetFirst, Expand, ReadList, FindTargets, AddOwn, UnlockOwn, LockOther, AddBack, Relock
  <2>2. th[t] \in ThreadType BY <1>1
  <2>3. CASE Take(t)
    <3>1. th'[t].pc = "lock" /\ th[t].pc = "idle" /\ lock' = lock
      BY <1>1, <2>3, IdleType DEF Take, ThreadType
    <3> QED BY <2>1, <3>1, LocksKept DEF Holds
  <2>4. CASE LockOwn(t)
    <3>1. th[t].pc = "lock" /\ lock[th[t].pt] = NoThread /\ lock' = [lock EXCEPT ![th[t].pt] = t]
      BY <2>4 DEF LockOwn
    <3>2. th'[t].pc = "hop" /\ th'[t].pt = th[t].pt
      BY <1>1, <2>2, <2>4 DEF LockOwn, ThreadType
    <3>3. th[t].pt \in Vectors BY <3>1, ThreadFacts
    <3> QED BY <2>1, <3>1, <3>2, <3>3, LockTaken DEF Holds
  <2>5. CASE Look(t) \/ Hop(t) \/ ReadCross(t) \/ SetCross(t) \/ UpdateCross(t) \/ GetFirst(t)
               \/ SetFirst(t) \/ Expand(t) \/ ReadList(t) \/ FindTargets(t) \/ AddOwn(t)
    <3> DEFINE Own == {"hop", "cross", "update", "first", "setfirst", "link", "read", "fill"}
    <3>1. th[t].pc \in Own /\ lock' = lock
      BY <2>5 DEF Look, Hop, ReadCross, SetCross, UpdateCross, GetFirst, SetFirst, Expand,
                  ReadList, FindTargets, AddOwn
    <3>2. th'[t].pc \in Own /\ th'[t].pt = th[t].pt
      <4>1. CASE Hop(t) BY <4>1, HopMoves
      <4>2. CASE ReadCross(t) BY <1>1, <2>2, <4>2 DEF ReadCross, ThreadType
      <4>3. CASE SetCross(t) BY <1>1, <2>2, <4>3 DEF SetCross, ThreadType
      <4>4. CASE UpdateCross(t) BY <1>1, <2>2, <4>4 DEF UpdateCross, ThreadType
      <4>5. CASE GetFirst(t) BY <1>1, <2>2, <4>5 DEF GetFirst, ThreadType
      <4>6. CASE SetFirst(t) BY <1>1, <2>2, <4>6 DEF SetFirst, ThreadType
      <4>7. CASE FindTargets(t) BY <4>7, TargetMoves
      <4>8. CASE AddOwn(t) BY <1>1, <2>2, <4>8 DEF AddOwn, ThreadType
      <4>9. CASE Look(t) BY <3>1, <4>9, SearchMoves
      <4>10. CASE Expand(t) BY <3>1, <4>10, SearchMoves
      <4>11. CASE ReadList(t) BY <3>1, <4>11, SearchMoves
      <4> QED BY <2>5, <4>1, <4>2, <4>3, <4>4, <4>5, <4>6, <4>7, <4>8, <4>9, <4>10, <4>11
    <3>3. \A v \in Vectors : Holds(t, v)' <=> Holds(t, v) BY <3>1, <3>2 DEF Holds
    <3> QED BY <2>1, <3>1, <3>3, LocksKept
  <2>6. CASE UnlockOwn(t)
    <3>1. th[t].pc = "fill" /\ lock' = [lock EXCEPT ![th[t].pt] = NoThread]
      BY <2>6 DEF UnlockOwn
    <3>2. th'[t].pc \in {"relock", "lockother"}
      BY <1>1, <2>2, <2>6 DEF UnlockOwn, ThreadType
    <3>3. th[t].pt \in Vectors BY <3>1, ThreadFacts
    <3> QED BY <2>1, <3>1, <3>2, <3>3, LockGivenUp DEF Holds
  <2>7. CASE LockOther(t)
    <3> DEFINE other == Head(th[t].pending)
    <3>1. th[t].pc = "lockother" /\ lock[other] = NoThread /\ lock' = [lock EXCEPT ![other] = t]
      BY <2>7 DEF LockOther
    <3>2. th'[t].pc = "add" /\ th'[t].pending = th[t].pending
      BY <1>1, <2>2, <2>7 DEF LockOther, ThreadType
    <3>3. other \in Vectors
      BY <2>2, <3>1, ThreadFacts DEF ThreadType, ThreadOnItsWay
    <3>4. \A v \in Vectors : (Holds(t, v)' <=> v = other) /\ ~Holds(t, v)
      BY <3>1, <3>2 DEF Holds
    <3> HIDE DEF other
    <3> QED BY <2>1, <3>1, <3>3, <3>4, LockTaken
  <2>8. CASE AddBack(t)
    <3> DEFINE other == Head(th[t].pending)
    <3>1. th[t].pc = "add" /\ lock' = [lock EXCEPT ![other] = NoThread]
      BY <2>8 DEF AddBack
    <3>2. th'[t].pc \in {"relock", "lockother"}
      BY <1>1, <2>2, <2>8 DEF AddBack, ThreadType
    <3>3. other \in Vectors
      BY <2>2, <3>1, ThreadFacts DEF ThreadType, ThreadOnItsWay
    <3>4. \A v \in Vectors : (Holds(t, v) <=> v = other) /\ ~Holds(t, v)'
      BY <3>1, <3>2 DEF Holds
    <3> HIDE DEF other
    <3> QED BY <2>1, <3>1, <3>3, <3>4, LockGivenUp
  <2>9. CASE Relock(t)
    <3>1. th[t].pc = "relock" /\ th'[t].pc = "idle" /\ lock' = lock
      BY <1>1, <2>9, IdleType DEF Relock
    <3> QED BY <2>1, <3>1, LocksKept DEF Holds
  <2> QED BY <1>3, <2>3, <2>4, <2>5, <2>6, <2>7, <2>8, <2>9 DEF Insert
<1>4. CASE Main
  <2>1. UNCHANGED <<lock, th>>
    BY <1>4 DEF Main, LevelInserted, RemainSkip, RemainStart, RemainHop, RemainSet, RemainDone
  <2> QED BY <1>2, <2>1
<1>5. CASE Done \/ UNCHANGED vars BY <1>2, <1>5 DEF Done, vars
<1> QED BY <1>3, <1>4, <1>5 DEF Next

\* Locks and critical sections agree in every state.
THEOREM LocksInvariant == Spec => []LocksMatch
<1>1. Init => LocksMatch
  BY ThreadsAssumption DEF Init, LocksMatch, Holds, Idle
<1> QED BY <1>1, NextLocks, BuildInvariant, PTL DEF Spec

\* No thread holds two locks, nor one while it waits for another, so the threads can
\* never wait on each other in a circle.
THEOREM NoHoldAndWait == Spec => []OneLock
<1>1. BuildTyped /\ LocksMatch => OneLock
  <2> SUFFICES ASSUME BuildTyped, LocksMatch, NEW t \in Threads
               PROVE  /\ Cardinality(Held(t)) <= 1
                      /\ th[t].pc \in Waiting => Held(t) = {}
    BY DEF OneLock
  <2>1. Held(t) = {v \in Vectors : Holds(t, v)} BY DEF Held, LocksMatch
  <2>2. th[t].pc \in Waiting => Held(t) = {} BY <2>1 DEF Waiting, Holds
  <2>3. \E w : Held(t) \subseteq {w}
    BY <2>1 DEF Holds
  <2>4. PICK w : Held(t) \subseteq {w} BY <2>3
  <2>5. Cardinality(Held(t)) <= 1
    <3>1. IsFiniteSet({w}) /\ Cardinality({w}) = 1 BY FS_Singleton
    <3>2. Held(t) \in SUBSET {w} BY <2>4
    <3>3. Cardinality(Held(t)) <= Cardinality({w}) BY <3>1, <3>2, FS_Subset
    <3> QED BY <3>1, <3>3
  <2> QED BY <2>2, <2>5
<1> QED BY <1>1, LocksInvariant, BuildInvariant, PTL

\* Every change of a list is made by the thread that holds the lock of its vector.
THEOREM WritersHoldTheLock == Spec => ListsChangeUnderLock
<1>1. BuildTyped /\ LocksMatch /\ [Next]_vars =>
        \A v \in Vectors : nbrs'[v] # nbrs[v] =>
            \E t \in Threads : lock[v] = t /\ th'[t] # th[t]
  <2> SUFFICES ASSUME BuildTyped, LocksMatch, [Next]_vars,
                      NEW v \in Vectors, nbrs'[v] # nbrs[v]
               PROVE  \E t \in Threads : lock[v] = t /\ th'[t] # th[t]
    OBVIOUS
  <2>1. PICK t \in Threads : AddOwn(t) \/ AddBack(t)
    BY DEF Next, vars, Done, Insert, Take, LockOwn, Look, Hop, ReadCross, SetCross, UpdateCross,
           GetFirst, SetFirst, Expand, ReadList, FindTargets, UnlockOwn, LockOther, Relock, Main,
           LevelInserted, RemainSkip, RemainStart, RemainHop, RemainSet, RemainDone
  <2>2. th \in [Threads -> ThreadType] /\ th[t] \in ThreadType
          /\ nbrs \in [Vectors -> Seq(Vectors)]
    BY DEF BuildTyped, TypeOK
  <2>3. CASE AddOwn(t)
    <3>1. v = th[t].pt /\ th[t].pc = "fill" BY <2>2, <2>3 DEF AddOwn
    <3>2. lock[v] = t BY <3>1 DEF LocksMatch, Holds
    <3>3. th'[t].filled = th[t].filled + 1 /\ th[t].filled \in Nat
      BY <2>2, <2>3 DEF AddOwn, ThreadType
    <3>4. th'[t] # th[t] BY <3>3
    <3> QED BY <3>2, <3>4
  <2>4. CASE AddBack(t)
    <3>1. v = Head(th[t].pending) /\ th[t].pc = "add" BY <2>2, <2>4 DEF AddBack
    <3>2. lock[v] = t BY <3>1 DEF LocksMatch, Holds
    <3>3. th'[t].pc \in {"relock", "lockother"}
      BY <2>2, <2>4 DEF AddBack, ThreadType
    <3> QED BY <3>1, <3>2, <3>3
  <2> QED BY <2>1, <2>3, <2>4
<1> QED BY <1>1, LocksInvariant, BuildInvariant, PTL DEF Spec, ListsChangeUnderLock

--------------------------------------------------------------------------------
(***************************************************************************)
(* Lists.                                                                  *)
(***************************************************************************)
\* The only steps that change a list are those of add_link, on the level under way.
LEMMA ListChange ==
    ASSUME BuildTyped, [Next]_vars, NEW v \in Vectors, nbrs'[v] # nbrs[v]
    PROVE  /\ Level[v] = ptLevel
           /\ \E dest \in Vectors : nbrs'[v] \in AddLink(v, dest)
<1>1. PICK t \in Threads : AddOwn(t) \/ AddBack(t)
  BY DEF Next, vars, Done, Insert, Take, LockOwn, Look, Hop, ReadCross, SetCross, UpdateCross,
         GetFirst, SetFirst, Expand, ReadList, FindTargets, UnlockOwn, LockOther, Relock, Main,
         LevelInserted, RemainSkip, RemainStart, RemainHop, RemainSet, RemainDone
<1>2. /\ th[t] \in ThreadType /\ nbrs \in [Vectors -> Seq(Vectors)]
      /\ th[t].pending \in Seq(Vectors) /\ th[t].filled \in Nat
  BY DEF BuildTyped, TypeOK, ThreadType
<1>3. th[t].pc \in {"fill", "add"} BY <1>1 DEF AddOwn, AddBack
<1>4. th[t].pt \in AtLevel(ptLevel) /\ Range(th[t].pending) \subseteq AtLevel(ptLevel)
        /\ (th[t].pc = "add" => th[t].pending # <<>>)
  BY <1>3, ThreadFacts DEF ThreadOnItsWay
<1>5. CASE AddOwn(t)
  <2> DEFINE dest == th[t].pending[th[t].filled + 1]
  <2>1. th[t].filled + 1 \in DOMAIN th[t].pending BY <1>2, <1>5, LenProperties DEF AddOwn
  <2>2. dest \in Vectors BY <1>4, <2>1 DEF Range, AtLevel
  <2>3. PICK list \in AddLink(th[t].pt, dest) : nbrs' = [nbrs EXCEPT ![th[t].pt] = list]
    BY <1>5 DEF AddOwn
  <2> HIDE DEF dest
  <2>4. v = th[t].pt /\ nbrs'[v] = list BY <1>2, <2>3
  <2> QED BY <1>4, <2>2, <2>3, <2>4 DEF AtLevel
<1>6. CASE AddBack(t)
  <2> DEFINE other == Head(th[t].pending)
  <2>1. other \in AtLevel(ptLevel)
    BY <1>2, <1>4, <1>6 DEF AddBack, Range
  <2>2. PICK list \in AddLink(other, th[t].pt) : nbrs' = [nbrs EXCEPT ![other] = list]
    BY <1>6 DEF AddBack
  <2> HIDE DEF other
  <2>3. v = other /\ nbrs'[v] = list BY <1>2, <2>2
  <2> QED BY <1>4, <2>1, <2>2, <2>3 DEF AtLevel
<1> QED BY <1>1, <1>5, <1>6

\* No list ever needs more slots than were reserved for it.
THEOREM ListsFitAlways == Spec => []ListsFit
<1>1. Init => ListsFit
  <2> SUFFICES ASSUME Init, NEW v \in Vectors PROVE Len(nbrs[v]) <= Capacity(v)
    BY DEF ListsFit
  <2>1. nbrs[v] = <<>> BY DEF Init
  <2> QED BY <2>1, CapacityType
<1>2. BuildTyped /\ ListsFit /\ [Next]_vars => ListsFit'
  <2> SUFFICES ASSUME BuildTyped, ListsFit, [Next]_vars, NEW v \in Vectors
               PROVE  Len(nbrs'[v]) <= Capacity(v)
    BY DEF ListsFit
  <2>1. CASE nbrs'[v] = nbrs[v] BY <2>1 DEF ListsFit
  <2>2. CASE nbrs'[v] # nbrs[v]
    <3>1. PICK dest \in Vectors : nbrs'[v] \in AddLink(v, dest) BY <2>2, ListChange
    <3>2. nbrs[v] \in Seq(Vectors) BY DEF BuildTyped, TypeOK
    <3> QED BY <3>1, <3>2, AddLinkResult
  <2> QED BY <2>1, <2>2
<1> QED BY <1>1, <1>2, BuildInvariant, PTL DEF Spec

\* What is built above the level under way is never touched again.
THEOREM UpperLevelsFrozen == Spec => FinishedLevelsFrozen
<1> DEFINE Frozen ==
        /\ \A v \in Vectors : Level[v] > ptLevel => nbrs'[v] = nbrs[v]
        /\ \A l \in LevelsOf : l > ptLevel => first'[l] = first[l]
<1>1. BuildTyped /\ [Next]_vars => Frozen
  <2> SUFFICES ASSUME BuildTyped, [Next]_vars PROVE Frozen
    OBVIOUS
  <2>1. ptLevel \in Nat /\ ptLevel \in LevelsOf /\ ML \in LevelsOf
          /\ first \in [LevelsOf -> MaybeVector]
    BY SizeAssumption DEF BuildTyped, TypeOK, LevelsOf
  <2>2. ASSUME NEW v \in Vectors, Level[v] > ptLevel PROVE nbrs'[v] = nbrs[v]
    BY <2>1, <2>2, ListChange
  <2>3. ASSUME NEW l \in LevelsOf, l > ptLevel PROVE first'[l] = first[l]
    <3>1. CASE \E t \in Threads : Take(t)
      <4>1. PICK t \in Threads : Take(t) BY <3>1
      <4>2. first[ML] # NoVector \/ ptLevel = ML
        BY <2>1, SizeAssumption DEF BuildTyped, BuildInv, FinishedLevelHasEntry, LevelsOf
      <4>3. PICK e \in IF first[ML] = NoVector THEN AtLevel(ML) ELSE {first[ML]} :
              first' = [first EXCEPT ![ML] = e]
        BY <4>1 DEF Take
      <4>4. ptLevel = ML => l # ML BY <2>1, <2>3
      <4> QED BY <2>1, <4>2, <4>3, <4>4
    <3>2. CASE \E t \in Threads : SetFirst(t)
      <4>1. PICK t \in Threads : SetFirst(t) BY <3>2
      <4>2. Level[th[t].pt] = ptLevel BY <4>1, ThreadFacts DEF SetFirst
      <4>3. l # ptLevel BY <2>1, <2>3
      <4> QED BY <2>1, <4>1, <4>2, <4>3 DEF SetFirst
    <3>3. CASE RemainStart
      <4>1. l # ptLevel BY <2>1, <2>3
      <4> QED BY <2>1, <3>3, <4>1 DEF RemainStart
    <3>4. CASE first' = first BY <3>4
    <3> QED
      BY <3>1, <3>2, <3>3, <3>4 DEF Next, vars, Done, Insert, LockOwn, Look, Hop, ReadCross, SetCross,
         UpdateCross, GetFirst, Expand, ReadList, FindTargets, AddOwn, UnlockOwn, LockOther,
         AddBack, Relock, Main, LevelInserted, RemainSkip, RemainHop, RemainSet, RemainDone
  <2> QED BY <2>2, <2>3
<1> QED BY <1>1, BuildInvariant, PTL DEF Spec, FinishedLevelsFrozen
--------------------------------------------------------------------------------
(***************************************************************************)
(* Who knows a vector before its own list is filled.                       *)
(***************************************************************************)
\* The threads that are before the search for the neighbors to link to.
Descending == {"hop", "cross", "update", "first", "setfirst", "link", "read"}

\* No thread has taken v yet.
Untaken(v) == Level[v] < ptLevel \/ (stage = "insert" /\ v \in todo)

\* No thread has the lock of v yet.
Unknown(v) ==
    Untaken(v) \/ \E t \in Threads : th[t].pc = "lock" /\ th[t].pt = v

\* Nothing leads to v, and nothing leads away from it.
Untouched(v) ==
    /\ nbrs[v] = <<>>
    /\ \A w \in Vectors : v \notin Range(nbrs[w]) /\ cross[w] # v
    /\ \A l \in LevelsOf : first[l] # v
    /\ \A t \in Threads : /\ th[t].nearest # v /\ th[t].entry # v
                          /\ v \notin Range(th[t].pending)
                          /\ v \notin th[t].seen /\ v \notin th[t].met
    /\ rem.at # v

\* Each vector is inserted by one thread.
OneInserts ==
    \A t \in Threads :
        th[t].pc # "idle" =>
            /\ th[t].pt \notin todo
            /\ \A u \in Threads \ {t} : th[u].pc # "idle" => th[u].pt # th[t].pt

\* Below the highest level nothing leads to a vector before its lock is taken, and its own
\* list is empty until its neighbors are found.
FreshInv ==
    /\ OneInserts
    /\ \A v \in Vectors : Unknown(v) /\ Level[v] < ML => Untouched(v)
    /\ \A t \in Threads :
          th[t].pc \in Descending /\ Level[th[t].pt] < ML => nbrs[th[t].pt] = <<>>

--------------------------------------------------------------------------------
\* What a step does to the threads.
LEMMA ThreadsMove ==
    ASSUME BuildTyped, NEW t \in Threads, Insert(t)
    PROVE  /\ \A u \in Threads \ {t} : th'[u] = th[u]
           /\ UNCHANGED <<ptLevel, stage, rem>>
           /\ \/ Take(t)
              \/ /\ th[t].pc # "idle" /\ todo' = todo
                 /\ th'[t].pc # "lock"
                 /\ th'[t].pc = "idle" \/ th'[t].pt = th[t].pt
                 /\ th'[t].pc \in Descending => th[t].pc \in Descending \cup {"lock"}
<1>1. th \in [Threads -> ThreadType] /\ th[t] \in ThreadType BY DEF BuildTyped, TypeOK
<1>2. \A u \in Threads \ {t} : th'[u] = th[u]
  BY <1>1 DEF Insert, Take, LockOwn, Look, Hop, ReadCross, SetCross, UpdateCross, GetFirst,
              SetFirst, Expand, ReadList, FindTargets, AddOwn, UnlockOwn, LockOther, AddBack, Relock
<1>3. UNCHANGED <<ptLevel, stage, rem>>
  BY DEF Insert, Take, LockOwn, Look, Hop, ReadCross, SetCross, UpdateCross, GetFirst,
         SetFirst, Expand, ReadList, FindTargets, AddOwn, UnlockOwn, LockOther, AddBack, Relock
<1> DEFINE Moved == /\ th[t].pc # "idle" /\ todo' = todo
                    /\ th'[t].pc # "lock"
                    /\ th'[t].pc = "idle" \/ th'[t].pt = th[t].pt
                    /\ th'[t].pc \in Descending => th[t].pc \in Descending \cup {"lock"}
<1>4. ASSUME LockOwn(t) PROVE Moved
  BY <1>1, <1>4 DEF LockOwn, ThreadType, Descending
<1>5. ASSUME Hop(t) PROVE Moved
  <2>1. /\ th[t].pc = "hop" /\ todo' = todo /\ th'[t].pt = th[t].pt
        /\ th'[t].pc \in {"hop", "link", "cross"}
    BY <1>5, HopMoves
  <2> QED BY <2>1 DEF Descending
<1>6. ASSUME ReadCross(t) PROVE Moved
  BY <1>1, <1>6 DEF ReadCross, ThreadType, Descending
<1>7. ASSUME SetCross(t) PROVE Moved
  BY <1>1, <1>7 DEF SetCross, ThreadType, Descending
<1>8. ASSUME UpdateCross(t) PROVE Moved
  BY <1>1, <1>8 DEF UpdateCross, ThreadType, Descending
<1>9. ASSUME GetFirst(t) PROVE Moved
  BY <1>1, <1>9 DEF GetFirst, ThreadType, Descending
<1>10. ASSUME SetFirst(t) PROVE Moved
  BY <1>1, <1>10 DEF SetFirst, ThreadType, Descending
<1>11. ASSUME FindTargets(t) PROVE Moved
  <2>1. th[t].pc = "link" /\ todo' = todo /\ th'[t].pt = th[t].pt /\ th'[t].pc = "fill"
    BY <1>11, TargetMoves
  <2> QED BY <2>1 DEF Descending
<1>12. ASSUME AddOwn(t) PROVE Moved
  BY <1>1, <1>12 DEF AddOwn, ThreadType, Descending
<1>13. ASSUME UnlockOwn(t) PROVE Moved
  BY <1>1, <1>13 DEF UnlockOwn, ThreadType, Descending
<1>14. ASSUME LockOther(t) PROVE Moved
  BY <1>1, <1>14 DEF LockOther, ThreadType, Descending
<1>15. ASSUME AddBack(t) PROVE Moved
  BY <1>1, <1>15 DEF AddBack, ThreadType, Descending
<1>16. ASSUME Relock(t) PROVE Moved
  BY <1>1, <1>16, IdleType DEF Relock, Descending
<1>18. ASSUME Look(t) \/ Expand(t) \/ ReadList(t) PROVE Moved
  <2>1. /\ th[t].pc \in {"hop", "link", "read"} /\ th'[t].pc \in {"hop", "link", "read"}
        /\ todo' = todo /\ th'[t].pt = th[t].pt
    BY <1>18, SearchMoves
  <2> QED BY <2>1 DEF Descending
<1>17. Take(t) \/ Moved
  BY <1>4, <1>5, <1>6, <1>7, <1>8, <1>9, <1>10, <1>11, <1>12, <1>13, <1>14, <1>15, <1>16, <1>18
     DEF Insert
<1> QED BY <1>2, <1>3, <1>17

\* A thread takes a vector nobody has taken.
LEMMA TakeFacts ==
    ASSUME BuildTyped, NEW t \in Threads, Take(t)
    PROVE  /\ th[t].pc = "idle" /\ stage = "insert" /\ todo' \subseteq todo
           /\ th'[t].pc = "lock" /\ th'[t].pt \in todo /\ th'[t].pt \notin todo'
           /\ th'[t].nearest \in AtLevel(ML) /\ th'[t].entry = NoVector
           /\ th'[t].pending = <<>> /\ th'[t].seen = {} /\ th'[t].met = {}
           /\ \E e \in AtLevel(ML) : first' = [first EXCEPT ![ML] = e]
           /\ UNCHANGED <<nbrs, cross>>
<1>1. th \in [Threads -> ThreadType] /\ first \in [LevelsOf -> MaybeVector] /\ EntryAtLevel
      /\ ML \in LevelsOf
  BY SizeAssumption DEF BuildTyped, TypeOK, BuildInv, LevelsOf
<1>2. PICK pt \in todo :
        /\ todo' = todo \ {pt}
        /\ \E e \in IF first[ML] = NoVector THEN AtLevel(ML) ELSE {first[ML]} :
            /\ first' = [first EXCEPT ![ML] = e]
            /\ th' = [th EXCEPT ![t] = [Idle EXCEPT !.pc = "lock", !.pt = pt, !.nearest = e]]
  BY DEF Take
<1>3. PICK e \in IF first[ML] = NoVector THEN AtLevel(ML) ELSE {first[ML]} :
        /\ first' = [first EXCEPT ![ML] = e]
        /\ th' = [th EXCEPT ![t] = [Idle EXCEPT !.pc = "lock", !.pt = pt, !.nearest = e]]
  BY <1>2
<1>4. e \in AtLevel(ML) BY <1>1 DEF EntryAtLevel, AtLevel, MaybeVector
<1>5. th'[t] = [Idle EXCEPT !.pc = "lock", !.pt = pt, !.nearest = e] BY <1>1, <1>3
<1>6. /\ th'[t].pc = "lock" /\ th'[t].pt = pt /\ th'[t].nearest = e
      /\ th'[t].entry = NoVector /\ th'[t].pending = <<>>
      /\ th'[t].seen = {} /\ th'[t].met = {}
  BY <1>5 DEF Idle
<1> QED BY <1>2, <1>3, <1>4, <1>6 DEF Take

\* The main thread works while the others wait.
LEMMA MainMoves ==
    ASSUME BuildTyped, Main
    PROVE  /\ UNCHANGED <<nbrs, lock, th>>
           /\ \A t \in Threads : th[t].pc = "idle"
           /\ \A v \in Vectors : Untaken(v)' => Untaken(v)
<1>1. UNCHANGED <<nbrs, lock, th>>
  BY DEF Main, LevelInserted, RemainSkip, RemainStart, RemainHop, RemainSet, RemainDone
<1>2. stage = "remain" => \A t \in Threads : th[t].pc = "idle"
  BY DEF BuildTyped, BuildInv, ThreadOnItsWay
<1>3. \A t \in Threads : th[t].pc = "idle"
  BY <1>2 DEF Main, LevelInserted, RemainSkip, RemainStart, RemainHop, RemainSet, RemainDone
<1>4. ptLevel \in Nat /\ \A v \in Vectors : Level[v] \in Nat
  BY SizeAssumption, LevelAssumption DEF BuildTyped, TypeOK, LevelsOf
<1>5. \/ ptLevel' = ptLevel /\ stage' # "insert"
      \/ ptLevel' = ptLevel - 1 /\ todo' = AtLevel(ptLevel - 1)
  BY DEF Main, LevelInserted, RemainSkip, RemainStart, RemainHop, RemainSet, RemainDone,
         NextLevelDown
<1>6. \A v \in Vectors : Untaken(v)' => Untaken(v) BY <1>4, <1>5 DEF Untaken, AtLevel
<1> QED BY <1>1, <1>3, <1>6

--------------------------------------------------------------------------------
\* A vector is inserted by one thread.
LEMMA OneInsertsNext == ASSUME BuildTyped, OneInserts, [Next]_vars PROVE OneInserts'
<1>1. ASSUME NEW t \in Threads, Insert(t) PROVE OneInserts'
  <2>1. /\ \A u \in Threads \ {t} : th'[u] = th[u]
        /\ \/ Take(t)
           \/ /\ th[t].pc # "idle" /\ todo' = todo
              /\ th'[t].pc = "idle" \/ th'[t].pt = th[t].pt
    BY <1>1, ThreadsMove
  <2>2. CASE Take(t)
    <3>1. th[t].pc = "idle" /\ todo' \subseteq todo /\ th'[t].pt \in todo /\ th'[t].pt \notin todo'
      BY <2>2, TakeFacts
    <3>2. \A u \in Threads \ {t} : th[u].pc # "idle" => th[u].pt \notin todo
      BY DEF OneInserts
    <3> QED BY <2>1, <3>1, <3>2 DEF OneInserts
  <2>3. CASE ~Take(t)
    BY <2>1, <2>3 DEF OneInserts
  <2> QED BY <2>2, <2>3
<1>2. CASE Main
  BY <1>2, MainMoves DEF OneInserts
<1>3. CASE UNCHANGED vars BY <1>3 DEF vars, OneInserts
<1> QED BY <1>1, <1>2, <1>3 DEF Next, Done

\* Who was taken and has its lock is known.
LEMMA InsertedIsKnown ==
    ASSUME BuildTyped, OneInserts, NEW t \in Threads, th[t].pc \notin {"idle", "lock"}
    PROVE  ~Unknown(th[t].pt)
<1>1. Level[th[t].pt] = ptLevel /\ ptLevel \in Nat
  BY ThreadFacts, SizeAssumption DEF LevelsOf
<1>2. th[t].pt \notin todo BY DEF OneInserts
<1>3. ASSUME NEW u \in Threads, th[u].pc = "lock" PROVE th[u].pt # th[t].pt
  <2>1. u # t BY <1>3
  <2> QED BY <1>3, <2>1 DEF OneInserts
<1>4. ~Untaken(th[t].pt) BY <1>1, <1>2 DEF Untaken
<1> QED BY <1>3, <1>4 DEF Unknown

\* A known vector is never forgotten.
LEMMA UnknownBefore ==
    ASSUME BuildTyped, [Next]_vars, NEW v \in Vectors, Unknown(v)' PROVE Unknown(v)
<1>1. ASSUME NEW t \in Threads, Insert(t) PROVE Unknown(v)
  <2>1. /\ \A u \in Threads \ {t} : th'[u] = th[u]
        /\ ptLevel' = ptLevel /\ stage' = stage
        /\ \/ Take(t)
           \/ todo' = todo /\ th'[t].pc # "lock"
    BY <1>1, ThreadsMove
  <2>2. CASE Take(t)
    <3>1. stage = "insert" /\ todo' \subseteq todo /\ th'[t].pt \in todo
      BY <2>2, TakeFacts
    <3>2. Untaken(v)' => Untaken(v) BY <2>1, <3>1 DEF Untaken
    <3>3. th'[t].pt = v => Untaken(v) BY <3>1 DEF Untaken
    <3> QED BY <2>1, <3>2, <3>3 DEF Unknown
  <2>3. CASE ~Take(t)
    <3>1. Untaken(v)' => Untaken(v) BY <2>1, <2>3 DEF Untaken
    <3> QED BY <2>1, <2>3, <3>1 DEF Unknown
  <2> QED BY <2>2, <2>3
<1>2. CASE Main
  <2>1. th' = th /\ (Untaken(v)' => Untaken(v)) BY <1>2, MainMoves
  <2> QED BY <2>1 DEF Unknown
<1>3. CASE UNCHANGED vars BY <1>3 DEF vars, Unknown, Untaken
<1> QED BY <1>1, <1>2, <1>3 DEF Next, Done

--------------------------------------------------------------------------------
\* No list that is written or read holds v.
LEMMA NotHeld ==
    ASSUME BuildTyped, NEW v \in Vectors, NEW w \in Vectors, Untouched(v),
           \A u \in Threads : th[u].pc \notin {"idle", "lock"} => th[u].pt # v
    PROVE  v \notin Holding(w)
<1>1. v \notin Range(nbrs[w]) BY DEF Untouched
<1>2. ASSUME NEW u \in Threads, th[u].pc = "fill", th[u].filled < Len(th[u].pending)
      PROVE  th[u].pending[th[u].filled + 1] # v
  <2>1. th[u].pending \in Seq(Vectors) /\ th[u].filled \in Nat
    BY DEF BuildTyped, TypeOK, ThreadType
  <2>2. th[u].filled + 1 \in DOMAIN th[u].pending BY <1>2, <2>1, LenProperties
  <2> QED BY <2>2 DEF Untouched, Range
<1>3. v \notin BeingAdded(w) BY <1>2 DEF BeingAdded
<1> QED BY <1>1, <1>3 DEF Holding

\* What has to be shown of a step of one thread.
LEMMA ThreadLeavesUntouched ==
    ASSUME NEW v \in Vectors, Untouched(v), NEW t \in Threads,
           \A u \in Threads \ {t} : th'[u] = th[u], rem' = rem,
           th'[t].nearest # v, th'[t].entry # v, v \notin Range(th'[t].pending),
           v \notin th'[t].seen, v \notin th'[t].met,
           nbrs' = nbrs, \A w \in Vectors : cross'[w] # v, \A l \in LevelsOf : first'[l] # v
    PROVE  Untouched(v)'
<1>1. \A u \in Threads : /\ th'[u].nearest # v /\ th'[u].entry # v
                         /\ v \notin Range(th'[u].pending)
                         /\ v \notin th'[u].seen /\ v \notin th'[u].met
  BY DEF Untouched
<1> QED BY <1>1 DEF Untouched

\* A step of a thread whose list is not the one that changes: the thread and v.
LEMMA InsertLeavesUntouched ==
    ASSUME BuildTyped, NEW v \in Vectors, Level[v] < ML, Untouched(v),
           \A u \in Threads : th[u].pc \notin {"idle", "lock"} => th[u].pt # v,
           NEW t \in Threads, Insert(t)
    PROVE  Untouched(v)'
<1>1. /\ th \in [Threads -> ThreadType] /\ th[t] \in ThreadType
      /\ nbrs \in [Vectors -> Seq(Vectors)] /\ cross \in [Vectors -> MaybeVector]
      /\ first \in [LevelsOf -> MaybeVector]
  BY DEF BuildTyped, TypeOK
<1>2. (\A u \in Threads \ {t} : th'[u] = th[u]) /\ rem' = rem
  BY ThreadsMove
<1>3. /\ nbrs[v] = <<>> /\ \A w \in Vectors : v \notin Range(nbrs[w]) /\ cross[w] # v
      /\ \A l \in LevelsOf : first[l] # v
      /\ th[t].nearest # v /\ th[t].entry # v /\ v \notin Range(th[t].pending)
      /\ v \notin th[t].seen /\ v \notin th[t].met
  BY DEF Untouched
<1>4. th[t].pc # "idle" => th[t].pt \in Vectors /\ Level[th[t].pt] \in LevelsOf /\ ThreadOnItsWay(t)
  BY ThreadFacts
<1>5. CASE Take(t)
  <2>1. /\ th'[t].nearest \in AtLevel(ML) /\ th'[t].entry = NoVector /\ th'[t].pending = <<>>
        /\ th'[t].seen = {} /\ th'[t].met = {}
        /\ UNCHANGED <<nbrs, cross>>
    BY <1>5, TakeFacts
  <2>2. PICK e \in AtLevel(ML) : first' = [first EXCEPT ![ML] = e] BY <1>5, TakeFacts
  <2>3. v \notin AtLevel(ML) /\ v # NoVector
    BY LevelAssumption, SizeAssumption, VectorsAssumption DEF AtLevel, LevelsOf
  <2>4. \A l \in LevelsOf : first'[l] # v BY <1>1, <1>3, <2>2, <2>3
  <2>5. v \notin Range(th'[t].pending) BY <2>1 DEF Range
  <2> QED BY <1>2, <1>3, <2>1, <2>3, <2>4, <2>5, ThreadLeavesUntouched
<1>6. CASE LockOwn(t) \/ UnlockOwn(t) \/ LockOther(t)
  <2>1. /\ UNCHANGED <<nbrs, cross, first>> /\ th'[t].nearest = th[t].nearest
        /\ th'[t].entry = th[t].entry /\ th'[t].pending = th[t].pending
        /\ th'[t].seen = th[t].seen /\ th'[t].met = th[t].met
    BY <1>1, <1>6 DEF LockOwn, UnlockOwn, LockOther, ThreadType
  <2> QED BY <1>2, <1>3, <2>1, ThreadLeavesUntouched
<1>7. CASE Hop(t)
  <2>1. /\ UNCHANGED <<nbrs, cross, first>> /\ th[t].pc = "hop"
        /\ th'[t].entry = th[t].entry /\ th'[t].pending = th[t].pending /\ th'[t].seen = {}
    BY <1>7, HopMoves
  <2>2. th[t].nearest \in Vectors BY <1>4, <2>1 DEF ThreadOnItsWay, AtLevel
  <2>3. \A view \in Views(t, th[t].nearest) : v \notin view
    BY <1>3, <2>2, NotHeld DEF Views, Holding
  <2>4. th'[t].nearest # v /\ v \notin th'[t].met
    BY <1>3, <1>7, <2>3, HopMoves DEF Closer
  <2> QED BY <1>2, <1>3, <2>1, <2>4, ThreadLeavesUntouched
<1>18. CASE Look(t) \/ Expand(t) \/ ReadList(t)
  <2>1. /\ UNCHANGED <<nbrs, cross, first>>
        /\ th'[t].entry = th[t].entry /\ th'[t].pending = th[t].pending
    BY <1>18, SearchMoves
  <2>2. th[t].pc \in {"hop", "read"} => v \notin Holding(th[t].nearest)
    BY <1>4, NotHeld DEF ThreadOnItsWay, AtLevel
  <2>3. th[t].pc = "read" => \A view \in Views(t, th[t].nearest) : v \notin view
    BY <1>3, <2>2 DEF Views, Holding
  <2>4. th'[t].nearest # v /\ v \notin th'[t].met /\ v \notin th'[t].seen
    BY <1>3, <1>18, <2>2, <2>3, SearchMoves
  <2> QED BY <1>2, <1>3, <2>1, <2>4, ThreadLeavesUntouched
<1>8. CASE ReadCross(t)
  <2>1. /\ UNCHANGED <<nbrs, cross, first>> /\ th[t].pc = "cross"
        /\ \/ th' = [th EXCEPT ![t].pc = "update", ![t].entry = cross[th[t].nearest]]
           \/ th' = [th EXCEPT ![t].pc = "hop", ![t].nearest = cross[th[t].nearest],
                               ![t].lvl = th[t].lvl - 1]
    BY <1>8 DEF ReadCross
  <2>2. th[t].nearest \in Vectors BY <1>4, <2>1 DEF ThreadOnItsWay, AtLevel
  <2>3. cross[th[t].nearest] # v BY <1>3, <2>2
  <2>4. /\ th'[t].nearest # v /\ th'[t].entry # v /\ th'[t].pending = th[t].pending
        /\ th'[t].seen = th[t].seen /\ th'[t].met = th[t].met
    BY <1>1, <1>3, <2>1, <2>3 DEF ThreadType
  <2> QED BY <1>2, <1>3, <2>1, <2>4, ThreadLeavesUntouched
<1>9. CASE SetCross(t)
  <2>1. /\ UNCHANGED <<nbrs, first>> /\ th[t].pc = "update"
        /\ cross' = [cross EXCEPT ![th[t].nearest] = th[t].pt]
        /\ th' = [th EXCEPT ![t].pc = "first"]
    BY <1>9 DEF SetCross
  <2>2. th[t].pt # v BY <2>1
  <2>3. \A w \in Vectors : cross'[w] # v BY <1>1, <1>3, <2>1, <2>2
  <2>4. /\ th'[t].nearest = th[t].nearest /\ th'[t].entry = th[t].entry
        /\ th'[t].pending = th[t].pending
        /\ th'[t].seen = th[t].seen /\ th'[t].met = th[t].met
    BY <1>1, <2>1 DEF ThreadType
  <2> QED BY <1>2, <1>3, <2>1, <2>3, <2>4, ThreadLeavesUntouched
<1>10. CASE UpdateCross(t)
  <2>1. /\ UNCHANGED <<nbrs, first>> /\ th[t].pc = "update"
        /\ cross' = cross \/ cross' = [cross EXCEPT ![th[t].nearest] = th[t].pt]
        /\ th' = [th EXCEPT ![t].pc = "hop", ![t].nearest = th[t].entry, ![t].lvl = th[t].lvl - 1]
    BY <1>10 DEF UpdateCross
  <2>2. th[t].pt # v BY <2>1
  <2>3. \A w \in Vectors : cross'[w] # v BY <1>1, <1>3, <2>1, <2>2
  <2>4. /\ th'[t].nearest # v /\ th'[t].entry = th[t].entry /\ th'[t].pending = th[t].pending
        /\ th'[t].seen = th[t].seen /\ th'[t].met = th[t].met
    BY <1>1, <1>3, <2>1 DEF ThreadType
  <2> QED BY <1>2, <1>3, <2>1, <2>3, <2>4, ThreadLeavesUntouched
<1>11. CASE GetFirst(t)
  <2>1. /\ UNCHANGED <<nbrs, cross, first>> /\ th[t].pc = "first"
        /\ \/ th' = [th EXCEPT ![t].pc = "setfirst"]
           \/ th' = [th EXCEPT ![t].pc = "hop", ![t].nearest = first[Level[th[t].pt]],
                               ![t].lvl = th[t].lvl - 1]
    BY <1>11 DEF GetFirst
  <2>2. first[Level[th[t].pt]] # v BY <1>3, <1>4, <2>1
  <2>3. /\ th'[t].nearest # v /\ th'[t].entry = th[t].entry /\ th'[t].pending = th[t].pending
        /\ th'[t].seen = th[t].seen /\ th'[t].met = th[t].met
    BY <1>1, <1>3, <2>1, <2>2 DEF ThreadType
  <2> QED BY <1>2, <1>3, <2>1, <2>3, ThreadLeavesUntouched
<1>12. CASE SetFirst(t)
  <2>1. /\ UNCHANGED <<nbrs, cross>> /\ th[t].pc = "setfirst"
        /\ first' = [first EXCEPT ![Level[th[t].pt]] = th[t].pt]
        /\ th' = [th EXCEPT ![t].pc = "hop", ![t].nearest = th[t].pt, ![t].lvl = th[t].lvl - 1]
    BY <1>12 DEF SetFirst
  <2>2. th[t].pt # v BY <2>1
  <2>3. \A l \in LevelsOf : first'[l] # v BY <1>1, <1>3, <2>1, <2>2
  <2>4. /\ th'[t].nearest # v /\ th'[t].entry = th[t].entry /\ th'[t].pending = th[t].pending
        /\ th'[t].seen = th[t].seen /\ th'[t].met = th[t].met
    BY <1>1, <2>1, <2>2 DEF ThreadType
  <2> QED BY <1>2, <1>3, <2>1, <2>3, <2>4, ThreadLeavesUntouched
<1>13. CASE FindTargets(t)
  <2>1. /\ UNCHANGED <<nbrs, cross, first>> /\ th'[t].nearest = th[t].nearest
        /\ th'[t].entry = th[t].entry /\ th'[t].seen = th[t].seen /\ th'[t].met = {}
    BY <1>13, TargetMoves
  <2>5. PICK found \in Results(th[t].met, th[t].pt) :
          \E targets \in LinkTargets(found, th[t].pt) :
             th'[t].pending \in FarthestFirst(targets, th[t].pt)
    BY <1>13, TargetMoves
  <2>2. PICK targets \in LinkTargets(found, th[t].pt) :
          th'[t].pending \in FarthestFirst(targets, th[t].pt)
    BY <2>5
  <2>3. targets \subseteq th[t].met BY LinkTargetsSubset DEF Results
  <2>4. Range(th'[t].pending) = targets BY <2>2 DEF FarthestFirst
  <2> QED BY <1>2, <1>3, <2>1, <2>3, <2>4, ThreadLeavesUntouched
<1>14. CASE Relock(t)
  <2>1. UNCHANGED <<nbrs, cross, first>> /\ th'[t] = Idle
    BY <1>1, <1>14 DEF Relock
  <2>2. /\ th'[t].nearest = NoVector /\ th'[t].entry = NoVector /\ th'[t].pending = <<>>
        /\ th'[t].seen = {} /\ th'[t].met = {}
    BY <2>1 DEF Idle
  <2>3. v # NoVector BY VectorsAssumption
  <2>4. v \notin Range(th'[t].pending) BY <2>2 DEF Range
  <2> QED BY <1>2, <1>3, <2>1, <2>2, <2>3, <2>4, ThreadLeavesUntouched
<1>15. ASSUME NEW src \in Vectors, NEW dest \in Vectors, src # v, dest # v,
              NEW list \in AddLink(src, dest), nbrs' = [nbrs EXCEPT ![src] = list],
              UNCHANGED <<cross, first>>, th'[t].nearest = th[t].nearest,
              th'[t].entry = th[t].entry, Range(th'[t].pending) \subseteq Range(th[t].pending),
              th'[t].seen = th[t].seen, th'[t].met = th[t].met
       PROVE  Untouched(v)'
  <2>1. Range(list) \subseteq Range(nbrs[src]) \cup {src, dest}
    BY <1>1, AddLinkResult
  <2>2. nbrs'[v] = <<>> BY <1>1, <1>3, <1>15
  <2>3. \A w \in Vectors : v \notin Range(nbrs'[w])
    <3>1. nbrs'[src] = list /\ \A w \in Vectors \ {src} : nbrs'[w] = nbrs[w] BY <1>1, <1>15
    <3>2. v \notin Range(list) BY <1>3, <1>15, <2>1
    <3> QED BY <1>3, <3>1, <3>2
  <2>4. \A u \in Threads : /\ th'[u].nearest # v /\ th'[u].entry # v
                           /\ v \notin Range(th'[u].pending)
                           /\ v \notin th'[u].seen /\ v \notin th'[u].met
    BY <1>2, <1>3, <1>15 DEF Untouched
  <2> QED BY <1>2, <1>3, <1>15, <2>2, <2>3, <2>4 DEF Untouched
<1>16. CASE AddOwn(t)
  <2> DEFINE dest == th[t].pending[th[t].filled + 1]
  <2>1. /\ th[t].pc = "fill" /\ UNCHANGED <<cross, first>>
        /\ th'[t].nearest = th[t].nearest /\ th'[t].entry = th[t].entry
        /\ th'[t].pending = th[t].pending
        /\ th'[t].seen = th[t].seen /\ th'[t].met = th[t].met
    BY <1>1, <1>16 DEF AddOwn, ThreadType
  <2>2. th[t].pending \in Seq(Vectors) /\ th[t].filled \in Nat BY <1>1 DEF ThreadType
  <2>3. th[t].filled + 1 \in DOMAIN th[t].pending
    BY <2>2, <1>16, LenProperties DEF AddOwn
  <2>4. dest \in Range(th[t].pending) BY <2>3 DEF Range
  <2>5. dest \in Vectors BY <2>2, <2>4, RangeOfSeq
  <2>6. PICK list \in AddLink(th[t].pt, dest) : nbrs' = [nbrs EXCEPT ![th[t].pt] = list]
    BY <1>16 DEF AddOwn
  <2>7. dest # v /\ th[t].pt # v /\ th[t].pt \in Vectors
    BY <1>3, <1>4, <2>1, <2>4
  <2> HIDE DEF dest
  <2> QED BY <1>15, <2>1, <2>5, <2>6, <2>7
<1>17. CASE AddBack(t)
  <2> DEFINE other == Head(th[t].pending)
  <2>1. th[t].pc = "add" /\ th[t].pending \in Seq(Vectors) /\ th[t].pending # <<>>
    BY <1>1, <1>4, <1>17 DEF AddBack, ThreadOnItsWay, ThreadType
  <2>2. /\ UNCHANGED <<cross, first>>
        /\ th'[t].nearest = th[t].nearest /\ th'[t].entry = th[t].entry
        /\ th'[t].pending = Tail(th[t].pending)
        /\ th'[t].seen = th[t].seen /\ th'[t].met = th[t].met
    BY <1>1, <1>17 DEF AddBack, ThreadType
  <2>3. other \in Range(th[t].pending) /\ Range(Tail(th[t].pending)) \subseteq Range(th[t].pending)
    BY <2>1 DEF Range
  <2>4. other \in Vectors BY <2>1, <2>3, RangeOfSeq
  <2>5. PICK list \in AddLink(other, th[t].pt) : nbrs' = [nbrs EXCEPT ![other] = list]
    BY <1>17 DEF AddBack
  <2>6. other # v /\ th[t].pt # v /\ th[t].pt \in Vectors
    BY <1>3, <1>4, <2>1, <2>3
  <2> HIDE DEF other
  <2> QED BY <1>15, <2>2, <2>3, <2>4, <2>5, <2>6
<1> QED
  BY <1>5, <1>6, <1>7, <1>8, <1>9, <1>10, <1>11, <1>12, <1>13, <1>14, <1>16, <1>17,
     <1>18 DEF Insert

\* The main thread leads nothing to v either: it starts from the first entry, or on the
\* highest level.
LEMMA MainLeavesUntouched ==
    ASSUME BuildTyped, NEW v \in Vectors, Level[v] < ML, Untouched(v), Main
    PROVE  Untouched(v)'
<1>1. /\ nbrs \in [Vectors -> Seq(Vectors)] /\ cross \in [Vectors -> MaybeVector]
      /\ first \in [LevelsOf -> MaybeVector] /\ ptLevel \in LevelsOf
  BY DEF BuildTyped, TypeOK
<1>2. UNCHANGED <<nbrs, th>> BY MainMoves
<1>3. v \notin AtLevel(ML) /\ v # NoVector
  BY LevelAssumption, SizeAssumption, VectorsAssumption DEF AtLevel, LevelsOf
<1>4. CASE LevelInserted \/ RemainDone
  BY <1>2, <1>4 DEF LevelInserted, RemainDone, Untouched
<1>8. CASE RemainSkip
  BY <1>2, <1>8 DEF RemainSkip, Untouched
<1>5. CASE RemainStart
  <2>1. PICK e \in IF first[ptLevel] = NoVector THEN AtLevel(ML) ELSE {first[ptLevel]} :
          first' = [first EXCEPT ![ptLevel] = e] /\ \E w : rem' = [v |-> w, at |-> e]
    BY <1>5 DEF RemainStart
  <2>2. e # v BY <1>1, <1>3 DEF Untouched
  <2>3. \A l \in LevelsOf : first'[l] # v BY <1>1, <2>1, <2>2 DEF Untouched
  <2>4. rem'.at # v BY <2>1, <2>2
  <2>5. cross' = cross BY <1>5 DEF RemainStart
  <2> QED BY <1>2, <2>3, <2>4, <2>5 DEF Untouched
<1>6. CASE RemainHop
  <2>1. /\ UNCHANGED <<cross, first>> /\ rem.v # NoVector
        /\ \E w \in Closer(rem.v, rem.at, Range(nbrs[rem.at])) : rem' = [rem EXCEPT !.at = w]
    BY <1>6 DEF RemainHop
  <2>2. rem.at \in Vectors /\ rem \in [v : MaybeVector, at : MaybeVector]
    BY <2>1 DEF BuildTyped, BuildInv, TypeOK, RemainOnItsWay, AtLevel
  <2>3. PICK w \in Closer(rem.v, rem.at, Range(nbrs[rem.at])) : rem' = [rem EXCEPT !.at = w]
    BY <2>1
  <2>4. w \in Range(nbrs[rem.at]) BY DEF Closer
  <2>5. w # v BY <2>2, <2>4 DEF Untouched
  <2>6. rem'.at = w BY <2>2, <2>3
  <2> QED BY <1>2, <2>1, <2>5, <2>6 DEF Untouched
<1>7. CASE RemainSet
  <2>1. /\ first' = first /\ cross' = [cross EXCEPT ![rem.v] = rem.at]
        /\ rem' = [v |-> NoVector, at |-> NoVector]
    BY <1>7 DEF RemainSet
  <2>2. \A w \in Vectors : cross'[w] # v BY <1>1, <2>1 DEF Untouched
  <2>3. rem'.at # v BY <1>3, <2>1
  <2> QED BY <1>2, <2>1, <2>2, <2>3 DEF Untouched
<1> QED BY <1>4, <1>5, <1>6, <1>7, <1>8 DEF Main
--------------------------------------------------------------------------------
\* Only the thread that holds the lock of a vector writes its list, and it is not on its
\* way down.
LEMMA ListWriter ==
    ASSUME BuildTyped, LocksMatch, NEW t \in Threads, Insert(t),
           NEW v \in Vectors, nbrs'[v] # nbrs[v]
    PROVE  lock[v] = t /\ th[t].pc \in {"fill", "add"}
<1>1. nbrs \in [Vectors -> Seq(Vectors)] BY DEF BuildTyped, TypeOK
<1>2. AddOwn(t) \/ AddBack(t)
  BY DEF Insert, Take, LockOwn, Look, Hop, ReadCross, SetCross, UpdateCross,
         GetFirst, SetFirst, Expand, ReadList, FindTargets, UnlockOwn, LockOther, Relock
<1>3. CASE AddOwn(t)
  <2>1. v = th[t].pt /\ th[t].pc = "fill" BY <1>1, <1>3 DEF AddOwn
  <2> QED BY <2>1 DEF LocksMatch, Holds
<1>4. CASE AddBack(t)
  <2>1. v = Head(th[t].pending) /\ th[t].pc = "add" BY <1>1, <1>4 DEF AddBack
  <2> QED BY <2>1 DEF LocksMatch, Holds
<1> QED BY <1>2, <1>3, <1>4

\* A list stays empty as long as its owner is on its way down.
LEMMA DescendingNext ==
    ASSUME BuildTyped, LocksMatch, FreshInv, NEW t \in Threads, Insert(t),
           NEW u \in Threads, th'[u].pc \in Descending, Level[th'[u].pt] < ML
    PROVE  nbrs'[th'[u].pt] = <<>>
<1>1. \A w \in Threads \ {t} : th'[w] = th[w] BY ThreadsMove
<1>2. /\ th[u].pc \in Descending \cup {"lock"} /\ th'[u].pt = th[u].pt
      /\ u # t => th[u].pc \in Descending
  <2>1. CASE u = t
    <3>1. th'[t].pc # "idle" /\ th'[t].pc # "lock" BY <2>1 DEF Descending
    <3>2. ~Take(t) BY <3>1, TakeFacts
    <3> QED BY <2>1, <3>1, <3>2, ThreadsMove
  <2>2. CASE u # t BY <1>1, <2>2
  <2> QED BY <2>1, <2>2
<1> DEFINE v == th[u].pt
<1>3. v \in Vectors
  <2>1. th[u].pc # "idle" BY <1>2 DEF Descending
  <2> QED BY <2>1, ThreadFacts
<1>4. nbrs[v] = <<>>
  <2>1. CASE th[u].pc = "lock"
    <3>1. Unknown(v) BY <2>1 DEF Unknown
    <3> QED BY <1>2, <1>3, <3>1 DEF FreshInv, Untouched
  <2>2. CASE th[u].pc \in Descending BY <1>2, <2>2 DEF FreshInv
  <2> QED BY <1>2, <2>1, <2>2
<1>5. ASSUME nbrs'[v] # nbrs[v] PROVE FALSE
  <2>1. lock[v] = t /\ th[t].pc \in {"fill", "add"} BY <1>3, <1>5, ListWriter
  <2>2. u # t BY <1>2, <2>1 DEF Descending
  <2>3. lock[v] = u BY <1>2, <1>3, <2>2 DEF LocksMatch, Holds, Descending
  <2> QED BY <2>1, <2>2, <2>3
<1> QED BY <1>2, <1>4, <1>5

\* At first nothing leads anywhere.
LEMMA InitFresh == Init => FreshInv
<1> SUFFICES ASSUME Init PROVE FreshInv OBVIOUS
<1>1. \A t \in Threads : th[t] = Idle BY DEF Init
<1>2. \A t \in Threads : /\ th[t].pc = "idle" /\ th[t].nearest = NoVector
                         /\ th[t].entry = NoVector /\ th[t].pending = <<>>
                         /\ th[t].seen = {} /\ th[t].met = {}
  BY <1>1 DEF Idle
<1>3. ASSUME NEW v \in Vectors PROVE Untouched(v)
  <2>1. v # NoVector BY VectorsAssumption
  <2>2. v \notin Range(<<>>) BY DEF Range
  <2>3. \A w \in Vectors : nbrs[w] = <<>> /\ cross[w] = NoVector BY DEF Init
  <2>4. (\A l \in LevelsOf : first[l] = NoVector) /\ rem.at = NoVector BY DEF Init
  <2> QED BY <1>2, <2>1, <2>2, <2>3, <2>4 DEF Untouched
<1> QED BY <1>2, <1>3 DEF FreshInv, OneInserts, Descending

\* Every step keeps the vectors below the highest level fresh.
LEMMA FreshNext == BuildTyped /\ LocksMatch /\ FreshInv /\ [Next]_vars => FreshInv'
<1> SUFFICES ASSUME BuildTyped, LocksMatch, FreshInv, [Next]_vars PROVE FreshInv' OBVIOUS
<1>1. OneInserts' BY OneInsertsNext DEF FreshInv
<1>2. ASSUME NEW v \in Vectors, Unknown(v)', Level[v] < ML PROVE Untouched(v)'
  <2>1. Unknown(v) BY <1>2, UnknownBefore
  <2>2. Untouched(v) BY <1>2, <2>1 DEF FreshInv
  <2>3. ASSUME NEW t \in Threads, Insert(t) PROVE Untouched(v)'
    <3>1. \A u \in Threads : th[u].pc \notin {"idle", "lock"} => th[u].pt # v
      BY <2>1, InsertedIsKnown DEF FreshInv
    <3> QED BY <1>2, <2>2, <2>3, <3>1, InsertLeavesUntouched
  <2>4. CASE Main BY <1>2, <2>2, <2>4, MainLeavesUntouched
  <2>5. CASE UNCHANGED vars BY <2>2, <2>5 DEF vars, Untouched
  <2> QED BY <2>3, <2>4, <2>5 DEF Next, Done
<1>3. ASSUME NEW u \in Threads, th'[u].pc \in Descending, Level[th'[u].pt] < ML
      PROVE  nbrs'[th'[u].pt] = <<>>
  <2>1. ASSUME NEW t \in Threads, Insert(t) PROVE nbrs'[th'[u].pt] = <<>>
    BY <1>3, <2>1, DescendingNext
  <2>2. CASE Main
    <3>1. UNCHANGED <<nbrs, th>> BY <2>2, MainMoves
    <3> QED BY <1>3, <3>1 DEF FreshInv
  <2>3. CASE UNCHANGED vars BY <1>3, <2>3 DEF FreshInv, vars
  <2> QED BY <2>1, <2>2, <2>3 DEF Next, Done
<1> QED BY <1>1, <1>2, <1>3 DEF FreshInv

\* Each vector is inserted once, and below the highest level nothing leads to it before
\* its thread has its lock (hchnsw_add_vertices, HCHNSW::add_with_locks_level).
THEOREM FreshInvariant == Spec => []FreshInv
<1>1. Init => FreshInv BY InitFresh
<1>2. BuildTyped /\ LocksMatch /\ FreshInv /\ [Next]_vars => FreshInv' BY FreshNext
<1> QED BY <1>1, <1>2, BuildInvariant, LocksInvariant, PTL DEF Spec

\* Below the highest level a thread fills an empty list, although other threads may have
\* met its vector through a cross link or as first entry (add_links_level_starting_from).
THEOREM ListsStartEmpty == Spec => []OwnListFresh
<1>1. FreshInv => OwnListFresh BY DEF FreshInv, OwnListFresh, Descending
<1> QED BY <1>1, FreshInvariant, PTL
--------------------------------------------------------------------------------
(***************************************************************************)
(* How long a list gets: each vector of the level links back to its owner  *)
(* once, and the owner fills it once.                                      *)
(***************************************************************************)
\* u may still link back to v.
MayLink(u, v) ==
    \/ Untaken(u)
    \/ \E t \in Threads : /\ th[t].pc # "idle" /\ th[t].pt = u
                          /\ th[t].pc \in Descending \cup {"lock"} \/ v \in Range(th[t].pending)

\* The vectors of the level of v that may.
Linkers(v) == {u \in AtLevel(Level[v]) : MayLink(u, v)}

\* How many vectors there are on the level of v.
Peers(v) == Cardinality(AtLevel(Level[v]))

\* The links made, and those that may still be made, to v.
Count(v) == Len(nbrs[v]) + Cardinality(Linkers(v))

\* A list has at most one link from each vector of its level that has linked back, and, once
\* its owner fills it, one more for each that it has put in itself.
ListsCounted ==
    /\ \A v \in Vectors :
          /\ Count(v) <= 2 * Peers(v)
          /\ Unknown(v) => Count(v) <= Peers(v)
          /\ \A t \in Threads : th[t].pt = v =>
                /\ th[t].pc \in Descending => Count(v) <= Peers(v)
                /\ th[t].pc = "fill" => Count(v) <= Peers(v) + th[t].filled
    /\ \A t \in Threads :
          /\ th[t].pc = "fill" => Len(th[t].pending) <= Cardinality(AtLevel(ptLevel))
          /\ th[t].pc \in {"fill", "lockother", "add"} =>
                \A i, j \in DOMAIN th[t].pending :
                    th[t].pending[i] = th[t].pending[j] => i = j

--------------------------------------------------------------------------------
\* How many vectors a level has, and how many of them may link, are numbers.
LEMMA LinkersType ==
    ASSUME NEW v \in Vectors
    PROVE  /\ IsFiniteSet(Linkers(v)) /\ Linkers(v) \subseteq Vectors
           /\ Cardinality(Linkers(v)) \in Nat /\ Peers(v) \in Nat
           /\ Cardinality(Linkers(v)) <= Peers(v)
<1>1. AtLevel(Level[v]) \in SUBSET Vectors /\ Linkers(v) \in SUBSET AtLevel(Level[v])
  BY DEF AtLevel, Linkers
<1>2. IsFiniteSet(AtLevel(Level[v])) BY <1>1, VectorsAssumption, FS_Subset
<1>3. IsFiniteSet(Linkers(v)) /\ Cardinality(Linkers(v)) <= Cardinality(AtLevel(Level[v]))
  BY <1>1, <1>2, FS_Subset
<1> QED BY <1>1, <1>2, <1>3, FS_CardinalityType DEF Peers

\* A queue of vectors, emptied, has no vector twice.
LEMMA FarthestFirstOnce ==
    ASSUME NEW S \in SUBSET Vectors, NEW q, NEW s \in FarthestFirst(S, q)
    PROVE  \A i, j \in DOMAIN s : s[i] = s[j] => i = j
<1>1. IsFiniteSet(S) /\ Cardinality(S) \in Nat
  BY VectorsAssumption, FS_Subset, FS_CardinalityType
<1> DEFINE I == 1 .. Cardinality(S)
<1>2. s \in [I -> S] /\ Range(s) = S BY DEF FarthestFirst
<1>3. s \in Surjection(I, S) BY <1>2 DEF Surjection, Range
<1>4. IsFiniteSet(I) /\ Cardinality(I) = Cardinality(S) BY <1>1, FS_Interval
<1> HIDE DEF I
<1>5. s \in Injection(I, S) BY <1>3, <1>4, FS_SurjSameCardinalityImpliesInj
<1> QED BY <1>2, <1>5 DEF Injection, IsInjective

\* add_link makes a list longer by at most one.
LEMMA AddLinkLength ==
    ASSUME NEW src \in Vectors, NEW dest \in Vectors, nbrs[src] \in Seq(Vectors),
           NEW list \in AddLink(src, dest)
    PROVE  list \in Seq(Vectors) /\ Len(list) <= Len(nbrs[src]) + 1
<1>1. list \in Seq(Vectors) /\ Len(list) <= Capacity(src) BY AddLinkResult
<1>2. Len(Append(nbrs[src], dest)) = Len(nbrs[src]) + 1 /\ Len(nbrs[src]) \in Nat
  BY AppendProperties, LenProperties
<1>3. CASE Len(nbrs[src]) + 1 <= Capacity(src)
  <2>1. list = Append(nbrs[src], dest) BY <1>2, <1>3 DEF AddLink
  <2> QED BY <1>1, <1>2, <2>1
<1>4. CASE ~(Len(nbrs[src]) + 1 <= Capacity(src))
  BY <1>1, <1>2, <1>4, CapacityType, LenProperties
<1> QED BY <1>3, <1>4

\* What a step does to the links still to be made: they are the ones the thread has found.
LEMMA PendingMoves ==
    ASSUME BuildTyped, NEW t \in Threads, Insert(t), NEW v \in Range(th'[t].pending)
    PROVE  /\ th'[t].pt = th[t].pt
           /\ v \in Range(th[t].pending) \/ th[t].pc = "link"
<1>1. th \in [Threads -> ThreadType] /\ th[t] \in ThreadType BY DEF BuildTyped, TypeOK
<1>2. CASE Take(t)
  <2>1. th'[t].pending = <<>> BY <1>2, TakeFacts
  <2> QED BY <2>1 DEF Range
<1>3. CASE Relock(t)
  <2>1. th'[t] = Idle BY <1>1, <1>3 DEF Relock
  <2> QED BY <2>1 DEF Range, Idle
<1>4. CASE AddBack(t)
  <2>1. th[t].pc = "add" /\ th[t].pending \in Seq(Vectors) /\ th[t].pending # <<>>
    BY <1>1, <1>4, ThreadFacts DEF AddBack, ThreadOnItsWay, ThreadType
  <2>2. th'[t].pending = Tail(th[t].pending) /\ th'[t].pt = th[t].pt
    BY <1>1, <1>4 DEF AddBack, ThreadType
  <2>3. Range(Tail(th[t].pending)) \subseteq Range(th[t].pending) BY <2>1 DEF Range
  <2> QED BY <2>2, <2>3
<1>5. CASE FindTargets(t)
  BY <1>5, TargetMoves
<1>9. CASE Look(t) \/ Expand(t) \/ ReadList(t)
  BY <1>9, SearchMoves
<1>6. CASE LockOwn(t) \/ UnlockOwn(t) \/ LockOther(t) \/ AddOwn(t) \/ SetCross(t)
  <2>1. CASE AddOwn(t) BY <1>1, <2>1 DEF AddOwn, ThreadType
  <2>2. CASE UnlockOwn(t) BY <1>1, <2>2 DEF UnlockOwn, ThreadType
  <2>3. CASE LockOwn(t) BY <1>1, <2>3 DEF LockOwn, ThreadType
  <2>4. CASE LockOther(t) BY <1>1, <2>4 DEF LockOther, ThreadType
  <2>5. CASE SetCross(t) BY <1>1, <2>5 DEF SetCross, ThreadType
  <2> QED BY <1>6, <2>1, <2>2, <2>3, <2>4, <2>5
<1>7. CASE Hop(t)
  BY <1>7, HopMoves
<1>8. CASE ReadCross(t) \/ UpdateCross(t) \/ GetFirst(t) \/ SetFirst(t)
  BY <1>1, <1>8 DEF ReadCross, UpdateCross, GetFirst, SetFirst, ThreadType
<1> QED BY <1>2, <1>3, <1>4, <1>5, <1>6, <1>7, <1>8, <1>9 DEF Insert

\* A vector that has linked back does not do so again.
LEMMA LinkersShrink ==
    ASSUME BuildTyped, [Next]_vars, NEW v \in Vectors
    PROVE  Linkers(v)' \subseteq Linkers(v)
<1> SUFFICES ASSUME NEW u \in AtLevel(Level[v]), MayLink(u, v)' PROVE MayLink(u, v)
  BY DEF Linkers, AtLevel
<1>1. ASSUME NEW t \in Threads, Insert(t) PROVE MayLink(u, v)
  <2>1. /\ \A w \in Threads \ {t} : th'[w] = th[w]
        /\ ptLevel' = ptLevel /\ stage' = stage
        /\ \/ Take(t)
           \/ /\ th[t].pc # "idle" /\ todo' = todo /\ th'[t].pc # "lock"
              /\ th'[t].pc = "idle" \/ th'[t].pt = th[t].pt
              /\ th'[t].pc \in Descending => th[t].pc \in Descending \cup {"lock"}
    BY <1>1, ThreadsMove
  <2>2. CASE Take(t)
    <3>1. stage = "insert" /\ todo' \subseteq todo /\ th'[t].pt \in todo
      BY <2>2, TakeFacts
    <3>2. Untaken(u)' => Untaken(u) BY <2>1, <3>1 DEF Untaken
    <3>3. th'[t].pt = u => Untaken(u) BY <3>1 DEF Untaken
    <3> QED BY <2>1, <3>2, <3>3 DEF MayLink
  <2>3. CASE ~Take(t)
    <3>1. v \in Range(th'[t].pending) =>
             th'[t].pt = th[t].pt /\ (v \in Range(th[t].pending) \/ th[t].pc \in Descending)
      BY <1>1, PendingMoves DEF Descending
    <3>2. th'[t].pc \in Descending \cup {"lock"} =>
             th'[t].pt = th[t].pt /\ th[t].pc \in Descending \cup {"lock"}
      BY <2>1, <2>3 DEF Descending
    <3>3. Untaken(u)' => Untaken(u) BY <2>1, <2>3 DEF Untaken
    <3> QED BY <2>1, <2>3, <3>1, <3>2, <3>3 DEF MayLink
  <2> QED BY <2>2, <2>3
<1>2. CASE Main
  <2>1. th' = th /\ (Untaken(u)' => Untaken(u)) BY <1>2, MainMoves DEF AtLevel
  <2> QED BY <2>1 DEF MayLink
<1>3. CASE UNCHANGED vars BY <1>3 DEF vars, MayLink, Untaken
<1> QED BY <1>1, <1>2, <1>3 DEF Next, Done
\* A thread that links goes through what it has found, from the farthest to the nearest.
LEMMA LinkMoves ==
    ASSUME BuildTyped, NEW t \in Threads, Insert(t), th'[t].pc \in {"fill", "lockother", "add"}
    PROVE  /\ th'[t].pt = th[t].pt
           /\ \/ /\ th[t].pc = "link" /\ th'[t].pc = "fill"
                 /\ \E S \in SUBSET AtLevel(ptLevel) : th'[t].pending \in FarthestFirst(S, th[t].pt)
              \/ /\ AddOwn(t) /\ th[t].pc = "fill" /\ th'[t].pc = "fill"
                 /\ th'[t].pending = th[t].pending /\ th'[t].filled = th[t].filled + 1
              \/ /\ th[t].pc \in {"fill", "lockother"} /\ th'[t].pc \in {"lockother", "add"}
                 /\ th'[t].pending = th[t].pending
              \/ /\ th[t].pc = "add" /\ th'[t].pc = "lockother"
                 /\ th'[t].pending = Tail(th[t].pending)
<1>1. th \in [Threads -> ThreadType] /\ th[t] \in ThreadType BY DEF BuildTyped, TypeOK
<1>2. CASE FindTargets(t)
  <2>1. th[t].pc = "link" /\ th'[t].pc = "fill" /\ th'[t].pt = th[t].pt
    BY <1>2, TargetMoves
  <2>5. PICK found \in Results(th[t].met, th[t].pt) :
          \E targets \in LinkTargets(found, th[t].pt) :
             th'[t].pending \in FarthestFirst(targets, th[t].pt)
    BY <1>2, TargetMoves
  <2>2. PICK targets \in LinkTargets(found, th[t].pt) :
          th'[t].pending \in FarthestFirst(targets, th[t].pt)
    BY <2>5
  <2>3. th[t].met \subseteq AtLevel(ptLevel) BY <2>1, ThreadFacts DEF ThreadOnItsWay
  <2>4. targets \in SUBSET AtLevel(ptLevel) BY <2>3, LinkTargetsSubset DEF Results
  <2> QED BY <2>1, <2>2, <2>4
<1>12. CASE Look(t) \/ Expand(t) \/ ReadList(t)
  <2>1. th'[t].pc \in {"hop", "link", "read"} BY <1>12, SearchMoves
  <2> QED BY <2>1
<1>3. CASE AddOwn(t) BY <1>1, <1>3 DEF AddOwn, ThreadType
<1>4. CASE UnlockOwn(t) BY <1>1, <1>4 DEF UnlockOwn, ThreadType
<1>5. CASE LockOther(t) BY <1>1, <1>5 DEF LockOther, ThreadType
<1>6. CASE AddBack(t) BY <1>1, <1>6 DEF AddBack, ThreadType
<1>7. CASE Relock(t)
  BY <1>1, <1>7, IdleType DEF Relock
<1>8. CASE Take(t) BY <1>8, TakeFacts
<1>9. CASE LockOwn(t) \/ SetCross(t) BY <1>1, <1>9 DEF LockOwn, SetCross, ThreadType
<1>10. CASE Hop(t)
  <2>1. th'[t].pc \in {"hop", "link", "cross"} BY <1>10, HopMoves
  <2> QED BY <2>1
<1>11. CASE ReadCross(t) \/ UpdateCross(t) \/ GetFirst(t) \/ SetFirst(t)
  BY <1>1, <1>11 DEF ReadCross, UpdateCross, GetFirst, SetFirst, ThreadType
<1> QED
  BY <1>2, <1>3, <1>4, <1>5, <1>6, <1>7, <1>8, <1>9, <1>10, <1>11, <1>12 DEF Insert

\* The count of a list grows only when its owner fills it.
LEMMA CountMoves ==
    ASSUME BuildTyped, OneInserts, ListsCounted, [Next]_vars, NEW v \in Vectors
    PROVE  \/ Count(v)' <= Count(v)
           \/ Count(v)' <= Count(v) + 1 /\ \E t \in Threads : AddOwn(t) /\ th[t].pt = v
<1>1. nbrs \in [Vectors -> Seq(Vectors)] /\ th \in [Threads -> ThreadType]
  BY DEF BuildTyped, TypeOK
<1>2. /\ IsFiniteSet(Linkers(v)) /\ Cardinality(Linkers(v)) \in Nat
      /\ Linkers(v)' \subseteq Linkers(v)
  BY LinkersType, LinkersShrink
<1>3. Cardinality(Linkers(v)') \in Nat /\ Cardinality(Linkers(v)') <= Cardinality(Linkers(v))
  <2> DEFINE A == Linkers(v)
             B == Linkers(v)'
  <2> HIDE DEF A, B
  <2>1. IsFiniteSet(A) /\ B \in SUBSET A BY <1>2 DEF A, B
  <2>2. IsFiniteSet(B) /\ Cardinality(B) <= Cardinality(A) /\ Cardinality(B) \in Nat
    BY <2>1, FS_Subset, FS_CardinalityType
  <2> QED BY <2>2 DEF A, B
<1>4. Len(nbrs[v]) \in Nat BY <1>1, LenProperties
<1>5. CASE nbrs'[v] = nbrs[v] BY <1>2, <1>3, <1>4, <1>5 DEF Count
<1>6. CASE nbrs'[v] # nbrs[v]
  <2>1. PICK t \in Threads : AddOwn(t) \/ AddBack(t)
    BY <1>6 DEF Next, vars, Done, Insert, Take, LockOwn, Look, Hop, ReadCross, SetCross, UpdateCross,
           GetFirst, SetFirst, Expand, ReadList, FindTargets, UnlockOwn, LockOther, Relock, Main,
           LevelInserted, RemainSkip, RemainStart, RemainHop, RemainSet, RemainDone
  <2>2. /\ th[t] \in ThreadType /\ th[t].pc \in {"fill", "add"} /\ th[t].pt \in AtLevel(ptLevel)
        /\ Range(th[t].pending) \subseteq AtLevel(ptLevel)
        /\ th[t].pending \in Seq(Vectors) /\ th[t].filled \in Nat
        /\ th[t].pc = "add" => th[t].pending # <<>>
    BY <1>1, <2>1, ThreadFacts DEF AddOwn, AddBack, ThreadOnItsWay, ThreadType
  <2>3. CASE AddOwn(t)
    <3> DEFINE dest == th[t].pending[th[t].filled + 1]
    <3>1. th[t].filled + 1 \in DOMAIN th[t].pending BY <2>2, <2>3, LenProperties DEF AddOwn
    <3>2. dest \in Vectors BY <2>2, <3>1 DEF Range, AtLevel
    <3>3. PICK list \in AddLink(th[t].pt, dest) : nbrs' = [nbrs EXCEPT ![th[t].pt] = list]
      BY <2>3 DEF AddOwn
    <3> HIDE DEF dest
    <3>4. v = th[t].pt /\ nbrs'[v] = list BY <1>1, <1>6, <3>3
    <3>5. list \in Seq(Vectors) /\ Len(list) <= Len(nbrs[v]) + 1
      BY <1>1, <3>2, <3>3, <3>4, AddLinkLength
    <3>6. Len(list) \in Nat BY <3>5, LenProperties
    <3> QED BY <1>2, <1>3, <1>4, <2>3, <3>4, <3>5, <3>6 DEF Count
  <2>4. CASE AddBack(t)
    <3> DEFINE other == Head(th[t].pending)
               u == th[t].pt
    <3>1. PICK list \in AddLink(other, u) : nbrs' = [nbrs EXCEPT ![other] = list]
      BY <2>4 DEF AddBack
    <3>2. v = other /\ nbrs'[v] = list BY <1>1, <1>6, <3>1
    <3>3. th[t].pc = "add" /\ th'[t].pending = Tail(th[t].pending) /\ th'[t].pt = u
          /\ th'[t].pc \in {"relock", "lockother"}
          /\ (\A w \in Threads \ {t} : th'[w] = th[w]) /\ ptLevel' = ptLevel /\ todo' = todo
      BY <1>1, <2>4 DEF AddBack, ThreadType
    <3>4. u \in Linkers(v)
      <4>1. other \in Range(th[t].pending) BY <2>2, <3>3 DEF Range
      <4>2. Level[other] = ptLevel BY <2>2, <4>1 DEF AtLevel
      <4> QED BY <2>2, <3>2, <4>1, <4>2 DEF Linkers, MayLink, AtLevel
    <3>5. u \notin Linkers(v)'
      <4>1. u \notin todo /\ Level[u] = ptLevel /\ ptLevel \in Nat
        BY <2>2, ThreadFacts, SizeAssumption DEF OneInserts, LevelsOf
      <4>2. v \notin Range(th'[t].pending)
        <5>1. \A i, j \in DOMAIN th[t].pending : th[t].pending[i] = th[t].pending[j] => i = j
          BY <3>3 DEF ListsCounted
        <5>2. Len(th[t].pending) \in Nat /\ 1 \in DOMAIN th[t].pending
              /\ th[t].pending[1] = v
          BY <2>2, <3>2, <3>3, LenProperties
        <5>3. \A k \in DOMAIN Tail(th[t].pending) :
                 /\ k + 1 \in DOMAIN th[t].pending /\ k + 1 # 1
                 /\ Tail(th[t].pending)[k] = th[t].pending[k + 1]
          BY <2>2, <3>3, <5>2
        <5> QED BY <3>3, <5>1, <5>2, <5>3 DEF Range
      <4>3. \A w \in Threads \ {t} : th[w].pc # "idle" => th[w].pt # u
        BY <2>2 DEF OneInserts
      <4>4. th'[t].pc \notin Descending \cup {"lock"} BY <3>3 DEF Descending
      <4>5. ~Untaken(u)' BY <3>3, <4>1 DEF Untaken
      <4> QED BY <3>3, <4>2, <4>3, <4>4, <4>5 DEF Linkers, MayLink
    <3>6. Cardinality(Linkers(v)') <= Cardinality(Linkers(v)) - 1
      <4> DEFINE A == Linkers(v)
                 B == Linkers(v)'
      <4> HIDE DEF A, B, u
      <4>1. IsFiniteSet(A) /\ B \in SUBSET (A \ {u}) /\ u \in A
        BY <1>2, <3>4, <3>5 DEF A, B
      <4>2. IsFiniteSet(A \ {u}) /\ Cardinality(A \ {u}) = Cardinality(A) - 1
        BY <4>1, FS_RemoveElement
      <4>3. Cardinality(B) <= Cardinality(A) - 1 BY <4>1, <4>2, FS_Subset
      <4> QED BY <4>3 DEF A, B
    <3>7. list \in Seq(Vectors) /\ Len(list) <= Len(nbrs[v]) + 1
      <4>1. u \in Vectors BY <2>2 DEF AtLevel
      <4> HIDE DEF u
      <4> QED BY <1>1, <3>1, <3>2, <4>1, AddLinkLength
    <3>8. Len(list) \in Nat BY <3>7, LenProperties
    <3> HIDE DEF other, u
    <3> QED BY <1>2, <1>3, <1>4, <3>2, <3>6, <3>7, <3>8 DEF Count
  <2> QED BY <2>1, <2>3, <2>4
<1> QED BY <1>5, <1>6
--------------------------------------------------------------------------------
\* At first every vector may link, and no list has a link.
LEMMA InitCounted == Init => ListsCounted
<1> SUFFICES ASSUME Init PROVE ListsCounted OBVIOUS
<1>1. \A t \in Threads : th[t].pc = "idle" BY DEF Init, Idle
<1>2. ASSUME NEW v \in Vectors PROVE Len(nbrs[v]) = 0 BY DEF Init
<1>3. ASSUME NEW v \in Vectors
      PROVE  /\ Cardinality(Linkers(v)) <= Peers(v)
             /\ Cardinality(Linkers(v)) \in Nat /\ Peers(v) \in Nat
  BY LinkersType
<1>4. ASSUME NEW v \in Vectors
      PROVE  Count(v) <= Peers(v) /\ Count(v) <= 2 * Peers(v)
  <2>1. Len(nbrs[v]) = 0 BY <1>2
  <2>2. /\ Cardinality(Linkers(v)) <= Peers(v)
        /\ Cardinality(Linkers(v)) \in Nat /\ Peers(v) \in Nat
    BY <1>3
  <2> QED BY <2>1, <2>2 DEF Count
<1> QED BY <1>1, <1>4 DEF ListsCounted, Descending

\* A thread that is on its way down was so before, or had just taken its vector.
LEMMA DescendingBefore ==
    ASSUME BuildTyped, NEW t \in Threads, Insert(t), NEW u \in Threads, th'[u].pc \in Descending
    PROVE  /\ th[u].pc \in Descending \cup {"lock"} /\ th'[u].pt = th[u].pt
           /\ u # t => th[u].pc \in Descending
<1>1. CASE u = t
  <2>1. th'[t].pc # "idle" /\ th'[t].pc # "lock" BY <1>1 DEF Descending
  <2>2. ~Take(t) BY <2>1, TakeFacts
  <2> QED BY <1>1, <2>1, <2>2, ThreadsMove
<1>2. CASE u # t BY <1>2, ThreadsMove
<1> QED BY <1>1, <1>2

\* What the count says of a vector that a thread is to insert.
LEMMA FreshCount ==
    ASSUME BuildTyped, ListsCounted, NEW u \in Threads, th[u].pc \in Descending \cup {"lock"},
           NEW v \in Vectors, th[u].pt = v
    PROVE  Count(v) <= Peers(v)
<1>1. CASE th[u].pc = "lock"
  <2>1. Unknown(v) BY <1>1 DEF Unknown
  <2> QED BY <2>1 DEF ListsCounted
<1>2. CASE th[u].pc \in Descending BY <1>2 DEF ListsCounted
<1> QED BY <1>1, <1>2

\* The count of a list and the number of its peers are numbers.
LEMMA CountType ==
    ASSUME BuildTyped, NEW v \in Vectors
    PROVE  Count(v) \in Nat /\ Peers(v) \in Nat
<1>1. Len(nbrs[v]) \in Nat BY LenProperties DEF BuildTyped, TypeOK
<1>2. Cardinality(Linkers(v)) \in Nat /\ Peers(v) \in Nat BY LinkersType
<1> QED BY <1>1, <1>2 DEF Count

LEMMA CountTypeNext == BuildTyped' => \A v \in Vectors : Count(v)' \in Nat
<1>1. BuildTyped => \A v \in Vectors : Count(v) \in Nat BY CountType
<1>2. BuildTyped' => (\A v \in Vectors : Count(v) \in Nat)' BY <1>1, PTL
<1> QED BY <1>2

\* Only the thread that fills a list makes its count grow.
LEMMA OthersCount ==
    ASSUME BuildTyped, OneInserts, ListsCounted, [Next]_vars,
           NEW u \in Threads, th[u].pc # "idle", ~AddOwn(u),
           NEW v \in Vectors, th[u].pt = v
    PROVE  Count(v)' <= Count(v)
<1>1. ASSUME NEW w \in Threads, AddOwn(w), th[w].pt = v PROVE FALSE
  <2>1. w # u /\ th[w].pc = "fill" BY <1>1 DEF AddOwn
  <2> QED BY <1>1, <2>1 DEF OneInserts
<1> QED BY <1>1, CountMoves

\* A thread that links keeps the count of its own list.
LEMMA FillNext ==
    ASSUME BuildTyped, OneInserts, ListsCounted, [Next]_vars, BuildTyped',
           NEW t \in Threads, Insert(t), th'[t].pc \in {"fill", "lockother", "add"}
    PROVE  /\ \A v \in Vectors : th'[t].pt = v /\ th'[t].pc = "fill" =>
                 Count(v)' <= Peers(v) + th'[t].filled
           /\ th'[t].pc = "fill" => Len(th'[t].pending) <= Cardinality(AtLevel(ptLevel))
           /\ \A i, j \in DOMAIN th'[t].pending : th'[t].pending[i] = th'[t].pending[j] => i = j
<1>1. /\ th[t] \in ThreadType /\ th'[t] \in ThreadType
  BY DEF BuildTyped, TypeOK
<1>2. /\ th'[t].pt = th[t].pt /\ th[t].pc # "idle"
  BY LinkMoves
<1>3. PICK v \in Vectors : th[t].pt = v /\ Level[v] = ptLevel BY <1>2, ThreadFacts
<1>4. Count(v) \in Nat /\ Count(v)' \in Nat /\ Peers(v) \in Nat
  BY CountType, CountTypeNext
<1>5. /\ th[t].filled \in Nat /\ th'[t].filled \in Nat
      /\ th[t].pending \in Seq(Vectors)
  BY <1>1 DEF ThreadType
<1>6. ~AddOwn(t) => Count(v)' <= Count(v) BY <1>2, <1>3, OthersCount
<1>7. Peers(v) = Cardinality(AtLevel(ptLevel)) BY <1>3 DEF Peers
<1>8. CASE /\ th[t].pc = "link" /\ th'[t].pc = "fill"
           /\ \E S \in SUBSET AtLevel(ptLevel) : th'[t].pending \in FarthestFirst(S, th[t].pt)
  <2>1. PICK S \in SUBSET AtLevel(ptLevel) : th'[t].pending \in FarthestFirst(S, th[t].pt)
    BY <1>8
  <2>2. S \in SUBSET Vectors /\ IsFiniteSet(AtLevel(ptLevel))
    BY VectorsAssumption, FS_Subset DEF AtLevel
  <2>3. Len(th'[t].pending) = Cardinality(S) BY <2>1, <2>2, FarthestFirstType
  <2>4. Cardinality(S) <= Cardinality(AtLevel(ptLevel)) BY <2>2, FS_Subset
  <2>5. \A i, j \in DOMAIN th'[t].pending : th'[t].pending[i] = th'[t].pending[j] => i = j
    BY <2>1, <2>2, FarthestFirstOnce
  <2>6. Count(v) <= Peers(v) BY <1>3, <1>8, FreshCount DEF Descending
  <2>7. ~AddOwn(t) BY <1>8 DEF AddOwn
  <2>8. Count(v)' <= Peers(v) + th'[t].filled BY <1>4, <1>5, <1>6, <2>6, <2>7
  <2> QED BY <1>2, <1>3, <2>3, <2>4, <2>5, <2>8
<1>9. CASE /\ AddOwn(t) /\ th[t].pc = "fill" /\ th'[t].pc = "fill"
           /\ th'[t].pending = th[t].pending /\ th'[t].filled = th[t].filled + 1
  <2>1. Count(v)' <= Count(v) + 1 BY <1>4, CountMoves
  <2>2. Count(v) <= Peers(v) + th[t].filled BY <1>3, <1>9 DEF ListsCounted
  <2>3. /\ Len(th[t].pending) <= Cardinality(AtLevel(ptLevel))
        /\ \A i, j \in DOMAIN th[t].pending : th[t].pending[i] = th[t].pending[j] => i = j
    BY <1>9 DEF ListsCounted
  <2>4. Count(v)' <= Peers(v) + th'[t].filled BY <1>4, <1>5, <1>9, <2>1, <2>2
  <2> QED BY <1>2, <1>3, <1>9, <2>3, <2>4
<1>10. CASE /\ th[t].pc \in {"fill", "lockother"} /\ th'[t].pc \in {"lockother", "add"}
            /\ th'[t].pending = th[t].pending
  BY <1>10 DEF ListsCounted
<1>11. CASE /\ th[t].pc = "add" /\ th'[t].pc = "lockother"
            /\ th'[t].pending = Tail(th[t].pending)
  <2>1. \A i, j \in DOMAIN th[t].pending : th[t].pending[i] = th[t].pending[j] => i = j
    BY <1>11 DEF ListsCounted
  <2>2. th[t].pending # <<>> BY <1>11, ThreadFacts DEF ThreadOnItsWay
  <2>3. \A i \in DOMAIN Tail(th[t].pending) :
           /\ i \in Nat /\ i + 1 \in DOMAIN th[t].pending
           /\ Tail(th[t].pending)[i] = th[t].pending[i + 1]
    BY <1>5, <2>2
  <2> QED BY <1>11, <2>1, <2>3
<1> QED BY <1>8, <1>9, <1>10, <1>11, LinkMoves

\* A thread that waits while others work keeps what is known of its list.
LEMMA WaitingCount ==
    ASSUME BuildTyped, OneInserts, ListsCounted, [Next]_vars, BuildTyped',
           NEW u \in Threads, th'[u] = th[u], ~AddOwn(u), ptLevel' = ptLevel
    PROVE  /\ \A v \in Vectors : th'[u].pt = v =>
                /\ th'[u].pc \in Descending => Count(v)' <= Peers(v)
                /\ th'[u].pc = "fill" => Count(v)' <= Peers(v) + th'[u].filled
           /\ th'[u].pc = "fill" => Len(th'[u].pending) <= Cardinality(AtLevel(ptLevel))
           /\ th'[u].pc \in {"fill", "lockother", "add"} =>
                \A i, j \in DOMAIN th'[u].pending :
                    th'[u].pending[i] = th'[u].pending[j] => i = j
<1>1. ASSUME NEW v \in Vectors, th[u].pt = v
      PROVE  /\ th[u].pc \in Descending => Count(v)' <= Peers(v)
             /\ th[u].pc = "fill" => Count(v)' <= Peers(v) + th[u].filled
  <2>1. Count(v) \in Nat /\ Count(v)' \in Nat /\ Peers(v) \in Nat
    BY CountType, CountTypeNext
  <2>2. th[u].filled \in Nat BY DEF BuildTyped, TypeOK, ThreadType
  <2>3. /\ th[u].pc \in Descending => Count(v) <= Peers(v)
        /\ th[u].pc = "fill" => Count(v) <= Peers(v) + th[u].filled
    BY <1>1 DEF ListsCounted
  <2>4. th[u].pc # "idle" => Count(v)' <= Count(v) BY <1>1, OthersCount
  <2>5. th[u].pc \in Descending => th[u].pc # "idle" BY DEF Descending
  <2> QED BY <2>1, <2>2, <2>3, <2>4, <2>5
<1>2. /\ th[u].pc = "fill" => Len(th[u].pending) <= Cardinality(AtLevel(ptLevel))
      /\ th[u].pc \in {"fill", "lockother", "add"} =>
            \A i, j \in DOMAIN th[u].pending : th[u].pending[i] = th[u].pending[j] => i = j
  BY DEF ListsCounted
<1> QED BY <1>1, <1>2

\* What every thread knows of its list after a step.
LEMMA ThreadsCountedNext ==
    ASSUME BuildTyped, OneInserts, ListsCounted, [Next]_vars, BuildTyped',
           NEW u \in Threads
    PROVE  /\ \A v \in Vectors : th'[u].pt = v =>
                /\ th'[u].pc \in Descending => Count(v)' <= Peers(v)
                /\ th'[u].pc = "fill" => Count(v)' <= Peers(v) + th'[u].filled
           /\ th'[u].pc = "fill" => Len(th'[u].pending) <= Cardinality(AtLevel(ptLevel'))
           /\ th'[u].pc \in {"fill", "lockother", "add"} =>
                \A i, j \in DOMAIN th'[u].pending :
                    th'[u].pending[i] = th'[u].pending[j] => i = j
<1>1. CASE Insert(u)
  <2>1. ptLevel' = ptLevel BY <1>1, ThreadsMove
  <2>2. ASSUME NEW v \in Vectors, th'[u].pt = v, th'[u].pc \in Descending
        PROVE  Count(v)' <= Peers(v)
    <3>1. th[u].pc \in Descending \cup {"lock"} /\ th[u].pt = v
      BY <1>1, <2>2, DescendingBefore
    <3>2. ~AddOwn(u) /\ th[u].pc # "idle" BY <3>1 DEF AddOwn, Descending
    <3>3. Count(v)' <= Count(v) BY <3>1, <3>2, OthersCount
    <3>4. Count(v) <= Peers(v) BY <3>1, FreshCount
    <3> QED BY <3>3, <3>4, CountType, CountTypeNext
  <2>3. CASE th'[u].pc \in {"fill", "lockother", "add"}
    <3>1. th'[u].pc \notin Descending BY <2>3 DEF Descending
    <3> QED BY <1>1, <2>1, <2>3, <3>1, FillNext
  <2>4. CASE th'[u].pc \notin {"fill", "lockother", "add"} BY <2>2, <2>4
  <2> QED BY <2>3, <2>4
<1>2. CASE ~Insert(u)
  <2>1. ~AddOwn(u) BY <1>2 DEF Insert
  <2>2. th'[u] = th[u] /\ (ptLevel' = ptLevel \/ th[u].pc = "idle")
    <3>1. ASSUME NEW t \in Threads, Insert(t) PROVE th'[u] = th[u] /\ ptLevel' = ptLevel
      BY <1>2, <3>1, ThreadsMove
    <3>2. CASE Main BY <3>2, MainMoves
    <3> QED BY <3>1, <3>2 DEF Next, Done, vars
  <2>3. CASE ptLevel' = ptLevel BY <2>1, <2>2, <2>3, WaitingCount
  <2>4. CASE th[u].pc = "idle" BY <2>2, <2>4 DEF Descending
  <2> QED BY <2>2, <2>3, <2>4
<1> QED BY <1>1, <1>2

\* Every step keeps the counts.
LEMMA CountedNext ==
    BuildTyped /\ OneInserts /\ ListsCounted /\ [Next]_vars /\ BuildTyped' => ListsCounted'
<1> SUFFICES ASSUME BuildTyped, OneInserts, ListsCounted, [Next]_vars, BuildTyped'
             PROVE  ListsCounted'
  OBVIOUS
<1>1. ASSUME NEW v \in Vectors, Unknown(v)' PROVE Count(v)' <= Peers(v)
  <2>1. Unknown(v) BY <1>1, UnknownBefore
  <2>2. ASSUME NEW t \in Threads, AddOwn(t), th[t].pt = v PROVE FALSE
    <3>1. th[t].pc \notin {"idle", "lock"} BY <2>2 DEF AddOwn
    <3> QED BY <2>1, <2>2, <3>1, InsertedIsKnown
  <2>3. Count(v)' <= Count(v) BY <2>2, CountMoves
  <2>4. Count(v) <= Peers(v) BY <2>1 DEF ListsCounted
  <2> QED BY <2>3, <2>4, CountType, CountTypeNext
<1>2. ASSUME NEW v \in Vectors PROVE Count(v)' <= 2 * Peers(v)
  <2>1. Count(v) <= 2 * Peers(v) BY DEF ListsCounted
  <2>2. Count(v) \in Nat /\ Count(v)' \in Nat /\ Peers(v) \in Nat BY CountType, CountTypeNext
  <2>3. ASSUME NEW t \in Threads, AddOwn(t), th[t].pt = v, Count(v)' <= Count(v) + 1
        PROVE  Count(v)' <= 2 * Peers(v)
    <3>1. th[t].pc = "fill" /\ th[t].filled < Len(th[t].pending) BY <2>3 DEF AddOwn
    <3>2. Count(v) <= Peers(v) + th[t].filled /\ Len(th[t].pending) <= Peers(v)
      <4>1. Level[v] = ptLevel BY <2>3, <3>1, ThreadFacts
      <4> QED BY <2>3, <3>1, <4>1 DEF ListsCounted, Peers
    <3>3. th[t].filled \in Nat /\ Len(th[t].pending) \in Nat
      BY LenProperties DEF BuildTyped, TypeOK, ThreadType
    <3> QED BY <2>2, <2>3, <3>1, <3>2, <3>3
  <2> QED BY <2>1, <2>2, <2>3, CountMoves
<1>3. \A v \in Vectors : Peers(v)' = Peers(v) /\ AtLevel(ptLevel)' = AtLevel(ptLevel')
  BY DEF Peers, AtLevel
<1> QED BY <1>1, <1>2, <1>3, ThreadsCountedNext DEF ListsCounted

\* A list has at most one link from, and one to, each vector of its level: whatever the
\* threads do, none gets longer than twice its level (add_links_level_starting_from).
THEOREM CountInvariant == Spec => []ListsCounted
<1>1. Init => ListsCounted BY InitCounted
<1>2. BuildTyped /\ FreshInv /\ ListsCounted /\ [Next]_vars /\ BuildTyped' => ListsCounted'
  BY CountedNext DEF FreshInv
<1> QED BY <1>1, <1>2, BuildInvariant, FreshInvariant, PTL DEF Spec
--------------------------------------------------------------------------------
(***************************************************************************)
(* One thread, slots to spare: nothing is lost from a level.               *)
(***************************************************************************)
\* No list is ever shortened: it has a slot for every link it may get.
SlotsToSpare == \A l \in LevelsOf : 2 * Cardinality(AtLevel(l)) <= NbNeighbor(l)

\* The vector can be reached from the first entry of the level.
LinkedAt(l, v) == \E e \in Vectors : first[l] = e /\ v \in Reach(e)

\* The vector can be reached from the first entry of the level under way.
Linked(v) == \E e \in Vectors : first[ptLevel] = e /\ v \in Reach(e)

\* The thread has read the cross link above its own vector.
PastCross(t) ==
    \/ th[t].pc \in {"first", "setfirst", "link", "read", "fill", "lockother", "add", "relock"}
    \/ th[t].pc = "hop" /\ th[t].lvl = ptLevel

\* What a thread on the level of its vector starts from, and what it links.
ReliesOn(t, v) ==
    \/ th[t].pc = "lock" /\ ptLevel = ML /\ th[t].nearest = v
    \/ th[t].pc \in {"hop", "read"} /\ th[t].lvl = ptLevel /\ th[t].nearest = v
    \/ th[t].pc \in {"link", "read"} /\ v \in th[t].met
    \/ th[t].pc = "update" /\ th[t].entry = v /\ v # NoVector
    \/ th[t].pc \in {"fill", "lockother", "add"} /\ v \in Range(th[t].pending)
    \/ th[t].pc = "relock" /\ th[t].pt = v

\* It can be reached, there is something to link, and no list is read while it changes.
StartsLinked(t) ==
    /\ \A v \in MaybeVector : ReliesOn(t, v) => Linked(v)
    /\ th[t].pc = "setfirst" => first[ptLevel] = NoVector
    /\ th[t].pc = "fill" => th[t].pending # <<>>
    /\ th[t].seen = {}

\* Every vector that was inserted can be reached from the first entry of its level.
ConnectedInv ==
    /\ \A l \in LevelsOf : l > ptLevel \/ stage = "done" => \A v \in AtLevel(l) : LinkedAt(l, v)
    /\ \A v \in AtLevel(ptLevel) :
          (stage = "insert" /\ v \in todo) \/ Linked(v) \/ \E t \in Threads : th[t].pc # "idle" /\ th[t].pt = v
    /\ stage = "insert" =>
          \A w \in AtLevel(ptLevel + 1), v \in Vectors : cross[w] = v =>
              Linked(v) \/ \E t \in Threads : PastCross(t) /\ th[t].pt = v
    /\ \A t \in Threads : StartsLinked(t)

--------------------------------------------------------------------------------
\* A vector can be reached from itself, and what it links to with it.
LEMMA ReachClosed ==
    ASSUME NEW e \in Vectors, nbrs \in [Vectors -> Seq(Vectors)]
    PROVE  /\ e \in Reach(e) /\ Reach(e) \subseteq Vectors
           /\ \A v \in Reach(e) : Range(nbrs[v]) \subseteq Reach(e)
<1>1. e \in Reach(e) /\ Reach(e) \subseteq Vectors BY DEF Reach
<1>2. ASSUME NEW v \in Reach(e), NEW w \in Range(nbrs[v]) PROVE w \in Reach(e)
  <2>1. v \in Vectors /\ w \in Vectors BY <1>1, <1>2, RangeOfSeq
  <2>2. ASSUME NEW S \in SUBSET Vectors, e \in S, \A x \in S : Range(nbrs[x]) \subseteq S
        PROVE  w \in S
    <3>1. v \in S BY <2>2 DEF Reach
    <3> QED BY <1>2, <2>2, <3>1
  <2> QED BY <2>1, <2>2 DEF Reach
<1> QED BY <1>1, <1>2

\* Longer lists reach further.
LEMMA ReachGrows ==
    ASSUME NEW e \in Vectors, \A x \in Vectors : Range(nbrs[x]) \subseteq Range(nbrs'[x])
    PROVE  \A w \in Reach(e) : w \in Reach(e)'
<1> SUFFICES ASSUME NEW w \in Reach(e),
                    NEW S \in SUBSET Vectors, e \in S, \A x \in S : Range(nbrs'[x]) \subseteq S
             PROVE  w \in S
  BY DEF Reach
<1>1. \A x \in S : Range(nbrs[x]) \subseteq S OBVIOUS
<1> QED BY <1>1 DEF Reach

\* A vector about to be linked back to may still be linked from.
LEMMA AddingMayLink ==
    ASSUME BuildTyped, NEW t \in Threads, th[t].pc = "add"
    PROVE  /\ Head(th[t].pending) \in Vectors /\ Level[Head(th[t].pending)] = ptLevel
           /\ Head(th[t].pending) \in Range(th[t].pending)
           /\ th[t].pt \in Linkers(Head(th[t].pending))
<1>1. /\ th[t] \in ThreadType /\ th[t].pt \in AtLevel(ptLevel)
      /\ Range(th[t].pending) \subseteq AtLevel(ptLevel) /\ th[t].pending # <<>>
      /\ th[t].pending \in Seq(Vectors)
  BY ThreadFacts DEF ThreadOnItsWay, ThreadType
<1>2. Head(th[t].pending) \in Range(th[t].pending) BY <1>1 DEF Range
<1>3. Head(th[t].pending) \in AtLevel(ptLevel) BY <1>1, <1>2
<1> QED BY <1>1, <1>2, <1>3 DEF Linkers, MayLink, AtLevel

\* With slots to spare every link finds one.
LEMMA LinkAppended ==
    ASSUME BuildTyped, ListsCounted, SlotsToSpare, NEW t \in Threads
    PROVE  /\ AddOwn(t) => \E dest \in Vectors :
                nbrs' = [nbrs EXCEPT ![th[t].pt] = Append(nbrs[th[t].pt], dest)]
           /\ AddBack(t) =>
                nbrs' = [nbrs EXCEPT ![Head(th[t].pending)] =
                            Append(nbrs[Head(th[t].pending)], th[t].pt)]
<1>1. nbrs \in [Vectors -> Seq(Vectors)] /\ th[t] \in ThreadType
  BY DEF BuildTyped, TypeOK
<1>2. ASSUME NEW v \in Vectors, Len(nbrs[v]) < 2 * Peers(v), NEW dest \in Vectors
      PROVE  AddLink(v, dest) = {Append(nbrs[v], dest)}
  <2>1. 2 * Peers(v) <= Capacity(v) BY LevelAssumption DEF SlotsToSpare, Peers, Capacity
  <2>2. Len(Append(nbrs[v], dest)) = Len(nbrs[v]) + 1 /\ Len(nbrs[v]) \in Nat
    BY <1>1, AppendProperties, LenProperties
  <2>3. Peers(v) \in Nat /\ Capacity(v) \in Nat BY LinkersType, CapacityType
  <2> DEFINE list == Append(nbrs[v], dest)
  <2>4. Len(list) <= Capacity(v) BY <1>2, <2>1, <2>2, <2>3
  <2> QED BY <2>4 DEF AddLink
<1>3. ASSUME AddOwn(t)
      PROVE  \E dest \in Vectors :
                nbrs' = [nbrs EXCEPT ![th[t].pt] = Append(nbrs[th[t].pt], dest)]
  <2> DEFINE dest == th[t].pending[th[t].filled + 1]
  <2>1. /\ th[t].pc = "fill" /\ th[t].filled < Len(th[t].pending)
        /\ th[t].pending \in Seq(Vectors) /\ th[t].filled \in Nat
        /\ Len(th[t].pending) \in Nat
    BY <1>1, <1>3, LenProperties DEF AddOwn, ThreadType
  <2>2. PICK v \in Vectors : th[t].pt = v /\ Level[v] = ptLevel BY <2>1, ThreadFacts
  <2>3. th[t].filled + 1 \in DOMAIN th[t].pending BY <2>1, LenProperties
  <2>4. dest \in Vectors BY <2>1, <2>3, LenProperties
  <2>5. /\ Count(v) <= Peers(v) + th[t].filled
        /\ Len(th[t].pending) <= Peers(v)
    BY <2>1, <2>2 DEF ListsCounted, Peers
  <2>6. Len(nbrs[v]) < 2 * Peers(v)
    <3>1. Len(nbrs[v]) \in Nat /\ Cardinality(Linkers(v)) \in Nat /\ Peers(v) \in Nat
      BY <1>1, LinkersType, LenProperties
    <3> QED BY <2>1, <2>5, <3>1 DEF Count
  <2>7. PICK list \in AddLink(th[t].pt, dest) : nbrs' = [nbrs EXCEPT ![th[t].pt] = list]
    BY <1>3 DEF AddOwn
  <2> HIDE DEF dest
  <2>8. AddLink(v, dest) = {Append(nbrs[v], dest)} BY <1>2, <2>4, <2>6
  <2> QED BY <2>2, <2>4, <2>7, <2>8
<1>4. ASSUME AddBack(t)
      PROVE  nbrs' = [nbrs EXCEPT ![Head(th[t].pending)] =
                          Append(nbrs[Head(th[t].pending)], th[t].pt)]
  <2>1. th[t].pc = "add" BY <1>4 DEF AddBack
  <2>2. PICK v \in Vectors : Head(th[t].pending) = v /\ th[t].pt \in Linkers(v)
    BY <2>1, AddingMayLink
  <2>3. PICK u \in Vectors : th[t].pt = u BY <2>1, ThreadFacts
  <2>4. Count(v) <= 2 * Peers(v) BY DEF ListsCounted
  <2>5. Cardinality(Linkers(v)) >= 1
    <3>1. IsFiniteSet(Linkers(v)) /\ Linkers(v) # {} BY <2>2, LinkersType
    <3> QED BY <3>1, FS_EmptySet, FS_CardinalityType
  <2>6. Len(nbrs[v]) < 2 * Peers(v)
    <3>1. Len(nbrs[v]) \in Nat /\ Cardinality(Linkers(v)) \in Nat /\ Peers(v) \in Nat
      BY <1>1, LinkersType, LenProperties
    <3> QED BY <2>4, <2>5, <3>1 DEF Count
  <2>7. PICK list \in AddLink(v, u) : nbrs' = [nbrs EXCEPT ![v] = list]
    BY <1>4, <2>2, <2>3 DEF AddBack
  <2>8. AddLink(v, u) = {Append(nbrs[v], u)} BY <1>2, <2>6
  <2> QED BY <2>2, <2>3, <2>7, <2>8
<1> QED BY <1>3, <1>4

\* What a list gets, when it gets something.
LEMMA AppendRange ==
    ASSUME NEW s \in Seq(Vectors), NEW d \in Vectors
    PROVE  Range(Append(s, d)) = Range(s) \cup {d}
<1>1. Append(s, d) = s \o <<d>> BY AppendIsConcat
<1>2. Range(<<d>>) = {d} BY DEF Range
<1>3. <<d>> \in Seq(Vectors) OBVIOUS
<1>4. Range(s \o <<d>>) = Range(s) \cup Range(<<d>>) BY <1>3, RangeConcatenation
<1> QED BY <1>1, <1>2, <1>4

\* No step takes a link away.
LEMMA LinksStay ==
    ASSUME BuildTyped, ListsCounted, SlotsToSpare, [Next]_vars
    PROVE  \A x \in Vectors : Range(nbrs[x]) \subseteq Range(nbrs'[x])
<1>1. nbrs \in [Vectors -> Seq(Vectors)] BY DEF BuildTyped, TypeOK
<1>2. ASSUME NEW src, NEW d \in Vectors, nbrs' = [nbrs EXCEPT ![src] = Append(nbrs[src], d)]
      PROVE  \A x \in Vectors : Range(nbrs[x]) \subseteq Range(nbrs'[x])
  <2> SUFFICES ASSUME NEW x \in Vectors PROVE Range(nbrs[x]) \subseteq Range(nbrs'[x])
    OBVIOUS
  <2>1. CASE x = src
    <3>1. nbrs'[x] = Append(nbrs[x], d) /\ nbrs[x] \in Seq(Vectors) BY <1>1, <1>2, <2>1
    <3>2. Range(Append(nbrs[x], d)) = Range(nbrs[x]) \cup {d} BY <3>1, AppendRange
    <3> QED BY <3>1, <3>2
  <2>2. CASE x # src BY <1>1, <1>2, <2>2
  <2> QED BY <2>1, <2>2
<1>3. CASE nbrs' = nbrs BY <1>3
<1>4. CASE nbrs' # nbrs
  <2>1. PICK t \in Threads : AddOwn(t) \/ AddBack(t)
    BY <1>4 DEF Next, vars, Done, Insert, Take, LockOwn, Look, Hop, ReadCross, SetCross, UpdateCross,
           GetFirst, SetFirst, Expand, ReadList, FindTargets, UnlockOwn, LockOther, Relock, Main,
           LevelInserted, RemainSkip, RemainStart, RemainHop, RemainSet, RemainDone
  <2>2. CASE AddOwn(t)
    <3>1. PICK d \in Vectors : nbrs' = [nbrs EXCEPT ![th[t].pt] = Append(nbrs[th[t].pt], d)]
      BY <2>2, LinkAppended
    <3> QED BY <1>2, <3>1
  <2>3. CASE AddBack(t)
    <3>1. /\ nbrs' = [nbrs EXCEPT ![Head(th[t].pending)] =
                          Append(nbrs[Head(th[t].pending)], th[t].pt)]
          /\ th[t].pt \in Vectors
      BY <2>3, LinkAppended, ThreadFacts DEF AddBack
    <3> QED BY <1>2, <3>1
  <2> QED BY <2>1, <2>2, <2>3
<1> QED BY <1>3, <1>4
\* A first entry that is set stays, if no thread sets it a second time.
LEMMA FirstStays ==
    ASSUME BuildTyped, [Next]_vars, NEW l \in LevelsOf, first[l] # NoVector,
           \A t \in Threads : th[t].pc = "setfirst" => first[ptLevel] = NoVector
    PROVE  first'[l] = first[l]
<1>1. first \in [LevelsOf -> MaybeVector] BY DEF BuildTyped, TypeOK
<1>2. ASSUME NEW t \in Threads, Take(t) PROVE first'[l] = first[l]
  <2>1. PICK pt \in todo :
          \E e \in IF first[ML] = NoVector THEN AtLevel(ML) ELSE {first[ML]} :
              first' = [first EXCEPT ![ML] = e]
    BY <1>2 DEF Take
  <2> QED BY <1>1, <2>1
<1>3. ASSUME NEW t \in Threads, SetFirst(t) PROVE first'[l] = first[l]
  <2>1. th[t].pc = "setfirst" BY <1>3 DEF SetFirst
  <2>2. Level[th[t].pt] = ptLevel BY <2>1, ThreadFacts
  <2>3. first' = [first EXCEPT ![ptLevel] = th[t].pt] BY <1>3, <2>2 DEF SetFirst
  <2> QED BY <1>1, <2>1, <2>3
<1>4. CASE RemainStart
  <2>1. \E e \in IF first[ptLevel] = NoVector THEN AtLevel(ML) ELSE {first[ptLevel]} :
            first' = [first EXCEPT ![ptLevel] = e]
    BY <1>4 DEF RemainStart
  <2> QED BY <1>1, <2>1
<1> QED
  BY <1>2, <1>3, <1>4
     DEF Next, vars, Done, Insert, LockOwn, Look, Hop, ReadCross, SetCross, UpdateCross,
         GetFirst, Expand, ReadList, FindTargets, AddOwn, UnlockOwn, LockOther, AddBack, Relock,
         Main, LevelInserted, RemainSkip, RemainHop, RemainSet, RemainDone

\* What was linked stays linked.
LEMMA LinkedStays ==
    ASSUME BuildTyped, ListsCounted, SlotsToSpare, [Next]_vars,
           \A t \in Threads : th[t].pc = "setfirst" => first[ptLevel] = NoVector
    PROVE  /\ \A l \in LevelsOf : \A v : LinkedAt(l, v) => LinkedAt(l, v)'
           /\ ptLevel' = ptLevel => \A v : Linked(v) => Linked(v)'
<1>1. /\ NoVector \notin Vectors /\ ptLevel \in LevelsOf
  BY VectorsAssumption DEF BuildTyped, TypeOK
<1>2. ASSUME NEW l \in LevelsOf, NEW v, NEW e \in Vectors, first[l] = e, v \in Reach(e)
      PROVE  first'[l] = e /\ v \in Reach(e)'
  <2>1. first'[l] = e BY <1>1, <1>2, FirstStays
  <2>2. v \in Reach(e)' BY <1>2, LinksStay, ReachGrows
  <2> QED BY <2>1, <2>2
<1>3. ASSUME NEW l \in LevelsOf, NEW v, LinkedAt(l, v) PROVE LinkedAt(l, v)'
  BY <1>2, <1>3 DEF LinkedAt
<1>4. ASSUME ptLevel' = ptLevel, NEW v, Linked(v) PROVE Linked(v)'
  BY <1>1, <1>2, <1>4 DEF Linked
<1> QED BY <1>3, <1>4

\* Whatever a linked vector leads to is linked.
LEMMA LinkedOn ==
    ASSUME nbrs \in [Vectors -> Seq(Vectors)], NEW v, Linked(v)
    PROVE  /\ v \in Vectors
           /\ \A w \in Range(nbrs[v]) : Linked(w)
<1>1. PICK e \in Vectors : first[ptLevel] = e /\ v \in Reach(e) BY DEF Linked
<1>2. v \in Vectors BY <1>1, ReachClosed
<1>3. \A w \in Range(nbrs[v]) : w \in Reach(e) BY <1>1, ReachClosed
<1> QED BY <1>1, <1>2, <1>3 DEF Linked

\* A first entry is linked.
LEMMA FirstLinked ==
    ASSUME BuildTyped, first[ptLevel] # NoVector PROVE Linked(first[ptLevel])
<1>1. first[ptLevel] \in Vectors /\ nbrs \in [Vectors -> Seq(Vectors)]
  BY DEF BuildTyped, TypeOK, MaybeVector
<1> QED BY <1>1, ReachClosed DEF Linked

LEMMA FirstLinkedNext ==
    BuildTyped' => \A e \in Vectors : first'[ptLevel'] = e => Linked(e)'
<1>1. BuildTyped => \A e \in Vectors : first[ptLevel] = e => Linked(e)
  BY FirstLinked, VectorsAssumption
<1>2. BuildTyped' => (\A e \in Vectors : first[ptLevel] = e => Linked(e))'
  BY <1>1, PTL
<1> QED BY <1>2

LEMMA LinkedOnNext ==
    BuildTyped' => \A v : Linked(v)' => v \in Vectors /\ \A w \in Range(nbrs'[v]) : Linked(w)'
<1>1. BuildTyped => \A v : Linked(v) => v \in Vectors /\ \A w \in Range(nbrs[v]) : Linked(w)
  BY LinkedOn DEF BuildTyped, TypeOK
<1>2. BuildTyped' => (\A v : Linked(v) => v \in Vectors /\ \A w \in Range(nbrs[v]) : Linked(w))'
  BY <1>1, PTL
<1> QED BY <1>2

\* The search finds at least where it starts, and a vector links to at least one of
\* those found.
LEMMA TargetsFound ==
    ASSUME NEW met \in SUBSET Vectors, met # {}, NEW q \in Vectors,
           NEW found \in Results(met, q), NEW targets \in LinkTargets(found, q)
    PROVE  targets # {} /\ targets \subseteq met
<1>2. IsFiniteSet(met) /\ Cardinality(met) \in Nat /\ Cardinality(met) # 0
  BY VectorsAssumption, FS_Subset, FS_CardinalityType, FS_EmptySet
<1>3. /\ found \in SUBSET met
      /\ Cardinality(found) = SmallerOf(EfConstruction, Cardinality(met))
  BY DEF Results
<1>4. Cardinality(found) # 0 BY <1>2, <1>3, SizeAssumption DEF SmallerOf
<1>5. found # {} BY <1>4, FS_EmptySet
<1>6. NbNeighbor(Level[q]) # 0
  BY SizeAssumption, LevelAssumption DEF NbNeighbor, LevelsOf
<1>7. targets # {}
  <2>1. CASE Cardinality(found) < NbNeighbor(Level[q])
    <3>1. targets = found BY <2>1 DEF LinkTargets
    <3> QED BY <1>5, <3>1
  <2>2. CASE ~(Cardinality(found) < NbNeighbor(Level[q]))
    <3>1. targets \in Shrinks(found, q, NbNeighbor(Level[q])) BY <2>2 DEF LinkTargets
    <3>2. ASSUME targets = {} PROVE FALSE
      <4>1. Cardinality(targets) # NbNeighbor(Level[q]) BY <1>6, <3>2, FS_EmptySet
      <4> QED BY <1>5, <3>1, <3>2, <4>1 DEF Shrinks
    <3> QED BY <3>2
  <2> QED BY <2>1, <2>2
<1> QED BY <1>3, <1>7, LinkTargetsSubset
--------------------------------------------------------------------------------
\* A step that lets a thread rely on nothing new.
LEMMA ReliesKept ==
    ASSUME NEW t \in Threads, StartsLinked(t),
           \A v : Linked(v) => Linked(v)',
           \A v \in MaybeVector : ReliesOn(t, v)' => ReliesOn(t, v) \/ Linked(v) \/ Linked(v)',
           th'[t].pc # "setfirst", th'[t].seen = {},
           th'[t].pc = "fill" => th'[t].pending # <<>>
    PROVE  StartsLinked(t)'
BY DEF StartsLinked, MaybeVector

\* One thread alone never reads a list that is being written.
LEMMA AloneReads ==
    ASSUME NEW t \in Threads, Threads = {t}, th[t].pc \in {"hop", "read"}, th[t].seen = {}
    PROVE  /\ ~Look(t)
           /\ Views(t, th[t].nearest) = {Range(nbrs[th[t].nearest])}
<1>1. BeingAdded(th[t].nearest) = {} BY DEF BeingAdded
<1> QED BY <1>1 DEF Look, Views

\* A step of the one thread leaves it with nothing seen of a list that changes.
LEMMA AloneSees ==
    ASSUME BuildTyped, NEW t \in Threads, Threads = {t}, Insert(t), th[t].seen = {}
    PROVE  th'[t].seen = {}
<1>1. th \in [Threads -> ThreadType] /\ th[t] \in ThreadType BY DEF BuildTyped, TypeOK
<1>2. CASE Take(t) BY <1>2, TakeFacts
<1>3. ~Look(t) BY AloneReads DEF Look
<1>4. CASE Hop(t) BY <1>4, HopMoves
<1>5. CASE Expand(t) \/ ReadList(t) BY <1>3, <1>5, SearchMoves
<1>6. CASE FindTargets(t) BY <1>6, TargetMoves
<1>7. CASE LockOwn(t) \/ SetCross(t) \/ UpdateCross(t) \/ SetFirst(t)
  BY <1>1, <1>7 DEF LockOwn, SetCross, UpdateCross, SetFirst, ThreadType
<1>8. CASE ReadCross(t) BY <1>1, <1>8 DEF ReadCross, ThreadType
<1>9. CASE GetFirst(t) BY <1>1, <1>9 DEF GetFirst, ThreadType
<1>10. CASE AddOwn(t) BY <1>1, <1>10 DEF AddOwn, ThreadType
<1>11. CASE UnlockOwn(t) \/ LockOther(t)
  BY <1>1, <1>11 DEF UnlockOwn, LockOther, ThreadType
<1>12. CASE AddBack(t) BY <1>1, <1>12 DEF AddBack, ThreadType
<1>13. CASE Relock(t) BY <1>1, <1>13, IdleType DEF Relock
<1> QED
  BY <1>2, <1>3, <1>4, <1>5, <1>6, <1>7, <1>8, <1>9, <1>10, <1>11, <1>12, <1>13 DEF Insert

\* A step of the thread leaves it with linked vectors only.
LEMMA StartsLinkedNext ==
    ASSUME BuildTyped, ListsCounted, SlotsToSpare, ConnectedInv, BuildTyped', [Next]_vars,
           NEW t \in Threads, Threads = {t}, Insert(t)
    PROVE  StartsLinked(t)'
<1>1. /\ th \in [Threads -> ThreadType] /\ th[t] \in ThreadType
      /\ nbrs \in [Vectors -> Seq(Vectors)] /\ first \in [LevelsOf -> MaybeVector]
      /\ ptLevel \in LevelsOf /\ ML \in LevelsOf /\ ptLevel \in Nat
  BY SizeAssumption DEF BuildTyped, TypeOK, LevelsOf
<1>2. StartsLinked(t) BY DEF ConnectedInv
<1>3. ptLevel' = ptLevel BY ThreadsMove
<1>4. \A v : Linked(v) => Linked(v)'
  <2>1. \A u \in Threads : th[u].pc = "setfirst" => first[ptLevel] = NoVector
    BY DEF ConnectedInv, StartsLinked
  <2> QED BY <1>3, <2>1, LinkedStays
<1>5. th[t].pc # "idle" => th[t].pt \in Vectors /\ Level[th[t].pt] = ptLevel /\ ThreadOnItsWay(t)
  BY ThreadFacts
<1>22. th[t].seen = {} /\ th'[t].seen = {} BY <1>2, AloneSees DEF StartsLinked
<1>6. ASSUME \A v \in MaybeVector : ReliesOn(t, v)' => ReliesOn(t, v) \/ Linked(v) \/ Linked(v)',
             th'[t].pc # "setfirst",
             th'[t].pc = "fill" => th'[t].pending # <<>>
      PROVE  StartsLinked(t)'
  BY <1>2, <1>4, <1>6, <1>22, ReliesKept
<1>7. \A v \in MaybeVector : ReliesOn(t, v) => Linked(v) BY <1>2 DEF StartsLinked
<1>8. CASE Take(t)
  <2>1. PICK pt \in todo :
          \E e \in IF first[ML] = NoVector THEN AtLevel(ML) ELSE {first[ML]} :
              /\ first' = [first EXCEPT ![ML] = e]
              /\ th' = [th EXCEPT ![t] = [Idle EXCEPT !.pc = "lock", !.pt = pt, !.nearest = e]]
    BY <1>8 DEF Take
  <2>2. PICK e \in IF first[ML] = NoVector THEN AtLevel(ML) ELSE {first[ML]} :
              /\ first' = [first EXCEPT ![ML] = e]
              /\ th' = [th EXCEPT ![t] = [Idle EXCEPT !.pc = "lock", !.pt = pt, !.nearest = e]]
    BY <2>1
  <2>3. e \in Vectors
    BY <1>1, VectorsAssumption DEF BuildTyped, BuildInv, EntryAtLevel, AtLevel, MaybeVector
  <2>4. th'[t] = [Idle EXCEPT !.pc = "lock", !.pt = pt, !.nearest = e] BY <1>1, <2>2
  <2>5. th'[t].pc = "lock" /\ th'[t].nearest = e BY <2>4 DEF Idle
  <2>6. first'[ML] = e BY <1>1, <2>2
  <2>7. ptLevel = ML => Linked(e)' BY <1>3, <2>3, <2>6, FirstLinkedNext
  <2>8. \A v \in MaybeVector : ReliesOn(t, v)' => ptLevel = ML /\ v = e
    BY <1>3, <2>5 DEF ReliesOn
  <2> QED BY <1>6, <2>5, <2>7, <2>8
<1>9. CASE LockOwn(t)
  <2>1. /\ th[t].pc = "lock" /\ th'[t].pc = "hop" /\ th'[t].lvl = ML
        /\ th'[t].nearest = th[t].nearest
    BY <1>1, <1>9 DEF LockOwn, ThreadType
  <2>2. \A v \in MaybeVector : ReliesOn(t, v)' => ReliesOn(t, v)
    BY <1>3, <2>1 DEF ReliesOn
  <2> QED BY <1>6, <2>1, <2>2
<1>10. CASE Hop(t)
  <2>1. /\ th[t].pc = "hop" /\ th'[t].lvl = th[t].lvl /\ th'[t].pt = th[t].pt
        /\ Level[th[t].pt] = ptLevel
    BY <1>5, <1>10, HopMoves
  <2>2. Views(t, th[t].nearest) = {Range(nbrs[th[t].nearest])}
    BY <1>22, <2>1, AloneReads
  <2>3. \/ /\ th'[t].pc = "hop"
           /\ th'[t].nearest \in Closer(th[t].pt, th[t].nearest, Range(nbrs[th[t].nearest]))
        \/ th'[t].nearest = th[t].nearest /\ th'[t].pc = "cross"
        \/ /\ th[t].lvl = ptLevel /\ th'[t].pc = "link"
           /\ th'[t].met = {th[t].nearest}
    BY <1>10, <2>1, <2>2, HopMoves
  <2>4. CASE /\ th'[t].pc = "hop"
             /\ th'[t].nearest \in Closer(th[t].pt, th[t].nearest, Range(nbrs[th[t].nearest]))
    <3>1. th'[t].nearest \in Range(nbrs[th[t].nearest]) BY <2>4 DEF Closer
    <3>2. th[t].lvl = ptLevel => Linked(th'[t].nearest)
      <4>1. ASSUME th[t].lvl = ptLevel PROVE Linked(th'[t].nearest)
        <5>1. PICK v \in MaybeVector : th[t].nearest = v BY <1>1 DEF ThreadType
        <5>2. Linked(v) BY <1>7, <2>1, <4>1, <5>1 DEF ReliesOn
        <5>3. \A x \in Range(nbrs[v]) : Linked(x) BY <1>1, <5>2, LinkedOn
        <5> QED BY <3>1, <5>1, <5>3
      <4> QED BY <4>1
    <3>3. \A v \in MaybeVector : ReliesOn(t, v)' => th[t].lvl = ptLevel /\ v = th'[t].nearest
      BY <1>3, <2>1, <2>4 DEF ReliesOn
    <3> QED BY <1>6, <2>4, <3>2, <3>3
  <2>5. CASE th'[t].nearest = th[t].nearest /\ th'[t].pc = "cross"
    <3>1. \A v \in MaybeVector : ~ReliesOn(t, v)' BY <2>5 DEF ReliesOn
    <3> QED BY <1>6, <2>5, <3>1
  <2>6. CASE /\ th[t].lvl = ptLevel /\ th'[t].pc = "link"
             /\ th'[t].met = {th[t].nearest}
    <3>1. \A v \in MaybeVector : ReliesOn(t, v)' => v = th[t].nearest
      BY <2>6 DEF ReliesOn
    <3>2. \A v \in MaybeVector : ReliesOn(t, v)' => ReliesOn(t, v)
      BY <2>1, <2>6, <3>1 DEF ReliesOn
    <3> QED BY <1>6, <2>6, <3>2
  <2> QED BY <2>3, <2>4, <2>5, <2>6
<1>23. CASE Expand(t) \/ ReadList(t)
  <2>1. \/ /\ th[t].pc = "link" /\ th'[t].pc = "read" /\ th'[t].nearest \in th[t].met
           /\ th'[t].met = th[t].met
        \/ /\ th[t].pc = "read" /\ th'[t].pc = "link" /\ th[t].lvl = ptLevel
           /\ \E view \in Views(t, th[t].nearest) : th'[t].met = th[t].met \cup view
    <3>1. ~Look(t) BY <1>22, AloneReads DEF Look
    <3>2. th[t].pc = "read" => th[t].lvl = ptLevel BY <1>5 DEF ThreadOnItsWay
    <3> QED BY <1>23, <3>1, <3>2, SearchMoves
  <2>2. CASE /\ th[t].pc = "link" /\ th'[t].pc = "read" /\ th'[t].nearest \in th[t].met
             /\ th'[t].met = th[t].met
    <3>1. \A v \in MaybeVector : ReliesOn(t, v)' => ReliesOn(t, v) BY <2>2 DEF ReliesOn
    <3> QED BY <1>6, <2>2, <3>1
  <2>3. CASE /\ th[t].pc = "read" /\ th'[t].pc = "link" /\ th[t].lvl = ptLevel
             /\ \E view \in Views(t, th[t].nearest) : th'[t].met = th[t].met \cup view
    <3>1. PICK n \in MaybeVector : th[t].nearest = n BY <1>1 DEF ThreadType
    <3>2. th'[t].met = th[t].met \cup Range(nbrs[n])
      BY <1>22, <2>3, <3>1, AloneReads
    <3>3. Linked(n) BY <1>7, <2>3, <3>1 DEF ReliesOn
    <3>4. \A x \in Range(nbrs[n]) : Linked(x) BY <1>1, <3>3, LinkedOn
    <3>5. \A v \in MaybeVector : ReliesOn(t, v)' => ReliesOn(t, v) \/ v \in Range(nbrs[n])
      BY <2>3, <3>2 DEF ReliesOn
    <3> QED BY <1>6, <2>3, <3>4, <3>5
  <2> QED BY <2>1, <2>2, <2>3
<1>11. CASE ReadCross(t)
  <2>1. /\ th[t].pc = "cross"
        /\ IF th[t].lvl = Level[th[t].pt] + 1
           THEN th' = [th EXCEPT ![t].pc = "update", ![t].entry = cross[th[t].nearest]]
           ELSE th' = [th EXCEPT ![t].pc = "hop", ![t].nearest = cross[th[t].nearest],
                                 ![t].lvl = th[t].lvl - 1]
    BY <1>11 DEF ReadCross
  <2>2. Level[th[t].pt] = ptLevel /\ th[t].lvl \in Nat /\ th[t].nearest \in AtLevel(th[t].lvl)
    BY <1>1, <1>5, <2>1, SizeAssumption DEF ThreadOnItsWay, ThreadType, LevelsOf
  <2>3. CASE th[t].lvl = ptLevel + 1
    <3>1. /\ th'[t].pc = "update" /\ th'[t].entry = cross[th[t].nearest]
      BY <1>1, <2>1, <2>2, <2>3 DEF ThreadType
    <3>2. ~PastCross(t) BY <2>1 DEF PastCross
    <3>3. stage = "insert" BY <2>1, ThreadFacts
    <3>4. \A v \in Vectors : cross[th[t].nearest] = v => Linked(v)
      BY <2>2, <2>3, <3>2, <3>3 DEF ConnectedInv
    <3>5. \A v \in MaybeVector : ReliesOn(t, v)' => v \in Vectors /\ cross[th[t].nearest] = v
      BY <3>1 DEF ReliesOn, MaybeVector
    <3> QED BY <1>6, <3>1, <3>4, <3>5
  <2>4. CASE th[t].lvl # ptLevel + 1
    <3>1. /\ th'[t].pc = "hop" /\ th'[t].lvl = th[t].lvl - 1
      BY <1>1, <2>1, <2>2, <2>4 DEF ThreadType
    <3>2. \A v \in MaybeVector : ~ReliesOn(t, v)'
      BY <1>1, <1>3, <2>2, <2>4, <3>1 DEF ReliesOn
    <3> QED BY <1>6, <3>1, <3>2
  <2> QED BY <2>3, <2>4
<1>12. CASE SetCross(t)
  <2>1. th'[t].pc = "first" BY <1>1, <1>12 DEF SetCross, ThreadType
  <2>2. \A v \in MaybeVector : ~ReliesOn(t, v)' BY <2>1 DEF ReliesOn
  <2> QED BY <1>6, <2>1, <2>2
<1>13. CASE UpdateCross(t)
  <2>1. /\ th[t].pc = "update" /\ th[t].entry # NoVector
        /\ th'[t].pc = "hop" /\ th'[t].nearest = th[t].entry
    BY <1>1, <1>13 DEF UpdateCross, ThreadType
  <2>2. \A v \in MaybeVector : ReliesOn(t, v)' => ReliesOn(t, v)
    BY <2>1 DEF ReliesOn
  <2> QED BY <1>6, <2>1, <2>2
<1>14. CASE GetFirst(t)
  <2>1. /\ th[t].pc = "first" /\ first' = first
        /\ IF first[Level[th[t].pt]] = NoVector
           THEN th' = [th EXCEPT ![t].pc = "setfirst"]
           ELSE th' = [th EXCEPT ![t].pc = "hop", ![t].nearest = first[Level[th[t].pt]],
                                 ![t].lvl = th[t].lvl - 1]
    BY <1>14 DEF GetFirst
  <2>2. Level[th[t].pt] = ptLevel BY <1>5, <2>1
  <2>3. CASE first[ptLevel] = NoVector
    <3>1. th'[t].pc = "setfirst" BY <1>1, <2>1, <2>2, <2>3 DEF ThreadType
    <3>2. \A v \in MaybeVector : ~ReliesOn(t, v)' BY <3>1 DEF ReliesOn
    <3> QED BY <1>3, <1>22, <2>1, <2>3, <3>1, <3>2 DEF StartsLinked
  <2>4. CASE first[ptLevel] # NoVector
    <3>1. th'[t].pc = "hop" /\ th'[t].nearest = first[ptLevel]
      BY <1>1, <2>1, <2>2, <2>4 DEF ThreadType
    <3>2. Linked(first[ptLevel]) BY <2>4, FirstLinked
    <3>3. \A v \in MaybeVector : ReliesOn(t, v)' => v = first[ptLevel]
      BY <3>1 DEF ReliesOn
    <3> QED BY <1>6, <3>1, <3>2, <3>3
  <2> QED BY <2>3, <2>4
<1>15. CASE SetFirst(t)
  <2>1. /\ th[t].pc = "setfirst" /\ first' = [first EXCEPT ![Level[th[t].pt]] = th[t].pt]
        /\ th'[t].pc = "hop" /\ th'[t].nearest = th[t].pt
    BY <1>1, <1>15 DEF SetFirst, ThreadType
  <2>2. PICK pt \in Vectors : th[t].pt = pt /\ Level[pt] = ptLevel BY <1>5, <2>1
  <2>3. first'[ptLevel'] = pt BY <1>1, <1>3, <2>1, <2>2
  <2>4. Linked(pt)' BY <2>3, FirstLinkedNext
  <2>5. \A v \in MaybeVector : ReliesOn(t, v)' => v = pt BY <2>1, <2>2 DEF ReliesOn
  <2> QED BY <1>6, <2>1, <2>4, <2>5
<1>16. CASE FindTargets(t)
  <2>1. th[t].pc = "link" /\ th[t].pt \in Vectors /\ th[t].met # {} /\ th[t].met \in SUBSET Vectors
    BY <1>1, <1>5, <1>16, TargetMoves DEF ThreadOnItsWay, ThreadType
  <2>2. th'[t].pc = "fill" BY <1>16, TargetMoves
  <2>3. PICK found \in Results(th[t].met, th[t].pt) :
          \E targets \in LinkTargets(found, th[t].pt) :
             th'[t].pending \in FarthestFirst(targets, th[t].pt)
    BY <1>16, TargetMoves
  <2>4. PICK targets \in LinkTargets(found, th[t].pt) :
          th'[t].pending \in FarthestFirst(targets, th[t].pt)
    BY <2>3
  <2>5. targets # {} /\ targets \subseteq th[t].met BY <2>1, TargetsFound
  <2>6. Range(th'[t].pending) = targets BY <2>4 DEF FarthestFirst
  <2>7. th'[t].pending # <<>>
    <3>1. Range(<<>>) = {} BY DEF Range
    <3> QED BY <2>5, <2>6, <3>1
  <2>8. \A x \in MaybeVector : ReliesOn(t, x)' => ReliesOn(t, x)
    BY <2>1, <2>2, <2>5, <2>6 DEF ReliesOn
  <2> QED BY <1>6, <2>2, <2>7, <2>8
<1>17. CASE AddOwn(t)
  <2>1. th[t].pc = "fill" /\ th'[t].pc = "fill" /\ th'[t].pending = th[t].pending
    BY <1>1, <1>17 DEF AddOwn, ThreadType
  <2>2. \A v \in MaybeVector : ReliesOn(t, v)' => ReliesOn(t, v) BY <2>1 DEF ReliesOn
  <2>3. th[t].pending # <<>> BY <1>2, <2>1 DEF StartsLinked
  <2> QED BY <1>6, <2>1, <2>2, <2>3
<1>18. CASE UnlockOwn(t)
  <2>1. th[t].pc = "fill" BY <1>18 DEF UnlockOwn
  <2>2. th[t].pending # <<>> BY <1>2, <2>1 DEF StartsLinked
  <2>3. th'[t].pc = "lockother" /\ th'[t].pending = th[t].pending
    BY <1>1, <1>18, <2>2 DEF UnlockOwn, ThreadType
  <2>4. \A v \in MaybeVector : ReliesOn(t, v)' => ReliesOn(t, v) BY <2>1, <2>3 DEF ReliesOn
  <2> QED BY <1>6, <2>3, <2>4
<1>19. CASE LockOther(t)
  <2>1. th[t].pc = "lockother" /\ th'[t].pc = "add" /\ th'[t].pending = th[t].pending
    BY <1>1, <1>19 DEF LockOther, ThreadType
  <2>2. \A v \in MaybeVector : ReliesOn(t, v)' => ReliesOn(t, v) BY <2>1 DEF ReliesOn
  <2> QED BY <1>6, <2>1, <2>2
<1>20. CASE AddBack(t)
  <2>1. /\ th[t].pc = "add" /\ th[t].pending \in Seq(Vectors) /\ th[t].pending # <<>>
        /\ th'[t].pending = Tail(th[t].pending) /\ th'[t].pt = th[t].pt
        /\ th'[t].pc = IF Tail(th[t].pending) = <<>> THEN "relock" ELSE "lockother"
    BY <1>1, <1>5, <1>20 DEF AddBack, ThreadOnItsWay, ThreadType
  <2>2. Range(Tail(th[t].pending)) \subseteq Range(th[t].pending) BY <2>1 DEF Range
  <2>3. PICK other \in Vectors : Head(th[t].pending) = other /\ other \in Range(th[t].pending)
    BY <2>1, AddingMayLink
  <2>4. PICK pt \in Vectors : th[t].pt = pt BY <1>5, <2>1
  <2>5. Linked(other)'
    <3>1. ReliesOn(t, other) BY <2>1, <2>3 DEF ReliesOn
    <3> QED BY <1>4, <1>7, <3>1 DEF MaybeVector
  <2>6. pt \in Range(nbrs'[other])
    <3>1. nbrs' = [nbrs EXCEPT ![other] = Append(nbrs[other], pt)]
      BY <1>20, <2>3, <2>4, LinkAppended
    <3>2. nbrs'[other] = Append(nbrs[other], pt) /\ nbrs[other] \in Seq(Vectors)
      BY <1>1, <3>1
    <3> QED BY <3>2, AppendRange
  <2>7. Linked(pt)' BY <2>5, <2>6, LinkedOnNext
  <2>8. \A v \in MaybeVector : ReliesOn(t, v)' => ReliesOn(t, v) \/ v = pt
    BY <2>1, <2>2, <2>4 DEF ReliesOn
  <2> QED BY <1>6, <2>1, <2>7, <2>8
<1>21. CASE Relock(t)
  <2>1. th'[t].pc = "idle" BY <1>1, <1>21, IdleType DEF Relock
  <2>2. \A v \in MaybeVector : ~ReliesOn(t, v)' BY <2>1 DEF ReliesOn
  <2> QED BY <1>6, <2>1, <2>2
<1> QED
  BY <1>8, <1>9, <1>10, <1>11, <1>12, <1>13, <1>14, <1>15, <1>16, <1>17, <1>18, <1>19,
     <1>20, <1>21, <1>22, <1>23, AloneReads DEF Insert, Look
--------------------------------------------------------------------------------
\* What a thread has passed it has passed, until it is done.
LEMMA PastCrossKept ==
    ASSUME BuildTyped, NEW t \in Threads, Insert(t), PastCross(t)
    PROVE  Relock(t) \/ (PastCross(t)' /\ th'[t].pt = th[t].pt)
<1>1. /\ th \in [Threads -> ThreadType] /\ th[t] \in ThreadType /\ ptLevel' = ptLevel
  BY ThreadsMove DEF BuildTyped, TypeOK
<1>2. th[t].pc # "idle" => Level[th[t].pt] = ptLevel /\ ThreadOnItsWay(t) BY ThreadFacts
<1>3. ~(Take(t) \/ LockOwn(t) \/ ReadCross(t) \/ SetCross(t) \/ UpdateCross(t))
  BY DEF PastCross, Take, LockOwn, ReadCross, SetCross, UpdateCross
<1>4. CASE Hop(t)
  <2>1. th[t].pc = "hop" BY <1>4, HopMoves
  <2>2. th[t].lvl = ptLevel /\ Level[th[t].pt] = ptLevel BY <1>2, <2>1 DEF PastCross
  <2>3. th'[t].lvl = ptLevel /\ th'[t].pt = th[t].pt /\ th'[t].pc \in {"hop", "link"}
    BY <1>4, <2>2, HopMoves
  <2> QED BY <1>1, <2>3 DEF PastCross
<1>10. CASE Look(t) \/ Expand(t) \/ ReadList(t)
  <2>1. th'[t].pt = th[t].pt /\ th'[t].lvl = th[t].lvl
        /\ (th'[t].pc = th[t].pc \/ th'[t].pc \in {"link", "read"})
    BY <1>10, SearchMoves
  <2> QED BY <1>1, <2>1 DEF PastCross
<1>5. CASE GetFirst(t) \/ SetFirst(t)
  <2>1. /\ th[t].pc \in {"first", "setfirst"} /\ th[t].lvl = ptLevel + 1 /\ ptLevel \in Nat
    BY <1>2, <1>5, SizeAssumption
       DEF GetFirst, SetFirst, ThreadOnItsWay, BuildTyped, TypeOK, LevelsOf
  <2>2. /\ th'[t].pt = th[t].pt
        /\ \/ th'[t].pc = "setfirst"
           \/ th'[t].pc = "hop" /\ th'[t].lvl = th[t].lvl - 1
    <3>1. CASE GetFirst(t)
      <4>1. \/ th' = [th EXCEPT ![t].pc = "setfirst"]
            \/ \E e : th' = [th EXCEPT ![t].pc = "hop", ![t].nearest = e,
                                       ![t].lvl = th[t].lvl - 1]
        BY <3>1 DEF GetFirst
      <4>2. CASE th' = [th EXCEPT ![t].pc = "setfirst"] BY <1>1, <4>2 DEF ThreadType
      <4>3. ASSUME NEW e, th' = [th EXCEPT ![t].pc = "hop", ![t].nearest = e,
                                           ![t].lvl = th[t].lvl - 1]
            PROVE  th'[t].pt = th[t].pt /\ th'[t].pc = "hop" /\ th'[t].lvl = th[t].lvl - 1
        BY <1>1, <4>3 DEF ThreadType
      <4> QED BY <4>1, <4>2, <4>3
    <3>2. CASE SetFirst(t) BY <1>1, <3>2 DEF SetFirst, ThreadType
    <3> QED BY <1>5, <3>1, <3>2
  <2> QED BY <1>1, <2>1, <2>2 DEF PastCross
<1>6. CASE FindTargets(t)
  <2>1. th'[t].pc = "fill" /\ th'[t].pt = th[t].pt BY <1>6, TargetMoves
  <2> QED BY <2>1 DEF PastCross
<1>7. CASE AddOwn(t)
  <2>1. th'[t].pc = "fill" /\ th'[t].pt = th[t].pt BY <1>1, <1>7 DEF AddOwn, ThreadType
  <2> QED BY <2>1 DEF PastCross
<1>8. CASE UnlockOwn(t) \/ AddBack(t)
  <2>1. th'[t].pc \in {"relock", "lockother"} /\ th'[t].pt = th[t].pt
    BY <1>1, <1>8 DEF UnlockOwn, AddBack, ThreadType
  <2> QED BY <2>1 DEF PastCross
<1>9. CASE LockOther(t)
  <2>1. th'[t].pc = "add" /\ th'[t].pt = th[t].pt BY <1>1, <1>9 DEF LockOther, ThreadType
  <2> QED BY <2>1 DEF PastCross
<1> QED BY <1>3, <1>4, <1>5, <1>6, <1>7, <1>8, <1>9, <1>10 DEF Insert

\* Where cross links change while a level is filled.
LEMMA CrossMoves ==
    ASSUME BuildTyped, NEW t \in Threads, Insert(t), NEW w \in Vectors, cross'[w] # cross[w]
    PROVE  cross'[w] = th[t].pt /\ th'[t].pt = th[t].pt /\ PastCross(t)'
<1>1. /\ th \in [Threads -> ThreadType] /\ th[t] \in ThreadType /\ ptLevel' = ptLevel
      /\ cross \in [Vectors -> MaybeVector]
  BY ThreadsMove DEF BuildTyped, TypeOK
<1>2. SetCross(t) \/ UpdateCross(t)
  BY DEF Insert, Take, LockOwn, Look, Hop, ReadCross, GetFirst, SetFirst, Expand, ReadList,
         FindTargets, AddOwn, UnlockOwn, LockOther, AddBack, Relock
<1>3. CASE SetCross(t)
  <2>1. cross'[w] = th[t].pt /\ th'[t].pt = th[t].pt /\ th'[t].pc = "first"
    BY <1>1, <1>3 DEF SetCross, ThreadType
  <2> QED BY <2>1 DEF PastCross
<1>4. CASE UpdateCross(t)
  <2>1. th[t].lvl = ptLevel + 1 /\ ptLevel \in Nat
    BY <1>4, ThreadFacts, SizeAssumption DEF UpdateCross, ThreadOnItsWay, LevelsOf
  <2>2. /\ cross'[w] = th[t].pt /\ th'[t].pt = th[t].pt /\ th'[t].pc = "hop"
        /\ th'[t].lvl = th[t].lvl - 1
    BY <1>1, <1>4 DEF UpdateCross, ThreadType
  <2> QED BY <1>1, <2>1, <2>2 DEF PastCross
<1> QED BY <1>2, <1>3, <1>4

\* A step of the thread loses nothing.
LEMMA InsertConnected ==
    ASSUME BuildTyped, ListsCounted, SlotsToSpare, ConnectedInv, BuildTyped', [Next]_vars,
           NEW t \in Threads, Threads = {t}, Insert(t)
    PROVE  ConnectedInv'
<1>1. /\ ptLevel' = ptLevel /\ stage' = stage BY ThreadsMove
<1>2. /\ \A l \in LevelsOf : \A v : LinkedAt(l, v) => LinkedAt(l, v)'
      /\ \A v : Linked(v) => Linked(v)'
  <2>1. \A u \in Threads : th[u].pc = "setfirst" => first[ptLevel] = NoVector
    BY DEF ConnectedInv, StartsLinked
  <2> QED BY <1>1, <2>1, LinkedStays
<1>3. stage = "insert"
  <2>1. th[t].pc # "idle" => stage = "insert" BY ThreadFacts
  <2>2. Take(t) => stage = "insert" BY DEF Take
  <2> QED BY <2>1, <2>2, ThreadsMove
<1>4. ASSUME Relock(t) PROVE \A v \in Vectors : th[t].pt = v => Linked(v)
  <2>1. th[t].pc = "relock" BY <1>4 DEF Relock
  <2>2. \A v \in Vectors : th[t].pt = v => ReliesOn(t, v) BY <2>1 DEF ReliesOn
  <2> QED BY <2>2 DEF ConnectedInv, StartsLinked, MaybeVector
<1>5. ASSUME NEW v \in AtLevel(ptLevel) \ todo'
      PROVE  Linked(v)' \/ (th'[t].pc # "idle" /\ th'[t].pt = v)
  <2>1. CASE v \in todo
    <3>1. todo' # todo BY <1>5, <2>1
    <3>2. Take(t) BY <3>1, ThreadsMove
    <3>3. PICK pt \in todo : todo' = todo \ {pt}
             /\ \E e : th' = [th EXCEPT ![t] = [Idle EXCEPT !.pc = "lock", !.pt = pt, !.nearest = e]]
      BY <3>2 DEF Take
    <3>4. th \in [Threads -> ThreadType] BY DEF BuildTyped, TypeOK
    <3>5. th'[t].pc = "lock" /\ th'[t].pt = pt BY <3>3, <3>4 DEF Idle
    <3> QED BY <1>5, <2>1, <3>3, <3>5
  <2>2. CASE v \notin todo
    <3>1. Linked(v) \/ (th[t].pc # "idle" /\ th[t].pt = v) BY <1>5, <2>2 DEF ConnectedInv
    <3>2. ASSUME th[t].pc # "idle", th[t].pt = v, th'[t].pc = "idle" PROVE Linked(v)
      <4>1. Relock(t)
        <5>1. th'[t].pc # "lock" /\ ~Take(t) BY <3>2, TakeFacts
        <5>2. th \in [Threads -> ThreadType] /\ th[t] \in ThreadType BY DEF BuildTyped, TypeOK
        <5>3. ~Hop(t) /\ ~(Look(t) \/ Expand(t) \/ ReadList(t)) /\ ~FindTargets(t)
          BY <3>2, HopMoves, SearchMoves, TargetMoves
        <5>4. ~AddOwn(t) /\ ~UnlockOwn(t)
          BY <3>2, <5>2 DEF AddOwn, UnlockOwn, ThreadType
        <5>5. ~AddBack(t) /\ ~LockOther(t)
          BY <3>2, <5>2 DEF AddBack, LockOther, ThreadType
        <5>6. ~(LockOwn(t) \/ ReadCross(t) \/ SetCross(t) \/ UpdateCross(t))
          BY <3>2, <5>2 DEF LockOwn, ReadCross, SetCross, UpdateCross, ThreadType
        <5>7. ~(GetFirst(t) \/ SetFirst(t))
          BY <3>2, <5>2 DEF GetFirst, SetFirst, ThreadType
        <5> QED BY <5>1, <5>3, <5>4, <5>5, <5>6, <5>7 DEF Insert
      <4> QED BY <1>4, <1>5, <3>2, <4>1 DEF AtLevel
    <3>3. Take(t) => th[t].pc = "idle" BY DEF Take
    <3> QED BY <1>2, <3>1, <3>2, <3>3, ThreadsMove
  <2> QED BY <2>1, <2>2
<1>6. ASSUME NEW w \in AtLevel(ptLevel + 1), NEW v \in Vectors, cross'[w] = v
      PROVE  Linked(v)' \/ (PastCross(t)' /\ th'[t].pt = v)
  <2>1. CASE cross'[w] # cross[w] BY <1>6, <2>1, CrossMoves DEF AtLevel
  <2>2. CASE cross'[w] = cross[w]
    <3>1. Linked(v) \/ (PastCross(t) /\ th[t].pt = v)
      BY <1>3, <1>6, <2>2 DEF ConnectedInv
    <3>2. ASSUME PastCross(t), th[t].pt = v
          PROVE  Linked(v) \/ (PastCross(t)' /\ th'[t].pt = v)
      BY <1>4, <3>2, PastCrossKept
    <3> QED BY <1>2, <3>1, <3>2
  <2> QED BY <2>1, <2>2
<1>7. StartsLinked(t)' BY StartsLinkedNext
<1>8. \A l \in LevelsOf : l > ptLevel' \/ stage' = "done" => \A v \in AtLevel(l) : LinkedAt(l, v)'
  BY <1>1, <1>2 DEF ConnectedInv
<1> QED BY <1>1, <1>3, <1>5, <1>6, <1>7, <1>8 DEF ConnectedInv, AtLevel

\* Nor does a step of the main thread, and a level that is finished is connected.
LEMMA MainConnected ==
    ASSUME BuildTyped, ListsCounted, SlotsToSpare, ConnectedInv, BuildTyped', [Next]_vars, Main
    PROVE  ConnectedInv'
<1>1. UNCHANGED <<nbrs, th>> BY MainMoves
<1>2. \A t \in Threads : th[t].pc = "idle"
  <2>1. stage = "remain" => \A t \in Threads : th[t].pc = "idle" BY ThreadFacts
  <2> QED BY <2>1 DEF Main, LevelInserted, RemainSkip, RemainStart, RemainHop, RemainSet, RemainDone
<1>3. stage # "insert" \/ todo = {}
  BY DEF Main, LevelInserted, RemainSkip, RemainStart, RemainHop, RemainSet, RemainDone
<1>4. /\ \A l \in LevelsOf : \A v : LinkedAt(l, v) => LinkedAt(l, v)'
      /\ ptLevel' = ptLevel => \A v : Linked(v) => Linked(v)'
  <2>1. \A u \in Threads : th[u].pc = "setfirst" => first[ptLevel] = NoVector
    BY <1>2
  <2> QED BY <2>1, LinkedStays
<1>5. \A t \in Threads : StartsLinked(t)'
  BY <1>1, <1>2 DEF ConnectedInv, StartsLinked, ReliesOn
<1>6. \A v \in AtLevel(ptLevel) : Linked(v) /\ LinkedAt(ptLevel, v)
  BY <1>2, <1>3 DEF ConnectedInv, Linked, LinkedAt
<1>7. ptLevel \in LevelsOf /\ ptLevel \in Nat /\ \A v \in Vectors : Level[v] \in Nat
  BY SizeAssumption, LevelAssumption DEF BuildTyped, TypeOK, LevelsOf
<1>8. CASE NextLevelDown /\ UNCHANGED cross
  <2>1. \A l \in LevelsOf : l >= ptLevel => \A v \in AtLevel(l) : LinkedAt(l, v)'
    <3> SUFFICES ASSUME NEW l \in LevelsOf, l >= ptLevel, NEW v \in AtLevel(l)
                 PROVE  LinkedAt(l, v)'
      OBVIOUS
    <3>1. CASE l = ptLevel BY <1>4, <1>6, <3>1
    <3>2. CASE l > ptLevel BY <1>4, <3>2 DEF ConnectedInv
    <3> QED BY <1>7, <3>1, <3>2 DEF LevelsOf
  <2>2. CASE ptLevel = 0
    <3>1. stage' = "done" /\ ptLevel' = ptLevel BY <1>8, <2>2 DEF NextLevelDown
    <3>2. \A l \in LevelsOf : l >= ptLevel BY <2>2 DEF LevelsOf
    <3>3. \A v \in AtLevel(ptLevel) : Linked(v)' BY <1>4, <1>6, <3>1
    <3> QED BY <1>5, <2>1, <3>1, <3>2, <3>3 DEF ConnectedInv, AtLevel
  <2>3. CASE ptLevel # 0
    <3>1. stage' = "insert" /\ ptLevel' = ptLevel - 1 /\ todo' = AtLevel(ptLevel')
      BY <1>8, <2>3 DEF NextLevelDown
    <3>2. \A l \in LevelsOf : l > ptLevel' => l >= ptLevel BY <1>7, <3>1 DEF LevelsOf
    <3>3. \A w \in AtLevel(ptLevel' + 1) : cross'[w] = NoVector
      <4>1. \A w \in AtLevel(ptLevel) : cross[w] = NoVector
        BY <1>7 DEF BuildTyped, BuildInv, LowerUnlinked, AtLevel
      <4>2. ptLevel' + 1 = ptLevel BY <1>7, <3>1
      <4> QED BY <1>8, <4>1, <4>2
    <3>4. \A w \in AtLevel(ptLevel' + 1), v \in Vectors : cross'[w] # v
      BY <3>3, VectorsAssumption
    <3> QED BY <1>5, <2>1, <3>1, <3>2, <3>4 DEF ConnectedInv, AtLevel
  <2> QED BY <2>2, <2>3
<1>9. CASE stage' = "remain" /\ UNCHANGED ptLevel
  <2>1. \A v \in AtLevel(ptLevel) : Linked(v)' BY <1>4, <1>6, <1>9
  <2>2. \A l \in LevelsOf : l > ptLevel => \A v \in AtLevel(l) : LinkedAt(l, v)'
    BY <1>4 DEF ConnectedInv
  <2> QED BY <1>5, <1>9, <2>1, <2>2 DEF ConnectedInv, AtLevel
<1> QED
  BY <1>8, <1>9 DEF Main, LevelInserted, RemainSkip, RemainStart, RemainHop, RemainSet, RemainDone

\* Every step of a build by one thread keeps its levels connected.
LEMMA ConnectedNext ==
    ASSUME BuildTyped, ListsCounted, SlotsToSpare, ConnectedInv, BuildTyped', [Next]_vars,
           Cardinality(Threads) = 1, IsFiniteSet(Threads)
    PROVE  ConnectedInv'
<1>1. ASSUME NEW t \in Threads, Insert(t) PROVE ConnectedInv'
  <2>1. Threads = {t} BY FS_Singleton
  <2> QED BY <1>1, <2>1, InsertConnected
<1>2. CASE Main BY <1>2, MainConnected
<1>3. CASE UNCHANGED vars
  BY <1>3 DEF vars, ConnectedInv, LinkedAt, Linked, PastCross, StartsLinked, ReliesOn, Reach
<1> QED BY <1>1, <1>2, <1>3 DEF Next, Done

\* At first nothing was inserted.
LEMMA InitConnected == Init => ConnectedInv
<1> SUFFICES ASSUME Init PROVE ConnectedInv OBVIOUS
<1>1. \A t \in Threads : th[t].pc = "idle" BY DEF Init, Idle
<1>2. \A t \in Threads : StartsLinked(t) BY <1>1 DEF Init, Idle, StartsLinked, ReliesOn
<1>3. \A w \in AtLevel(ptLevel + 1), v \in Vectors : cross[w] # v
  BY VectorsAssumption DEF Init, AtLevel
<1>4. ptLevel = ML /\ stage = "insert" /\ todo = AtLevel(ptLevel) BY DEF Init
<1>5. \A l \in LevelsOf : ~(l > ptLevel) BY <1>4, SizeAssumption DEF LevelsOf
<1> QED BY <1>2, <1>3, <1>4, <1>5 DEF ConnectedInv

\* A level of up to a hundred vectors is built by one thread; with two slots for each of its
\* vectors every vector of a finished level can be reached from its first entry
\* (hchnsw_add_vertices, HCHNSW::add_with_locks_level).
THEOREM LevelsAreConnected ==
    ASSUME IsFiniteSet(Threads), Cardinality(Threads) = 1, SlotsToSpare
    PROVE  Spec => []LevelConnected
<1>1. Init => ConnectedInv BY InitConnected
<1>2. BuildTyped /\ ListsCounted /\ ConnectedInv /\ [Next]_vars /\ BuildTyped' => ConnectedInv'
  BY ConnectedNext
<1>3. ConnectedInv => LevelConnected
  <2> SUFFICES ASSUME ConnectedInv, NEW l \in LevelsOf, l > ptLevel \/ stage = "done",
                      NEW v \in AtLevel(l)
               PROVE  v \in Reach(first[l])
    BY DEF LevelConnected
  <2>1. LinkedAt(l, v) BY DEF ConnectedInv
  <2> QED BY <2>1 DEF LinkedAt
<1> QED BY <1>1, <1>2, <1>3, BuildInvariant, CountInvariant, PTL DEF Spec
================================================================================
