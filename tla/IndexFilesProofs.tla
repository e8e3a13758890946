---------------------------- MODULE IndexFilesProofs ---------------------------
(***************************************************************************)
(* What holds of IndexFiles for any hierarchies and any number of runs.    *)
(***************************************************************************)
EXTENDS IndexFiles, TLAPS

USE DEF Files, Pickles, Frames

LEMMA MadeIsContent ==
    ASSUME NEW f \in Files, NEW h \in SUBSET Communities, NEW r \in SUBSET h
    PROVE  /\ Made(f, h, r, FALSE) \in Content /\ Whole(f, h) \in Content
           /\ Made(f, h, r, FALSE) # NoFile /\ Whole(f, h) # NoFile
           /\ Whole(f, h).whole
           /\ f \notin Pickles => Made(f, h, r, FALSE).of = h /\ Whole(f, h).of = h
<1>1. Made(f, h, r, FALSE) \in Content /\ Whole(f, h) \in Content
  BY DEF Made, Whole, Content
<1>2. \A c \in Content : c # NoFile
  BY NoFileAssumption DEF Content
<1>3. Whole(f, h).whole
  BY DEF Made, Whole
<1>4. f \notin Pickles => Made(f, h, r, FALSE).of = h /\ Whole(f, h).of = h
  BY DEF Made, Whole
<1> QED
  BY <1>1, <1>2, <1>3, <1>4

LEMMA PickleIsContent ==
    ASSUME NEW f \in Pickles, NEW h, NEW r, NEW b \in BOOLEAN
    PROVE  Made(f, h, r, b) \in Content /\ Made(f, h, r, b) # NoFile
  BY NoFileAssumption DEF Made, Content

LEMMA IntermediateIsThere ==
    ASSUME NEW h \in SUBSET Communities
    PROVE  LET c == Whole("intermediate", h) IN c # NoFile /\ c.of = h /\ c.whole
<1>1. "intermediate" \in Files /\ "intermediate" \notin Pickles /\ {} \in SUBSET h
  OBVIOUS
<1> QED
  BY <1>1, MadeIsContent

LEMMA ContentIsThere ==
    ASSUME NEW c \in Content
    PROVE  /\ c # NoFile /\ c.of \in SUBSET Communities /\ c.of # NoHierarchy
           /\ c.rows \in SUBSET c.of /\ (c.whole => c.rows = c.of)
  BY NoFileAssumption, HierarchiesAssumption DEF Content

\* A step is a step of the indexer or one of load_index.
LEMMA StepCases ==
    ASSUME [Next]_vars
    PROVE  \/ UNCHANGED vars \/ Start \/ Stop \/ Cluster \/ Resume \/ NothingToIndex
           \/ Open \/ Close \/ StartLoad \/ Read \/ ReadPickles \/ LoadRaises
  BY DEF Next, Run, Load

\* A run writes one file at a time.
LEMMA OneFileWritten ==
    ASSUME TypeOK, Open \/ Close, NEW f \in Files, f # stage
    PROVE  disk'[f] = disk[f]
  BY DEF TypeOK, Open, Close

--------------------------------------------------------------------------------
(***************************************************************************)
(* Types.                                                                  *)
(***************************************************************************)
Typed == TypeOK /\ HierarchyInTime

LEMMA InitTyped == Init => Typed
<1> SUFFICES ASSUME Init PROVE Typed
  OBVIOUS
<1>1. disk \in [Files -> {NoFile} \cup Content] /\ got \in [Frames -> {NoFile} \cup Content]
  BY DEF Init
<1> QED
  BY <1>1 DEF Init, Typed, TypeOK, HierarchyInTime, Settled

LEMMA NextTyped == Typed /\ [Next]_vars => Typed'
<1> SUFFICES ASSUME Typed, [Next]_vars PROVE Typed'
  OBVIOUS
<1> USE DEF Typed, HierarchyInTime, Settled
<1>h. \A h \in SUBSET Communities : h # NoHierarchy
  BY HierarchiesAssumption
<1>1. CASE UNCHANGED vars
  BY <1>1 DEF vars, indexer, loader, TypeOK, IsThere
<1>2. CASE Start
  BY <1>2 DEF Start, FirstStage, loader, TypeOK
<1>3. CASE Stop
  BY <1>3 DEF Stop, Down, loader, TypeOK
<1>4. CASE Cluster
  BY <1>4, <1>h, HierarchiesAssumption DEF Cluster, AtHierarchy, loader, TypeOK, IsThere
<1>5. CASE Resume
  <2>1. disk["intermediate"] \in Content
    BY <1>5 DEF Resume, IsThere, TypeOK
  <2>2. disk["intermediate"].rows \in SUBSET Communities
    BY <2>1, ContentIsThere
  <2> QED
    BY <1>5, <2>2, <1>h DEF Resume, AtHierarchy, loader, TypeOK, IsThere
<1>6. CASE NothingToIndex
  BY <1>6 DEF NothingToIndex, Down, loader, TypeOK
<1>7. CASE Open
  <2>1. stage \in Files /\ hierarchy \in {NoHierarchy} \cup SUBSET Communities
        /\ (stage \in Pickles \/ hierarchy \in SUBSET Communities)
    BY <1>7 DEF Open, Ready, TypeOK
  <2>2. PICK part \in IF stage \in Pickles THEN {{}} ELSE SUBSET hierarchy :
            disk' = [disk EXCEPT ![stage] = Made(stage, hierarchy, part, FALSE)]
    BY <1>7 DEF Open
  <2>3. Made(stage, hierarchy, part, FALSE) \in Content
        /\ Made(stage, hierarchy, part, FALSE) # NoFile
    <3>1. CASE stage \in Pickles
      BY <3>1, PickleIsContent
    <3>2. CASE stage \notin Pickles
      BY <2>1, <2>2, <3>2, MadeIsContent
    <3> QED
      BY <3>1, <3>2
  <2>4. disk' \in [Files -> {NoFile} \cup Content] /\ disk'[stage] # NoFile
    BY <2>1, <2>2, <2>3 DEF TypeOK
  <2> QED
    BY <1>7, <2>1, <2>4 DEF Open, Ready, TypeOK, IsThere
<1>8. CASE Close
  <2>1. /\ stage \in Files /\ hierarchy \in {NoHierarchy} \cup SUBSET Communities
        /\ (stage \in Pickles \/ hierarchy \in SUBSET Communities)
    BY <1>8 DEF Close, TypeOK
  <2>2. Whole(stage, hierarchy) \in Content
    <3>1. CASE stage \in Pickles
      BY <3>1, PickleIsContent DEF Whole
    <3>2. CASE stage \notin Pickles
      <4>1. {} \in SUBSET hierarchy
        OBVIOUS
      <4> QED
        BY <2>1, <3>2, <4>1, MadeIsContent
    <3> QED
      BY <3>1, <3>2
  <2>3. disk' \in [Files -> {NoFile} \cup Content]
    BY <1>8, <2>2 DEF Close, TypeOK
  <2>4. /\ stage' \in Files \cup {"built"} /\ stage' = After(stage)
        /\ stage' \in Pickles => stage \in Pickles
        /\ stage' \in Settled => stage \notin Pickles
    BY <1>8, <2>1 DEF Close, After
  <2> QED
    BY <1>8, <2>1, <2>3, <2>4, <1>h DEF Close, loader, TypeOK
<1>9. CASE StartLoad
  BY <1>9 DEF StartLoad, indexer, TypeOK, IsThere
<1>10. CASE Read
  <2>1. got' \in [Frames -> {NoFile} \cup Content]
    BY <1>10 DEF Read, TypeOK
  <2> QED
    BY <1>10, <2>1 DEF Read, ReadAfter, indexer, TypeOK, IsThere
<1>11. CASE ReadPickles
  BY <1>11 DEF ReadPickles, indexer, TypeOK, IsThere
<1>12. CASE LoadRaises
  BY <1>12 DEF LoadRaises, indexer, TypeOK, IsThere
<1> QED
  BY <1>1, <1>2, <1>3, <1>4, <1>5, <1>6, <1>7, <1>8, <1>9, <1>10, <1>11, <1>12, StepCases

\* Every variable has its type, and community_df is there when it is needed.
THEOREM IndexTypeCorrect == Spec => []TypeOK
<1>1. Spec => []Typed
  BY InitTyped, NextTyped, PTL DEF Spec
<1> QED
  BY <1>1, PTL DEF Typed
--------------------------------------------------------------------------------
(***************************************************************************)
(* What a run has written is whole and of its hierarchy, until it ends.    *)
(***************************************************************************)
LEMMA BeforeIsSettled ==
    ASSUME NEW s, Before(s) # {} PROVE s \in Settled
  BY DEF Before, Settled

LEMMA NextWritten == Typed /\ WrittenSoFar /\ [Next]_vars => WrittenSoFar'
<1> SUFFICES ASSUME Typed, WrittenSoFar, [Next]_vars PROVE WrittenSoFar'
  OBVIOUS
<1>1. CASE UNCHANGED <<indexer, disk>>
  BY <1>1 DEF indexer, WrittenSoFar
<1>2. CASE UNCHANGED vars \/ StartLoad \/ Read \/ ReadPickles \/ LoadRaises
  BY <1>1, <1>2 DEF vars, StartLoad, Read, ReadPickles, LoadRaises
<1>3. CASE Start \/ Stop \/ NothingToIndex
  <2>1. stage' \in {"down", "mapping", "intermediate"}
    BY <1>3 DEF Start, Stop, NothingToIndex, Down, FirstStage
  <2> QED
    BY <2>1 DEF WrittenSoFar, Before
<1>4. CASE Cluster \/ Resume
  <2>1. stage' = "intermediate"
    BY <1>4 DEF Cluster, Resume, AtHierarchy
  <2> QED
    BY <2>1 DEF WrittenSoFar, Before
<1>5. CASE Open
  <2>1. stage \in Files /\ stage' = stage /\ hierarchy' = hierarchy
        /\ \A f \in Files \ {stage} : disk'[f] = disk[f]
    BY <1>5 DEF Open, Ready, Typed, TypeOK
  <2>2. stage \notin Before(stage) /\ Before(stage) \subseteq Files
    BY <2>1 DEF Before
  <2> QED
    BY <2>1, <2>2 DEF WrittenSoFar
<1>6. CASE Close
  <2>1. stage \in Files /\ stage' = After(stage) /\ hierarchy' = hierarchy
        /\ disk' = [disk EXCEPT ![stage] = Whole(stage, hierarchy)]
        /\ disk \in [Files -> {NoFile} \cup Content]
    BY <1>6 DEF Close, Typed, TypeOK, HierarchyInTime
  <2>2. Before(After(stage)) \subseteq Before(stage) \cup {stage} /\ Before(stage) \subseteq Files
    <3>1. CASE stage \in {"mapping", "weights", "intermediate", "sources"}
      BY <3>1 DEF After, Before
    <3>2. CASE stage \in {"index", "summary", "community"}
      BY <3>2 DEF After, Before
    <3>3. CASE stage \in {"entity", "relation", "embedding"}
      BY <3>3 DEF After, Before
    <3> QED
      BY <2>1, <3>1, <3>2, <3>3
  <2>3. ASSUME NEW f \in Before(After(stage)) PROVE disk'[f] = Whole(f, hierarchy)
    <3>1. CASE f = stage
      BY <2>1, <3>1
    <3>2. CASE f # stage
      BY <2>1, <2>2, <2>3, <3>2 DEF WrittenSoFar
    <3> QED
      BY <3>1, <3>2
  <2> QED
    BY <2>1, <2>3 DEF WrittenSoFar
<1> QED
  BY <1>2, <1>3, <1>4, <1>5, <1>6, StepCases

\* When a run gets to its end, every file load_index reads is whole and of this run.
THEOREM BuiltFilesWhole == Spec => []BuiltIsWhole
<1>1. Init => WrittenSoFar
  BY DEF Init, WrittenSoFar, Before
<1>2. WrittenSoFar => BuiltIsWhole
  BY DEF WrittenSoFar, BuiltIsWhole, Before
<1> QED
  BY <1>1, <1>2, InitTyped, NextTyped, NextWritten, PTL DEF Spec

--------------------------------------------------------------------------------
(***************************************************************************)
(* One hierarchy.                                                          *)
(***************************************************************************)
Others == Files \ (Pickles \cup {"intermediate"})

OfOne == Typed /\ WrittenSoFar /\ OneHierarchy /\ OnPublished

\* What the directory stands for changes only when an intermediate file is opened
\* where there was none.
LEMMA PublishedStays ==
    ASSUME OfOne, [Next]_vars, ~torn, ~torn'
    PROVE  \/ Published' = Published
           \/ Open /\ stage = "intermediate" /\ Published = NoHierarchy /\ Published' = hierarchy
              /\ hierarchy \in Hierarchies
<1> USE DEF OfOne, Typed, TypeOK, HierarchyInTime
<1>1. CASE UNCHANGED disk
  BY <1>1 DEF Published, IsThere
<1>2. CASE UNCHANGED vars \/ Start \/ Stop \/ Cluster \/ Resume \/ NothingToIndex
           \/ StartLoad \/ Read \/ ReadPickles \/ LoadRaises
  BY <1>1, <1>2 DEF vars, Start, Stop, Cluster, Resume, NothingToIndex, StartLoad, Read,
                   ReadPickles, LoadRaises
<1>3. CASE (Open \/ Close) /\ stage # "intermediate"
  BY <1>3 DEF Open, Close, Published, IsThere
<1>4. CASE Open /\ stage = "intermediate"
  <2>1. hierarchy \in SUBSET Communities /\ hierarchy # NoHierarchy
    BY <1>4 DEF Open, Ready
  <2>2. PICK part \in SUBSET hierarchy :
            disk' = [disk EXCEPT !["intermediate"] = Made("intermediate", hierarchy, part, FALSE)]
    BY <1>4 DEF Open
  <2>3. disk'["intermediate"] # NoFile /\ disk'["intermediate"].of = hierarchy
    <3>1. disk'["intermediate"] = Made("intermediate", hierarchy, part, FALSE)
      BY <2>2
    <3>2. "intermediate" \in Files \ Pickles
      OBVIOUS
    <3> QED
      BY <2>1, <2>2, <3>1, <3>2, MadeIsContent
  <2>4. Published' = hierarchy
    BY <2>3 DEF Published, IsThere
  <2> QED
    BY <1>4, <2>1, <2>4 DEF OnPublished
<1>5. CASE Close /\ stage = "intermediate"
  <2>1. hierarchy \in SUBSET Communities /\ hierarchy # NoHierarchy /\ Published # NoHierarchy
    <3>1. disk["intermediate"] # NoFile /\ disk["intermediate"] \in Content
      BY <1>5 DEF Close, IsThere
    <3> QED
      BY <1>5, <3>1, ContentIsThere DEF Close, Published, IsThere
  <2>2. Published = hierarchy
    BY <2>1 DEF OnPublished
  <2>3. disk'["intermediate"] = Whole("intermediate", hierarchy)
    BY <1>5 DEF Close
  <2>4. disk'["intermediate"] # NoFile /\ disk'["intermediate"].of = hierarchy
    BY <2>1, <2>3, IntermediateIsThere
  <2> QED
    BY <2>2, <2>4 DEF Published, IsThere
<1> QED
  BY <1>2, <1>3, <1>4, <1>5, StepCases

\* The hierarchy of a run is the published one.
LEMMA NextOnPublished == OfOne /\ [Next]_vars => OnPublished'
<1> SUFFICES ASSUME OfOne, [Next]_vars, ~torn' PROVE OnPublished'
  BY DEF OnPublished
<1>0. ~torn
  BY StepCases DEF vars, Start, Stop, Cluster, Resume, NothingToIndex, Open, Close, StartLoad, Read,
                   ReadPickles, LoadRaises
<1>1. /\ hierarchy \in Hierarchies \cup {NoHierarchy}
      /\ Published \in Hierarchies \cup {NoHierarchy}
      /\ hierarchy # NoHierarchy /\ Published # NoHierarchy => hierarchy = Published
      /\ IsThere("intermediate") /\ ~(open /\ stage = "intermediate")
            => disk["intermediate"].whole
  BY <1>0 DEF OfOne, OnPublished
<1>2. Published' \in Hierarchies \cup {NoHierarchy}
  BY <1>0, <1>1, PublishedStays
<1>w. (IsThere("intermediate") /\ ~(open /\ stage = "intermediate")
         => disk["intermediate"].whole)'
  <2>1. CASE Open
    <3>1. stage = "intermediate" \/ disk'["intermediate"] = disk["intermediate"]
      BY <2>1, OneFileWritten DEF OfOne, Typed
    <3> QED
      BY <1>1, <2>1, <3>1 DEF Open, IsThere
  <2>2. CASE Close
    <3>1. CASE stage = "intermediate"
      <4>1. hierarchy \in SUBSET Communities /\ disk'["intermediate"] = Whole("intermediate", hierarchy)
        BY <2>2, <3>1 DEF Close, OfOne, Typed, TypeOK, HierarchyInTime
      <4> QED
        BY <4>1, IntermediateIsThere
    <3>2. CASE stage # "intermediate"
      BY <1>1, <2>2, <3>2 DEF Close, IsThere
    <3> QED
      BY <3>1, <3>2
  <2>3. CASE ~Open /\ ~Close
    <3>1. disk' = disk
      BY <2>3, StepCases DEF vars, Start, Stop, Cluster, Resume, NothingToIndex, StartLoad, Read,
                   ReadPickles, LoadRaises
    <3>2. ~(open /\ stage = "intermediate") \/ (open' /\ stage' = "intermediate")
      BY <1>0, <2>3, StepCases DEF vars, indexer, Start, Stop, Down, Cluster, Resume, NothingToIndex,
         AtHierarchy, StartLoad, Read, ReadPickles, LoadRaises, OfOne, Typed, HierarchyInTime
    <3> QED
      BY <1>1, <3>1, <3>2 DEF IsThere
  <2> QED
    BY <2>1, <2>2, <2>3
<1>2a. ASSUME hierarchy' \in Hierarchies \cup {NoHierarchy},
              hierarchy' # NoHierarchy /\ Published' # NoHierarchy => hierarchy' = Published'
       PROVE  OnPublished'
  BY <1>2, <1>w, <1>2a DEF OnPublished
<1>3. CASE hierarchy' = NoHierarchy
  BY <1>2a, <1>3
<1>4. CASE hierarchy' = hierarchy
  BY <1>0, <1>1, <1>2a, <1>4, PublishedStays
<1>5. CASE Cluster
  <2>1. Published' = NoHierarchy
    BY <1>5 DEF Cluster, Published, IsThere
  <2> QED
    BY <1>5, <1>2a, <2>1 DEF Cluster
<1>6. CASE Resume
  <2>1. ~(open /\ stage = "intermediate")
    BY <1>6 DEF Resume, AtHierarchy, OfOne, Typed, HierarchyInTime
  <2>2. disk["intermediate"].whole /\ disk["intermediate"] \in Content
    BY <1>1, <1>6, <2>1 DEF Resume, IsThere, OfOne, Typed, TypeOK
  <2>3. disk["intermediate"].rows = disk["intermediate"].of
    BY <2>2, ContentIsThere
  <2>4. Published' = hierarchy' /\ Published = hierarchy'
    BY <1>6, <2>3 DEF Resume, Published, IsThere
  <2> QED
    BY <1>1, <1>2a, <2>4
<1>7. CASE UNCHANGED vars \/ Start \/ Stop \/ NothingToIndex \/ Open \/ Close \/ StartLoad \/ Read
           \/ ReadPickles \/ LoadRaises
  <2>1. hierarchy' = NoHierarchy \/ hierarchy' = hierarchy
    BY <1>7 DEF vars, indexer, Start, Stop, NothingToIndex, Down, Open, Close, StartLoad, Read,
                ReadPickles, LoadRaises
  <2> QED
    BY <1>3, <1>4, <2>1
<1> QED
  BY <1>5, <1>6, <1>7, StepCases

\* Every file is made of the published hierarchy.
LEMMA NextOneHierarchy == OfOne /\ [Next]_vars => OneHierarchy'
<1> SUFFICES ASSUME OfOne, [Next]_vars, ~torn', NEW f \in Others, IsThere(f)'
             PROVE  disk'[f].of = Published'
  BY DEF OneHierarchy, Others
<1>0. ~torn
  BY StepCases DEF vars, Start, Stop, Cluster, Resume, NothingToIndex, Open, Close, StartLoad, Read,
                   ReadPickles, LoadRaises
<1>t. disk \in [Files -> {NoFile} \cup Content] /\ f \in Files \ Pickles /\ f # "intermediate"
  BY DEF OfOne, Typed, TypeOK, Others
<1>1. CASE disk'[f] = disk[f]
  <2>1. disk[f].of = Published /\ disk[f] \in Content
    BY <1>0, <1>1, <1>t DEF OfOne, OneHierarchy, IsThere
  <2>2. Published # NoHierarchy
    BY <2>1, ContentIsThere
  <2> QED
    BY <1>0, <1>1, <2>1, <2>2, PublishedStays
<1>2. CASE (Open \/ Close) /\ stage = f
  <2>1. hierarchy \in SUBSET Communities /\ hierarchy # NoHierarchy /\ f \in Settled
    BY <1>2, <1>t, HierarchiesAssumption DEF Open, Close, Ready, OfOne, Typed, TypeOK, HierarchyInTime, Settled
  <2>2. disk'[f].of = hierarchy
    <3>1. disk'[f] = Whole(f, hierarchy)
          \/ \E part \in SUBSET hierarchy : disk'[f] = Made(f, hierarchy, part, FALSE)
      BY <1>2, <1>t DEF Open, Close
    <3>2. f \in Files /\ f \notin Pickles /\ {} \in SUBSET hierarchy
      BY <1>t
    <3>3. CASE disk'[f] = Whole(f, hierarchy)
      BY <2>1, <3>2, <3>3, MadeIsContent
    <3>4. ASSUME NEW part \in SUBSET hierarchy, disk'[f] = Made(f, hierarchy, part, FALSE)
          PROVE  disk'[f].of = hierarchy
      BY <2>1, <3>2, <3>4, MadeIsContent
    <3> QED
      BY <3>1, <3>3, <3>4
  <2>3. disk["intermediate"] = Whole("intermediate", hierarchy)
    <3>1. "intermediate" \in Before(f)
      BY <2>1, <1>t DEF Before, Settled
    <3> QED
      BY <3>1, <1>2 DEF OfOne, WrittenSoFar
  <2>4. disk["intermediate"] # NoFile /\ disk["intermediate"].of = hierarchy
    BY <2>1, <2>3, IntermediateIsThere
  <2>5. Published = hierarchy
    BY <2>4, <1>2, <1>t DEF Published, IsThere
  <2> QED
    BY <2>1, <2>2, <2>5, <1>0, PublishedStays
<1>3. disk'[f] = disk[f] \/ ((Open \/ Close) /\ stage = f)
  BY <1>t, StepCases DEF vars, Start, Stop, Cluster, Resume, NothingToIndex, Open, Close, StartLoad, Read,
                   ReadPickles, LoadRaises
<1> QED
  BY <1>1, <1>2, <1>3

LEMMA InitOfOne == Init => OfOne
<1> SUFFICES ASSUME Init PROVE OfOne
  OBVIOUS
<1>1. Published = NoHierarchy
  BY DEF Init, Published, IsThere
<1>2. WrittenSoFar /\ OneHierarchy /\ OnPublished
  BY <1>1 DEF Init, WrittenSoFar, Before, OneHierarchy, IsThere, OnPublished
<1> QED
  BY <1>2, InitTyped DEF OfOne

LEMMA NextOfOne == OfOne /\ [Next]_vars => OfOne'
  BY NextTyped, NextWritten, NextOneHierarchy, NextOnPublished DEF OfOne

\* However often runs are killed and started again, all files are made of one
\* hierarchy, unless the intermediate file itself was cut.
THEOREM FilesOfOneHierarchy == Spec => []OneHierarchy
<1>1. Spec => []OfOne
  BY InitOfOne, NextOfOne, PTL DEF Spec
<1> QED
  BY <1>1, PTL DEF OfOne

--------------------------------------------------------------------------------
(***************************************************************************)
(* Loads, and the directory as a hierarchy published once.                 *)
(***************************************************************************)
LEMMA ReadGrows ==
    ASSUME NEW f \in Frames
    PROVE  /\ ReadBefore(ReadAfter(f)) \subseteq ReadBefore(f) \cup {f}
           /\ ReadBefore(ReadAfter(f)) \subseteq Frames
<1>1. CASE f \in {"index", "entity", "community"}
  BY <1>1 DEF ReadAfter, ReadBefore
<1>2. CASE f \in {"summary", "relation", "embedding"}
  BY <1>2 DEF ReadAfter, ReadBefore
<1> QED
  BY <1>1, <1>2

\* A file that is closed was there and is whole now: complete files stay complete.
LEMMA CloseKeepsComplete ==
    ASSUME Typed, Close, Complete PROVE Complete'
<1>1. /\ stage \in Files /\ disk \in [Files -> {NoFile} \cup Content] /\ disk[stage] # NoFile
      /\ disk' = [disk EXCEPT ![stage] = Whole(stage, hierarchy)]
      /\ stage \in Pickles \/ hierarchy \in SUBSET Communities
  <2>1. stage \in Pickles \cup {"intermediate"} \cup Settled
    BY DEF Close, Typed, HierarchyInTime, Settled
  <2>2. stage \in Pickles \/ hierarchy # NoHierarchy
    BY <2>1 DEF Close, Typed, HierarchyInTime
  <2> QED
    BY <2>2 DEF Close, Typed, TypeOK, HierarchyInTime, IsThere
<1>2. Whole(stage, hierarchy) # NoFile /\ Whole(stage, hierarchy).whole
  <2>1. CASE stage \in Pickles
    BY <2>1, PickleIsContent DEF Whole, Made
  <2>2. CASE stage \notin Pickles
    <3>1. {} \in SUBSET hierarchy
      OBVIOUS
    <3> QED
      BY <1>1, <2>2, <3>1, MadeIsContent
  <2> QED
    BY <2>1, <2>2
<1>3. \A f \in Files : /\ IsThere(f)' <=> IsThere(f)
                       /\ disk[f] # NoFile /\ disk[f].whole => disk'[f].whole
  <2> SUFFICES ASSUME NEW f \in Files
               PROVE  /\ disk'[f] # NoFile <=> disk[f] # NoFile
                      /\ disk[f] # NoFile /\ disk[f].whole => disk'[f].whole
    BY DEF IsThere
  <2>1. CASE f = stage
    BY <1>1, <1>2, <2>1
  <2>2. CASE f # stage
    BY <1>1, <2>2
  <2> QED
    BY <2>1, <2>2
<1>4. \A f \in Frames : IsThere(f)' /\ disk'[f].whole
  BY <1>3 DEF Complete, IsThere
<1>5. PicklesThere' => \A f \in Pickles : disk'[f].whole
  BY <1>3 DEF Complete, PicklesThere, IsThere
<1> QED
  BY <1>4, <1>5 DEF Complete

\* A load that is not disturbed goes on finding complete files.
Undisturbed ==
    reading # "idle" /\ ~disturbed =>
        Complete /\ \A f \in ReadBefore(reading) : got[f].whole

LEMMA NextUndisturbed == Typed /\ Undisturbed /\ [Next]_vars => Undisturbed'
<1> SUFFICES ASSUME Typed, Undisturbed, [Next]_vars, reading' # "idle", ~disturbed'
             PROVE  Complete' /\ \A f \in ReadBefore(reading') : got'[f].whole
  BY DEF Undisturbed
<1>t. disk \in [Files -> {NoFile} \cup Content] /\ got \in [Frames -> {NoFile} \cup Content]
      /\ disturbed \in BOOLEAN
  BY DEF Typed, TypeOK
<1>1. CASE UNCHANGED vars \/ Start \/ Stop \/ Cluster \/ Resume \/ NothingToIndex
  <2>1. UNCHANGED <<disk, reading, got, disturbed>>
    BY <1>1 DEF vars, loader, Start, Stop, Cluster, Resume, NothingToIndex
  <2> QED
    BY <2>1 DEF Undisturbed, Complete, PicklesThere, IsThere
<1>2. CASE Open
  <2>1. UNCHANGED <<reading, got>> /\ ~disturbed /\ stage \notin Frames \cup Pickles
        /\ \A f \in Files \ {stage} : disk'[f] = disk[f]
    BY <1>2, <1>t DEF Open
  <2>2. \A f \in Frames \cup Pickles : disk'[f] = disk[f]
    BY <2>1
  <2>3. Complete' = Complete
    BY <2>2 DEF Complete, PicklesThere, IsThere
  <2> QED
    BY <2>1, <2>3 DEF Undisturbed
<1>3. CASE Close
  <2>1. UNCHANGED <<reading, got, disturbed>>
    BY <1>3 DEF Close, loader
  <2> QED
    BY <1>3, <2>1, CloseKeepsComplete DEF Undisturbed
<1>4. CASE StartLoad
  <2>1. disk' = disk /\ reading' = "index" /\ Complete
    BY <1>4 DEF StartLoad
  <2>2. Complete' = Complete
    BY <2>1 DEF Complete, PicklesThere, IsThere
  <2> QED
    BY <2>1, <2>2 DEF ReadBefore
<1>5. CASE Read
  <2>1. /\ reading \in Frames /\ reading' = ReadAfter(reading) /\ disk' = disk /\ ~disturbed
        /\ got' = [got EXCEPT ![reading] = disk[reading]]
    BY <1>5 DEF Read
  <2>2. Complete' = Complete
    BY <2>1 DEF Complete, PicklesThere, IsThere
  <2>3. Complete /\ \A f \in ReadBefore(reading) : got[f].whole
    BY <2>1 DEF Undisturbed
  <2>4. ReadBefore(ReadAfter(reading)) \subseteq ReadBefore(reading) \cup {reading}
        /\ ReadBefore(ReadAfter(reading)) \subseteq Frames
    BY <2>1, ReadGrows
  <2>5. ASSUME NEW f \in ReadBefore(reading') PROVE got'[f].whole
    <3>1. CASE f = reading
      BY <1>t, <2>1, <2>3, <3>1 DEF Complete
    <3>2. CASE f # reading
      BY <1>t, <2>1, <2>3, <2>4, <2>5, <3>2
    <3> QED
      BY <3>1, <3>2
  <2> QED
    BY <2>2, <2>3, <2>5
<1>6. CASE ReadPickles \/ LoadRaises
  BY <1>6 DEF ReadPickles, LoadRaises
<1> QED
  BY <1>1, <1>2, <1>3, <1>4, <1>5, <1>6, StepCases

LEMMA NextLoaded == OfOne /\ LoadedSoFar /\ [Next]_vars => LoadedSoFar'
<1> SUFFICES ASSUME OfOne, LoadedSoFar, [Next]_vars PROVE LoadedSoFar'
  OBVIOUS
<1>t. /\ got \in [Frames -> {NoFile} \cup Content] /\ disk \in [Files -> {NoFile} \cup Content]
      /\ reading \in Frames \cup {"idle", "pickles"}
  BY DEF OfOne, Typed, TypeOK
<1>0. torn => torn'
  BY StepCases DEF vars, Start, Stop, Cluster, Resume, NothingToIndex, Open, Close, StartLoad, Read,
                   ReadPickles, LoadRaises
<1>p. ASSUME ~torn', NEW f \in Frames, got[f] # NoFile PROVE got[f].of = Published'
  <2>1. got[f].of = Published /\ got[f] \in Content
    BY <1>p, <1>0, <1>t DEF LoadedSoFar
  <2>2. Published # NoHierarchy
    BY <2>1, ContentIsThere
  <2> QED
    BY <1>p, <1>0, <2>1, <2>2, PublishedStays
<1>u. Undisturbed'
  BY NextUndisturbed DEF OfOne, LoadedSoFar, Undisturbed
<1>1. CASE UNCHANGED <<reading, got>>
  BY <1>1, <1>p, <1>u DEF LoadedSoFar, Undisturbed
<1>2. CASE UNCHANGED vars \/ Start \/ Stop \/ Cluster \/ Resume \/ NothingToIndex \/ Open \/ Close
  BY <1>1, <1>2 DEF vars, loader, Start, Stop, Cluster, Resume, NothingToIndex, Open, Close
<1>3. CASE StartLoad \/ LoadRaises
  <2>1. ReadBefore(reading') = {} /\ \A f \in Frames : got'[f] = NoFile
    BY <1>3 DEF StartLoad, LoadRaises, ReadBefore
  <2> QED
    BY <2>1, <1>u DEF LoadedSoFar, Undisturbed
<1>4. CASE Read
  <2>1. /\ reading \in Frames /\ reading' = ReadAfter(reading) /\ reading' # "idle"
        /\ got' = [got EXCEPT ![reading] = disk[reading]]
        /\ disk[reading] # NoFile /\ torn' = torn
    BY <1>4 DEF Read, IsThere, ReadAfter
  <2>2. ReadBefore(ReadAfter(reading)) \subseteq ReadBefore(reading) \cup {reading}
        /\ ReadBefore(ReadAfter(reading)) \subseteq Frames
    BY <2>1, ReadGrows
  <2>3. \A f \in ReadBefore(reading') : got'[f] # NoFile
    BY <2>1, <2>2, <1>t DEF LoadedSoFar
  <2>4. ASSUME ~torn', NEW f \in Frames, got'[f] # NoFile PROVE got'[f].of = Published'
    <3>1. CASE f = reading
      <4>1. f \in Others /\ Published' = Published
        BY <2>1, <1>4, <3>1 DEF Others, Read, indexer, Published, IsThere
      <4> QED
        BY <2>1, <2>4, <3>1, <4>1, <1>t DEF OfOne, OneHierarchy, Others, IsThere
    <3>2. CASE f # reading
      BY <2>1, <2>4, <3>2, <1>p, <1>t
    <3> QED
      BY <3>1, <3>2
  <2> QED
    BY <2>1, <2>3, <2>4, <1>u DEF LoadedSoFar, Undisturbed
<1>5. CASE ReadPickles
  <2>1. /\ reading = "pickles" /\ reading' = "idle" /\ got' = got
        /\ \A f \in Frames : got[f] # NoFile
    BY <1>5 DEF ReadPickles, LoadedSoFar, ReadBefore
  <2> QED
    BY <2>1, <1>p, <1>u DEF LoadedSoFar, ReadBefore, Undisturbed
<1> QED
  BY <1>2, <1>3, <1>4, <1>5, StepCases

\* The inductive invariant: what a run works on, what the directory stands for, what
\* is written and what is loaded agree at every step.
THEOREM IndexInvariant == Spec => []IndexInv
<1>1. Init => LoadedSoFar
  BY DEF Init, LoadedSoFar, ReadBefore
<1>2. Spec => [](OfOne /\ LoadedSoFar)
  BY <1>1, InitOfOne, NextOfOne, NextLoaded, PTL DEF Spec
<1>3. OfOne /\ LoadedSoFar => IndexInv
  BY DEF OfOne, Typed, IndexInv
<1> QED
  BY <1>2, <1>3, PTL

--------------------------------------------------------------------------------
(***************************************************************************)
(* The refinement.                                                         *)
(***************************************************************************)
PublishedNow == IF torn THEN NoHierarchy ELSE Published
CompleteNow == ~torn /\ Complete
LoadingNow == IF torn THEN "no" ELSE Loading
ServedNow == IF torn THEN {} ELSE Served
onceNow == <<PublishedNow, CompleteNow, LoadingNow, ServedNow, torn>>

LoadsInv == OfOne /\ LoadedSoFar

\* What is served is of the published hierarchy.
ServedRight ==
    ~torn => \A table \in Served : table.of = Published /\ table.rows \subseteq Published

LEMMA ServedIsPublished == LoadsInv => ServedRight
<1> SUFFICES ASSUME LoadsInv, ~torn, NEW table \in Served
             PROVE  table.of = Published /\ table.rows \subseteq Published
  BY DEF ServedRight
<1>1. PICK f \in Frames : got[f] # NoFile /\ table = [of |-> got[f].of, rows |-> got[f].rows]
  BY DEF Served
<1>2. got[f] \in Content /\ got[f].of = Published
  BY <1>1 DEF LoadsInv, OfOne, Typed, TypeOK, LoadedSoFar
<1> QED
  BY <1>1, <1>2, ContentIsThere

\* Complete files are of the published hierarchy, so there is one.
CompleteRight == ~torn /\ Complete => Published # NoHierarchy

LEMMA CompleteIsPublished == LoadsInv => CompleteRight
<1> SUFFICES ASSUME LoadsInv, ~torn, Complete PROVE Published # NoHierarchy
  BY DEF CompleteRight
<1>1. disk["index"] \in Content /\ disk["index"].of = Published
  BY DEF LoadsInv, OfOne, Typed, TypeOK, OneHierarchy, Complete, IsThere
<1> QED
  BY <1>1, ContentIsThere

\* Outside the loads, what is promised changes as a publication or as a write.
LEMMA WriteOnce ==
    ASSUME LoadsInv, LoadsInv', CompleteRight', ~torn, ~torn', torn' = torn,
           Served' = Served, Published' = Published,
           Loading' = Loading \/ (Loading # "no" /\ Loading' = "disturbed")
    PROVE  Once!Write
<1>1. Complete' \in BOOLEAN
  BY DEF Complete
<1>2. Complete' => Published # NoHierarchy
  BY DEF CompleteRight
<1>3. Loading' = "clean" => Complete'
  BY DEF LoadsInv, LoadedSoFar, Loading
<1> QED
  BY <1>1, <1>2, <1>3 DEF Once!Write

LEMMA NextOnce ==
    ASSUME LoadsInv, LoadsInv', ServedRight', CompleteRight', [Next]_vars
    PROVE  [Once!Next]_onceNow
<1>0. torn => torn'
  BY StepCases DEF vars, Start, Stop, Cluster, Resume, NothingToIndex, Open, Close, StartLoad, Read,
                   ReadPickles, LoadRaises
<1>t. torn \in BOOLEAN /\ torn' \in BOOLEAN
  BY DEF LoadsInv, OfOne, Typed, TypeOK
<1>1. CASE torn
  BY <1>0, <1>1, <1>t DEF onceNow, PublishedNow, CompleteNow, LoadingNow, ServedNow
<1>2. CASE ~torn /\ torn'
  BY <1>2, <1>t DEF Once!Next, Once!Damage
<1>3. CASE ~torn /\ ~torn'
  <2>0. torn' = torn
    BY <1>3, <1>t
  <2>1. CASE ~Open /\ (\/ UNCHANGED vars \/ Start \/ Stop \/ Cluster \/ Resume
                       \/ NothingToIndex \/ Close)
    <3>1. UNCHANGED <<reading, got, disturbed>>
      BY <2>1 DEF vars, loader, Start, Stop, Cluster, Resume, NothingToIndex, Close
    <3>2. Served' = Served /\ Loading' = Loading
      BY <3>1 DEF Served, Loading
    <3>3. Published' = Published
      BY <1>3, <2>1, PublishedStays DEF LoadsInv
    <3> QED
      BY <1>3, <2>0, <3>2, <3>3, WriteOnce DEF Once!Next, onceNow, PublishedNow, CompleteNow, LoadingNow, ServedNow
  <2>2. CASE Open
    <3>1. UNCHANGED <<reading, got>> /\ (disturbed' = disturbed \/ (reading # "idle" /\ disturbed'))
      <4>1. disturbed \in BOOLEAN /\ disturbed' \in BOOLEAN
        BY DEF LoadsInv, OfOne, Typed, TypeOK
      <4>2. UNCHANGED <<reading, got>>
            /\ disturbed' = (disturbed \/ (reading # "idle" /\ stage \in Frames \cup Pickles))
        BY <2>2 DEF Open
      <4> QED
        BY <4>1, <4>2
    <3>2. Served' = Served /\ (Loading' = Loading \/ (Loading # "no" /\ Loading' = "disturbed"))
      BY <3>1 DEF Served, Loading
    <3>3. CASE Published' = Published
      BY <1>3, <2>0, <3>2, <3>3, WriteOnce DEF Once!Next
    <3>4. CASE Published' # Published
      <4>1. Published = NoHierarchy /\ Published' \in Hierarchies /\ stage = "intermediate"
        BY <1>3, <3>4, PublishedStays DEF LoadsInv
      <4>2. Complete' = Complete
        <5>1. \A f \in Frames \cup Pickles : disk'[f] = disk[f]
          BY <2>2, <4>1, OneFileWritten DEF LoadsInv, OfOne, Typed
        <5> QED
          BY <5>1 DEF Complete, PicklesThere, IsThere
      <4>3. disturbed' = disturbed
        BY <2>2, <4>1 DEF Open, LoadsInv, OfOne, Typed, TypeOK
      <4>4. Loading' = Loading
        BY <3>1, <4>3 DEF Loading
      <4> QED
        BY <1>3, <2>0, <3>2, <4>1, <4>2, <4>4 DEF Once!Next, Once!Publish
    <3> QED
      BY <3>3, <3>4
  <2>3. CASE StartLoad
    <3>1. /\ disk' = disk /\ reading = "idle" /\ reading' = "index" /\ disturbed' = ~Complete
      BY <2>3 DEF StartLoad
    <3>2. Published' = Published /\ Complete' = Complete
      BY <3>1 DEF Published, Complete, PicklesThere, IsThere
    <3>3. Served' = {} /\ Loading = "no" /\ Loading' = IF Complete THEN "clean" ELSE "disturbed"
      BY <3>1 DEF Served, Loading
    <3> QED
      BY <1>3, <2>0, <3>2, <3>3 DEF Once!Next, Once!Begin
  <2>4. CASE Read
    <3>1. disk' = disk /\ disturbed' = disturbed /\ reading # "idle" /\ reading' # "idle"
      BY <2>4 DEF Read, ReadAfter
    <3>2. Published' = Published /\ Complete' = Complete
      BY <3>1 DEF Published, Complete, PicklesThere, IsThere
    <3>3. Served' = Served /\ Loading' = Loading
      BY <3>1 DEF Served, Loading
    <3> QED
      BY <2>0, <3>2, <3>3 DEF onceNow, PublishedNow, CompleteNow, LoadingNow, ServedNow
  <2>5. CASE ReadPickles \/ LoadRaises
    <3>1. disk' = disk /\ reading # "idle" /\ reading' = "idle"
      BY <2>5 DEF ReadPickles, LoadRaises
    <3>2. Published' = Published /\ Complete' = Complete
      BY <3>1 DEF Published, Complete, PicklesThere, IsThere
    <3>3. Loading # "no" /\ Loading' = "no"
      BY <3>1 DEF Loading
    <3>4. \A table \in Served' : table.of = Published /\ table.rows \subseteq Published
      <4>1. \A table \in Served' : table.of = Published' /\ table.rows \subseteq Published'
        BY <1>3 DEF ServedRight
      <4> QED
        BY <3>2, <4>1
    <3>5. ASSUME Loading = "clean" PROVE Served' = {[of |-> Published, rows |-> Published]}
      <4>1. ~disturbed /\ Complete /\ \A f \in ReadBefore(reading) : got[f].whole /\ got[f] # NoFile
        BY <3>1, <3>5 DEF Loading, LoadsInv, LoadedSoFar
      <4>2. ReadPickles
        BY <2>5, <4>1 DEF LoadRaises, Complete, LoadsInv, OfOne, Typed, TypeOK
      <4>3. got' = got /\ reading = "pickles"
        BY <4>2 DEF ReadPickles
      <4>4. \A f \in Frames : got[f] # NoFile /\ got[f].of = Published /\ got[f].rows = Published
        <5>1. \A f \in Frames : got[f] # NoFile /\ got[f].whole /\ got[f].of = Published /\ got[f] \in Content
          BY <1>3, <4>1, <4>3 DEF ReadBefore, LoadsInv, LoadedSoFar, OfOne, Typed, TypeOK
        <5> QED
          BY <5>1, ContentIsThere
      <4>5. "index" \in Frames
        OBVIOUS
      <4>6. Served' = {[of |-> got[f].of, rows |-> got[f].rows] : f \in {g \in Frames : got[g] # NoFile}}
        BY <3>1, <4>3 DEF Served
      <4> QED
        BY <4>4, <4>5, <4>6
    <3> QED
      BY <1>3, <2>0, <3>2, <3>3, <3>4, <3>5 DEF Once!Next, Once!Return
  <2> QED
    BY <2>1, <2>2, <2>3, <2>4, <2>5, StepCases
<1> QED
  BY <1>1, <1>2, <1>3

LEMMA InitOnce == Init => Once!Init
<1> SUFFICES ASSUME Init PROVE Once!Init
  OBVIOUS
<1>1. Published = NoHierarchy /\ Served = {} /\ torn = FALSE /\ Loading = "no"
  BY DEF Init, Published, Served, IsThere, Loading
<1>2. ~Complete
  BY DEF Init, Complete, IsThere
<1> QED
  BY <1>1, <1>2 DEF Once!Init

\* Seen through load_index the directory is a hierarchy published once: a load that finds
\* the files whole and is not disturbed gets all rows of it, any other load no row of
\* another one, however often runs were killed and started again.
THEOREM DirectoryIsPublishedOnce == Spec => PublishedOnceSpec
<1>1. Init => LoadedSoFar
  BY DEF Init, LoadedSoFar, ReadBefore
<1>2. Spec => []LoadsInv
  BY <1>1, InitOfOne, NextOfOne, NextLoaded, PTL DEF Spec, LoadsInv
<1>3. LoadsInv /\ LoadsInv' /\ ServedRight' /\ CompleteRight' /\ [Next]_vars
        => [Once!Next]_onceNow
  BY NextOnce
<1>4. Spec => Once!Init /\ [][Once!Next]_onceNow
  BY <1>2, <1>3, InitOnce, ServedIsPublished, CompleteIsPublished, PTL DEF Spec
<1> QED
  BY <1>4 DEF PublishedOnceSpec, Once!Spec, Once!vars, onceNow, PublishedNow, CompleteNow,
              LoadingNow, ServedNow
================================================================================
