------------------------------- MODULE IndexFiles ------------------------------
(***************************************************************************)
(* The files of one index directory: make_hc_index() (src/src/index.py)    *)
(* writes them one after the other, load_index() (src/src/inference.py)    *)
(* reads them one after the other, in another process and at any time.     *)
(*                                                                         *)
(* A run of the indexer may be killed anywhere, in the middle of a file    *)
(* too, and be started again in the same directory: if it finds            *)
(* community_df_intermediate.csv it takes the hierarchy from there, else   *)
(* it clusters anew.  No file is written aside and renamed, and no file    *)
(* names the run it belongs to.                                            *)
(*                                                                         *)
(* A hierarchy is the set of its communities, and a file made of it has    *)
(* its rows; a row is counted under the community that brings it about.    *)
(* What AttrCluster says of one run of attr_cluster() is here one step.    *)
(***************************************************************************)
EXTENDS Naturals, FiniteSets

CONSTANTS
    Communities,   \* every community some clustering may find
    Hierarchies,   \* the hierarchies attr_cluster() may return
    TripleText,    \* --enable_triple_text_mapping, and the text units are there
    NoFile,        \* a file that does not exist
    NoHierarchy,   \* community_df is not there yet
    MaxRuns        \* bound: how often the indexer is started

ASSUME HierarchiesAssumption ==
    /\ Hierarchies \subseteq SUBSET Communities
    /\ \A h \in SUBSET Communities : h # NoHierarchy
ASSUME FlagsAssumption == TripleText \in BOOLEAN /\ MaxRuns \in Nat
ASSUME NoFileAssumption ==
    /\ \A c \in [of : SUBSET Communities, rows : SUBSET Communities, whole : BOOLEAN] :
            c # NoFile
    /\ \A h \in SUBSET Communities : h # NoFile
    /\ NoFile # NoHierarchy

VARIABLES
    stage,      \* the file the indexer produces next; "down", "built"
    open,       \* that file is open for writing
    hierarchy,  \* make_hc_index: community_df
    runs,       \* number of times the indexer was started
    disk,       \* the files
    torn,       \* history: a run was killed while it wrote the intermediate file
    reading,    \* the file load_index reads next; "idle"
    got,        \* load_index: the frames read, those of the last load when idle
    disturbed   \* history: the load under way did not begin on complete files, or
                \* one of them was opened for writing since

indexer == <<stage, open, hierarchy, runs>>
loader == <<reading, got, disturbed>>
vars == <<indexer, disk, torn, loader>>

--------------------------------------------------------------------------------
(***************************************************************************)
(* The files, in the order in which they are written.                      *)
(***************************************************************************)
Pickles == {"mapping", "weights"}      \* triple_text_mapping, chunk_weights
Frames == {"index", "entity", "community", "summary", "relation", "embedding"}
Files == Pickles \cup {"intermediate", "sources"} \cup Frames

FirstStage == IF TripleText THEN "mapping" ELSE "intermediate"

\* faulty: an index that is there is not built again
AfterKeepsIndex(f) ==
    CASE f = "mapping" -> "weights"
      [] f = "weights" -> "intermediate"
      [] f = "intermediate" -> IF disk["index"] # NoFile THEN "summary" ELSE "index"
      [] f = "index" -> "summary"
      [] f = "summary" -> "community"
      [] f = "community" -> "entity"
      [] f = "entity" -> "relation"
      [] f = "relation" -> "embedding"
      [] OTHER -> "built"

After(f) ==
    CASE f = "mapping" -> "weights"
      [] f = "weights" -> "intermediate"
      [] f = "intermediate" -> IF TripleText THEN "sources" ELSE "index"
      [] f = "sources" -> "index"
      [] f = "index" -> "summary"
      [] f = "summary" -> "community"
      [] f = "community" -> "entity"
      [] f = "entity" -> "relation"
      [] f = "relation" -> "embedding"
      [] OTHER -> "built"

\* What a file holds: the hierarchy it was made of, the rows that are in it, and
\* whether it was written to the end.  A pickle has nothing of a hierarchy.
Content == {c \in [of : SUBSET Communities, rows : SUBSET Communities, whole : BOOLEAN] :
              c.rows \subseteq c.of /\ (c.whole => c.rows = c.of)}
Made(f, of, rows, whole) ==
    IF f \in Pickles THEN [of |-> {}, rows |-> {}, whole |-> whole]
    ELSE [of |-> of, rows |-> rows, whole |-> whole]
Whole(f, of) == Made(f, of, of, TRUE)

IsThere(f) == disk[f] # NoFile
PicklesThere == \A f \in Pickles : IsThere(f)

\* every file load_index reads is there, with all that belongs in it
Complete ==
    /\ \A f \in Frames : IsThere(f) /\ disk[f].whole
    /\ PicklesThere => \A f \in Pickles : disk[f].whole

--------------------------------------------------------------------------------
Init ==
    /\ stage = "down" /\ open = FALSE
    /\ hierarchy = NoHierarchy
    /\ runs = 0
    /\ disk = [f \in Files |-> NoFile]
    /\ torn = FALSE
    /\ reading = "idle"
    /\ got = [f \in Frames |-> NoFile]
    /\ disturbed = FALSE

\* make_hc_index is started (again) in the directory
Start ==
    /\ stage \in {"down", "built"}
    /\ runs < MaxRuns
    /\ runs' = runs + 1
    /\ stage' = FirstStage
    /\ hierarchy' = NoHierarchy
    /\ UNCHANGED <<open, disk, torn, loader>>

AtHierarchy == stage = "intermediate" /\ hierarchy = NoHierarchy

\* no intermediate file: attr_cluster computes a hierarchy
Cluster ==
    /\ AtHierarchy
    /\ ~IsThere("intermediate")
    /\ hierarchy' \in Hierarchies
    /\ UNCHANGED <<stage, open, runs, disk, torn, loader>>

\* faulty: the hierarchy is computed although there is one
ResumeAnew ==
    /\ AtHierarchy
    /\ IsThere("intermediate")
    /\ hierarchy' \in Hierarchies
    /\ UNCHANGED <<stage, open, runs, disk, torn, loader>>

\* The resume hook: the intermediate file is taken as it is.  Without a single row
\* it can be read only if it has a header, which an empty frame does not leave but
\* a file that was cut may have.
Resume ==
    /\ AtHierarchy
    /\ IsThere("intermediate")
    /\ disk["intermediate"].rows # {} \/ torn
    /\ hierarchy' = disk["intermediate"].rows
    /\ UNCHANGED <<stage, open, runs, disk, torn, loader>>

Down == stage' = "down" /\ open' = FALSE /\ hierarchy' = NoHierarchy

\* There is no community: read_csv raises on a file without a header, and
\* get_vector_hchnsw cannot stack the embeddings of no row.
NothingToIndex ==
    /\ \/ AtHierarchy /\ IsThere("intermediate") /\ disk["intermediate"].rows = {}
       \/ stage = "index" /\ hierarchy = {}
    /\ Down
    /\ UNCHANGED <<runs, disk, torn, loader>>

Ready ==
    /\ stage \in Files
    /\ stage \in Pickles \/ hierarchy # NoHierarchy
    /\ ~(stage = "index" /\ hierarchy = {})

\* The file is opened for writing, in place: what was in it is gone, and some of
\* the new rows are there.
Open ==
    /\ Ready
    /\ ~open
    /\ open' = TRUE
    /\ \E part \in IF stage \in Pickles THEN {{}} ELSE SUBSET hierarchy :
          disk' = [disk EXCEPT ![stage] = Made(stage, hierarchy, part, FALSE)]
    /\ disturbed' = (disturbed \/ (reading # "idle" /\ stage \in Frames \cup Pickles))
    /\ UNCHANGED <<stage, hierarchy, runs, torn, reading, got>>

\* ... and closed; the run goes on to the next one
Close ==
    /\ open
    /\ disk' = [disk EXCEPT ![stage] = Whole(stage, hierarchy)]
    /\ open' = FALSE
    /\ stage' = After(stage)
    /\ UNCHANGED <<hierarchy, runs, torn, loader>>

\* The run is killed or raises: clustering, embeddings and level summaries all
\* call services that may fail.
Stop ==
    /\ stage \in Files
    /\ Down
    /\ torn' = (torn \/ (open /\ stage = "intermediate"))
    /\ UNCHANGED <<runs, disk, loader>>

--------------------------------------------------------------------------------
(***************************************************************************)
(* load_index()                                                            *)
(***************************************************************************)
ReadAfter(f) ==
    CASE f = "index" -> "entity"
      [] f = "entity" -> "community"
      [] f = "community" -> "summary"
      [] f = "summary" -> "relation"
      [] f = "relation" -> "embedding"
      [] OTHER -> "pickles"

StartLoad ==
    /\ reading = "idle"
    /\ reading' = "index"
    /\ got' = [f \in Frames |-> NoFile]
    /\ disturbed' = ~Complete
    /\ UNCHANGED <<indexer, disk, torn>>

\* read_index raises on a part of an index; read_csv does not mind missing rows
Read ==
    /\ reading \in Frames
    /\ IsThere(reading)
    /\ reading = "index" => disk[reading].whole
    /\ got' = [got EXCEPT ![reading] = disk[reading]]
    /\ reading' = ReadAfter(reading)
    /\ UNCHANGED <<indexer, disk, torn, disturbed>>

\* load_triple_text_artifacts: without both files there is no source evidence
ReadPickles ==
    /\ reading = "pickles"
    /\ PicklesThere => \A f \in Pickles : disk[f].whole
    /\ reading' = "idle" /\ disturbed' = FALSE
    /\ UNCHANGED <<indexer, disk, torn, got>>

\* the load raises: a file is missing, a part of an index or of a pickle, or a
\* table whose header was not written yet
LoadRaises ==
    /\ \/ /\ reading \in Frames
          /\ IsThere(reading) => ~disk[reading].whole
       \/ /\ reading = "pickles"
          /\ PicklesThere
          /\ ~ \A f \in Pickles : disk[f].whole
    /\ reading' = "idle" /\ disturbed' = FALSE
    /\ got' = [f \in Frames |-> NoFile]
    /\ UNCHANGED <<indexer, disk, torn>>

--------------------------------------------------------------------------------
Run == Cluster \/ Resume \/ NothingToIndex \/ Open \/ Close

Load == StartLoad \/ Read \/ ReadPickles \/ LoadRaises

Next == Start \/ Run \/ Stop \/ Load

Spec == Init /\ [][Next]_vars

--------------------------------------------------------------------------------
(***************************************************************************)
(* Properties.                                                             *)
(***************************************************************************)
TypeOK ==
    /\ stage \in Files \cup {"down", "built"}
    /\ open \in BOOLEAN
    /\ hierarchy \in {NoHierarchy} \cup SUBSET Communities
    /\ runs \in Nat
    /\ disk \in [Files -> {NoFile} \cup Content]
    /\ torn \in BOOLEAN
    /\ reading \in Frames \cup {"idle", "pickles"}
    /\ got \in [Frames -> {NoFile} \cup Content]
    /\ disturbed \in BOOLEAN

\* the hierarchy the directory stands for: that of the intermediate file
Published == IF IsThere("intermediate") THEN disk["intermediate"].of ELSE NoHierarchy

\* However often runs are killed and started again, all files of the directory are
\* made of one hierarchy, which index.py:67 takes from the intermediate file;
\* unless a run was killed while it wrote this very file.
OneHierarchy ==
    ~torn => \A f \in Files \ (Pickles \cup {"intermediate"}) :
                IsThere(f) => disk[f].of = Published

\* When a run of make_hc_index gets to its end, every file load_index reads is
\* there, whole and made of the hierarchy of this run, whatever earlier runs left.
BuiltIsWhole ==
    stage = "built" =>
        \A f \in Frames \cup {"intermediate"} : disk[f] = Whole(f, hierarchy)

\* the tables load_index has returned: none, if it is under way or has raised
Served ==
    IF reading # "idle" THEN {}
    ELSE {[of |-> got[f].of, rows |-> got[f].rows] : f \in {g \in Frames : got[g] # NoFile}}

Loading ==
    IF reading = "idle" THEN "no" ELSE IF disturbed THEN "disturbed" ELSE "clean"

\* Seen through load_index the directory is a hierarchy published once: a load that
\* finds all files whole and is not disturbed by a run gets all rows of it, whatever
\* was killed and started again before; any other load may raise or miss rows
\* (read_csv does not notice that a file was cut), but has no row of another
\* hierarchy.  Until the intermediate file itself is cut.
Once == INSTANCE PublishedOnce WITH
            Published <- IF torn THEN NoHierarchy ELSE Published,
            Complete <- ~torn /\ Complete,
            Loading <- IF torn THEN "no" ELSE Loading,
            Served <- IF torn THEN {} ELSE Served,
            damaged <- torn
PublishedOnceSpec == Once!Spec

--------------------------------------------------------------------------------
(***************************************************************************)
(* The inductive invariant behind them.                                    *)
(***************************************************************************)
\* stages at which the hierarchy is settled and in the intermediate file
Settled == Frames \cup {"sources", "built"}

\* community_df is there when it is needed, and not before
HierarchyInTime ==
    /\ open => stage \in Files /\ IsThere(stage)
    /\ stage \in Pickles \cup {"down"} => hierarchy = NoHierarchy
    /\ stage \in Settled => hierarchy # NoHierarchy
    /\ open /\ stage = "intermediate" => hierarchy # NoHierarchy

\* the files a run has written before it gets to a stage
Before(s) ==
    CASE s \in {"sources", "index"} -> {"intermediate"}
      [] s = "summary" -> {"intermediate", "index"}
      [] s = "community" -> {"intermediate", "index", "summary"}
      [] s = "entity" -> {"intermediate", "index", "summary", "community"}
      [] s = "relation" -> {"intermediate", "index", "summary", "community", "entity"}
      [] s = "embedding" -> {"intermediate", "index", "summary", "community", "entity", "relation"}
      [] s = "built" -> Frames \cup {"intermediate"}
      [] OTHER -> {}

WrittenSoFar == \A f \in Before(stage) : disk[f] = Whole(f, hierarchy)

\* until the intermediate file is cut, it is the one a run works on
OnPublished ==
    ~torn => /\ hierarchy \in Hierarchies \cup {NoHierarchy}
             /\ Published \in Hierarchies \cup {NoHierarchy}
             /\ hierarchy # NoHierarchy /\ Published # NoHierarchy => hierarchy = Published
             /\ IsThere("intermediate") /\ ~(open /\ stage = "intermediate")
                   => disk["intermediate"].whole

\* the frames load_index has read before it gets to one
ReadBefore(f) ==
    CASE f = "entity" -> {"index"}
      [] f = "community" -> {"index", "entity"}
      [] f = "summary" -> {"index", "entity", "community"}
      [] f = "relation" -> {"index", "entity", "community", "summary"}
      [] f = "embedding" -> {"index", "entity", "community", "summary", "relation"}
      [] f = "pickles" -> Frames
      [] OTHER -> {}

\* a load has what it has read, of the one hierarchy, and in the end all or nothing;
\* undisturbed, it has read all rows and will find the rest
LoadedSoFar ==
    /\ \A f \in ReadBefore(reading) : got[f] # NoFile
    /\ reading = "idle" => \A f, g \in Frames : got[f] # NoFile => got[g] # NoFile
    /\ ~torn => \A f \in Frames : got[f] # NoFile => got[f].of = Published
    /\ reading # "idle" /\ ~disturbed =>
          Complete /\ \A f \in ReadBefore(reading) : got[f].whole

IndexInv ==
    /\ TypeOK /\ HierarchyInTime /\ WrittenSoFar
    /\ OneHierarchy /\ OnPublished /\ LoadedSoFar
================================================================================
