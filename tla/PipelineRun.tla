------------------------------ MODULE PipelineRun ------------------------------
(***************************************************************************)
(* run_pipeline() of the GraphRAG copy (src/src/graphrag/index/run.py),    *)
(* which extracts the graph that make_hc_index() reads: workflows in the   *)
(* order of their dependencies, each leaving a table in the output         *)
(* directory.  A run that is resumed skips the workflows whose table is    *)
(* there.                                                                  *)
(*                                                                         *)
(* The rows of a workflow are worked on by concurrent tasks of one event   *)
(* loop, each of which asks the language model once, through a cache of    *)
(* files (CachingLLM, JsonPipelineCache), a semaphore and retries          *)
(* (RateLimitingLLM).  Every await is a point where other tasks go on, so  *)
(* what a task knows of a file may be out of date when it uses it.         *)
(*                                                                         *)
(* Nothing is written aside and renamed: a process that dies leaves a part *)
(* of a table or of a cache entry.                                         *)
(***************************************************************************)
EXTENDS Naturals, FiniteSets

CONSTANTS
    Workflows,
    DependsOn,     \* workflow_dependencies
    Tasks,         \* rows over which the workflows ask the language model
    WorkflowOf,    \* the workflow a task belongs to
    Swallowing,    \* workflows that report the exception of a task and go on
    KeyOf,         \* its key in the cache: equal for equal questions
    Slots,         \* concurrent_requests
    MaxAttempts,   \* max_retries
    NoWorkflow,    \* no workflow is running
    NoTable,       \* a table that does not exist
    MaxRuns        \* bound: how often the pipeline is started

Keys == {KeyOf[t] : t \in Tasks}

Tables == [stamp : 1 .. MaxRuns, whole : BOOLEAN]

ASSUME WorkflowsAssumption ==
    /\ IsFiniteSet(Workflows) /\ NoWorkflow \notin Workflows
    /\ DependsOn \in [Workflows -> SUBSET Workflows]
    /\ WorkflowOf \in [Tasks -> Workflows]
    /\ Swallowing \subseteq Workflows
    /\ \A t \in Tasks : KeyOf[t] \in Keys
ASSUME BoundsAssumption == {Slots, MaxAttempts, MaxRuns} \subseteq Nat \ {0}
ASSUME NoTableAssumption == NoTable \notin Tables

VARIABLES
    run,        \* "down", "running", "ok", "error"
    runs,       \* number of times the pipeline was started
    handled,    \* workflows that are skipped or done in this run
    current,    \* the workflow that is running
    emitting,   \* its table is open for writing
    table,      \* the tables: which one in the order of writing, and is it whole
    from,       \* the tables a table was made from
    pc,         \* what each task does
    attempts,   \* attempt_number of its call
    entry,      \* the cache: "none", "cut", "blank" (an answer without a word) or "whole"
    blank,      \* tasks that were given such an answer
    unlinked,   \* tasks that write to an entry another task has removed
    kept        \* history: keys whose entry was whole when this run started

flow == <<run, runs, handled, current, emitting, table, from>>
work == <<pc, attempts, entry, blank, unlinked>>
vars == <<flow, work, kept>>

TaskSteps == {"idle", "lookup", "read", "delete", "remove", "slot", "call", "store", "write",
              "done", "failed", "refused", "raced"}
Finished == {"idle", "done", "failed", "refused", "raced"}

Init ==
    /\ run = "down" /\ runs = 0
    /\ handled = {} /\ current = NoWorkflow /\ emitting = FALSE
    /\ table = [w \in Workflows |-> NoTable]
    /\ from = [w \in Workflows |-> <<>>]
    /\ pc = [t \in Tasks |-> "idle"]
    /\ attempts = [t \in Tasks |-> 0]
    /\ entry = [k \in Keys |-> "none"]
    /\ blank = {}
    /\ unlinked = {}
    /\ kept = {}

Idle == /\ current' = NoWorkflow /\ emitting' = FALSE /\ handled' = {}
        /\ pc' = [t \in Tasks |-> "idle"] /\ attempts' = [t \in Tasks |-> 0]
        /\ blank' = {} /\ unlinked' = {}

--------------------------------------------------------------------------------
(***************************************************************************)
(* run_pipeline()                                                          *)
(***************************************************************************)
\* no task is at work
TasksFinished == \A t \in Tasks : pc[t] \in Finished

\* the first run, or one that is resumed in the same directory
Start ==
    /\ run # "running" /\ TasksFinished
    /\ runs < MaxRuns
    /\ run' = "running" /\ runs' = runs + 1
    /\ Idle
    /\ kept' = {k \in Keys : entry[k] = "whole"}
    /\ UNCHANGED <<table, from, entry>>

\* the process is killed
Crash ==
    /\ run = "running"
    /\ run' = "down"
    /\ Idle
    /\ UNCHANGED <<runs, table, from, entry, kept>>

\* faulty: every workflow is run again
HasTableNot(w) == FALSE

\* storage.has
HasTable(w) == table[w] # NoTable

\* topological_sort: a workflow whose turn may have come
Turn(w) ==
    /\ run = "running" /\ current = NoWorkflow
    /\ w \notin handled /\ DependsOn[w] \subseteq handled

Skip(w) ==
    /\ Turn(w)
    /\ HasTable(w)
    /\ handled' = handled \cup {w}
    /\ UNCHANGED <<run, runs, current, emitting, table, from, work, kept>>

\* faulty: a part of a table is as good as the table
ReadableAny(w) == table[w] # NoTable

\* read_parquet needs the end of the file
Readable(w) == table[w] # NoTable /\ table[w].whole

\* inject_workflow_data_dependencies, workflow.run
Begin(w) ==
    /\ Turn(w)
    /\ ~HasTable(w)
    /\ \A d \in DependsOn[w] : Readable(d)
    /\ current' = w
    /\ pc' = [t \in Tasks |-> IF WorkflowOf[t] = w THEN "lookup" ELSE pc[t]]
    /\ attempts' = [t \in Tasks |-> IF WorkflowOf[t] = w THEN 0 ELSE attempts[t]]
    /\ UNCHANGED <<run, runs, handled, emitting, table, from, entry, blank, unlinked, kept>>

\* ... raises: the table of a dependency is not there, or only a part of it
InjectRaises(w) ==
    /\ Turn(w)
    /\ ~HasTable(w)
    /\ \E d \in DependsOn[w] : ~Readable(d)
    /\ run' = "error"
    /\ UNCHANGED <<runs, handled, current, emitting, table, from, work, kept>>

\* asyncio.gather passes on the exception of a task while others are still at work
GatherRaises ==
    /\ current \notin Swallowing
    /\ \E t \in Tasks : WorkflowOf[t] = current /\ pc[t] \in {"failed", "refused", "raced"}

\* a task raises, a verb raises, the table has no first row to be logged, or it cannot be
\* written
WorkflowRaises ==
    /\ run = "running" /\ current # NoWorkflow
    /\ TasksFinished \/ GatherRaises
    /\ run' = "error"
    /\ UNCHANGED <<runs, handled, current, emitting, table, from, work, kept>>

\* the event loop is closed: tasks that are left are cancelled where they are
Cancel ==
    /\ run = "error" /\ ~TasksFinished
    /\ Idle
    /\ UNCHANGED <<run, runs, table, from, entry, kept>>

\* ParquetTableEmitter.emit: the file is opened ...
Emit ==
    /\ run = "running" /\ current # NoWorkflow /\ ~emitting
    /\ TasksFinished /\ ~GatherRaises
    /\ emitting' = TRUE
    /\ table' = [table EXCEPT ![current] = [stamp |-> runs, whole |-> FALSE]]
    /\ from' = [from EXCEPT ![current] = [d \in DependsOn[current] |-> table[d]]]
    /\ UNCHANGED <<run, runs, handled, current, work, kept>>

\* ... written and closed
Emitted ==
    /\ run = "running" /\ emitting
    /\ emitting' = FALSE
    /\ table' = [table EXCEPT ![current].whole = TRUE]
    /\ handled' = handled \cup {current}
    /\ current' = NoWorkflow
    /\ UNCHANGED <<run, runs, from, work, kept>>

\* the table cannot be converted: the error is reported, the run goes on without it
EmitFails ==
    /\ run = "running" /\ current # NoWorkflow /\ ~emitting
    /\ TasksFinished /\ ~GatherRaises
    /\ handled' = handled \cup {current}
    /\ current' = NoWorkflow
    /\ UNCHANGED <<run, runs, emitting, table, from, work, kept>>

Complete ==
    /\ run = "running" /\ current = NoWorkflow
    /\ handled = Workflows
    /\ run' = "ok"
    /\ UNCHANGED <<runs, handled, current, emitting, table, from, work, kept>>

Flow ==
    \/ \E w \in Workflows : Skip(w) \/ Begin(w) \/ InjectRaises(w)
    \/ WorkflowRaises \/ Cancel \/ Emit \/ Emitted \/ EmitFails \/ Complete

--------------------------------------------------------------------------------
(***************************************************************************)
(* CachingLLM.__call__: one task.  The graph extractor swallows its        *)
(* exceptions, and the row is missing from a table that counts as complete;*)
(* the descriptions are summarized in a gather that raises.                *)
(***************************************************************************)
Goto(t, step) == pc' = [pc EXCEPT ![t] = step]

\* faulty: all tasks of a workflow share an entry
KeyShared(t) == KeyOf[CHOOSE u \in Tasks : WorkflowOf[u] = WorkflowOf[t]]

\* create_hash_key
Key(t) == KeyOf[t]

\* faulty: the cache is not asked
LookupNot(t) ==
    /\ pc[t] = "lookup"
    /\ Goto(t, "slot")
    /\ UNCHANGED <<attempts, entry, blank, unlinked>>

\* JsonPipelineCache.get: has
Lookup(t) ==
    /\ pc[t] = "lookup"
    /\ Goto(t, IF entry[Key(t)] = "none" THEN "slot" ELSE "read")
    /\ UNCHANGED <<attempts, entry, blank, unlinked>>

\* ... get, json.loads: an entry that is gone again raises, a part of one is deleted,
\* an answer without a word is none (caching_llm.py:86)
Read(t) ==
    /\ pc[t] = "read"
    /\ Goto(t, CASE entry[Key(t)] = "none" -> "raced"
                 [] entry[Key(t)] = "cut" -> "delete"
                 [] entry[Key(t)] = "blank" -> "slot"
                 [] OTHER -> "done")
    /\ UNCHANGED <<attempts, entry, blank, unlinked>>

\* ... delete: has
Delete(t) ==
    /\ pc[t] = "delete"
    /\ Goto(t, IF entry[Key(t)] = "none" THEN "slot" ELSE "remove")
    /\ UNCHANGED <<attempts, entry, blank, unlinked>>

Writers(k) == {t \in Tasks : pc[t] = "write" /\ Key(t) = k}

\* ... remove: whatever is in the entry by now; who writes to it writes to no file
Remove(t) ==
    /\ pc[t] = "remove"
    /\ IF entry[Key(t)] = "none" THEN Goto(t, "raced") /\ UNCHANGED <<entry, unlinked>>
       ELSE /\ Goto(t, "slot")
            /\ entry' = [entry EXCEPT ![Key(t)] = "none"]
            /\ unlinked' = unlinked \cup Writers(Key(t))
    /\ UNCHANGED <<attempts, blank>>

\* faulty: a call that failed keeps the semaphore
CallersKept == {t \in Tasks : pc[t] \in {"call", "failed"}}

\* RateLimitingLLM: tasks that hold the semaphore
Callers == {t \in Tasks : pc[t] = "call"}

Acquire(t) ==
    /\ pc[t] = "slot"
    /\ Cardinality(Callers) < Slots
    /\ Goto(t, "call")
    /\ UNCHANGED <<attempts, entry, blank, unlinked>>

\* an answer; no content, which is not cached; an error that is worth a retry, until
\* the attempts are used up; another error
Call(t) ==
    /\ pc[t] = "call"
    /\ \/ Goto(t, "store") /\ UNCHANGED attempts /\ blank' \in {blank, blank \cup {t}}
       \/ Goto(t, "done") /\ UNCHANGED <<attempts, blank>>
       \/ /\ attempts' = [attempts EXCEPT ![t] = @ + 1]
          /\ IF attempts'[t] = MaxAttempts THEN Goto(t, "failed") ELSE UNCHANGED pc
          /\ UNCHANGED blank
       \/ Goto(t, "refused") /\ UNCHANGED <<attempts, blank>>
    /\ UNCHANGED <<entry, unlinked>>

\* JsonPipelineCache.set: the entry is opened for writing ...
Store(t) ==
    /\ pc[t] = "store"
    /\ Goto(t, "write")
    /\ entry' = [entry EXCEPT ![Key(t)] = "cut"]
    /\ UNCHANGED <<attempts, blank, unlinked>>

Answer(t) == IF t \in blank THEN "blank" ELSE "whole"

\* ... written and closed; two writers may leave a mixture
Write(t) ==
    /\ pc[t] = "write"
    /\ Goto(t, "done")
    /\ IF t \in unlinked THEN UNCHANGED entry
       ELSE \E left \in {Answer(t)} \cup
                        (IF Writers(Key(t)) \ unlinked # {t} \/ entry[Key(t)] # "cut"
                         THEN {"cut"} ELSE {}) :
               entry' = [entry EXCEPT ![Key(t)] = left]
    /\ unlinked' = unlinked \ {t} /\ blank' = blank \ {t}
    /\ UNCHANGED attempts

Work ==
    /\ run \in {"running", "error"}
    /\ \E t \in Tasks :
          \/ Lookup(t) \/ Read(t) \/ Delete(t) \/ Remove(t)
          \/ Acquire(t) \/ Call(t) \/ Store(t) \/ Write(t)
    /\ UNCHANGED <<flow, kept>>

--------------------------------------------------------------------------------
Next == Start \/ Crash \/ Flow \/ Work

Spec == Init /\ [][Next]_vars

\* a run goes on until it is killed; tasks that are ready are run by the event loop
FairSpec == Spec /\ WF_vars(Flow \/ Work)
--------------------------------------------------------------------------------
(***************************************************************************)
(* Properties.                                                             *)
(***************************************************************************)
TypeOK ==
    /\ run \in {"down", "running", "ok", "error"}
    /\ runs \in 0 .. MaxRuns
    /\ handled \subseteq Workflows
    /\ current \in Workflows \cup {NoWorkflow}
    /\ emitting \in BOOLEAN
    /\ table \in [Workflows -> {NoTable} \cup Tables]
    /\ from = [w \in Workflows |-> from[w]]
    /\ pc \in [Tasks -> TaskSteps]
    /\ attempts \in [Tasks -> 0 .. MaxAttempts]
    /\ entry \in [Keys -> {"none", "cut", "blank", "whole"}]
    /\ blank \subseteq Tasks
    /\ unlinked \subseteq Tasks
    /\ kept \subseteq Keys

\* However often runs die and are resumed, a table was made of the tables of its
\* dependencies that are in the directory now (run.py:315 never makes one again).
TablesConsistent ==
    \A w \in Workflows : table[w] # NoTable => from[w] = [d \in DependsOn[w] |-> table[d]]

\* A run that reports no error leaves every table that another workflow needs whole:
\* what a crash or a failed emitter did to it is not passed over, except at the end.
SuccessMeansWhole ==
    run = "ok" => \A w \in Workflows : \A d \in DependsOn[w] :
        table[d] # NoTable /\ table[d].whole

\* An answer that is stored whole when a run starts is not asked for again in it.
StoredAnswersReused ==
    \A t \in Tasks : KeyOf[t] \in kept => pc[t] \notin {"slot", "call", "store", "write"}

Twins(t, u) == u # t /\ WorkflowOf[u] = WorkflowOf[t] /\ KeyOf[u] = KeyOf[t]

\* A row is lost to a race in the cache only if another task of its workflow asks the
\* same question, whatever runs before it left there.
RowsLostToTwins ==
    \A t \in Tasks : pc[t] = "raced" =>
        \E u \in Tasks : Twins(t, u)

\* A run ends, and its tasks with it, whatever was left in the directory and the cache.
PipelineEnds == run = "running" ~> run # "running" /\ TasksFinished
--------------------------------------------------------------------------------
(***************************************************************************)
(* The inductive invariant behind them.                                    *)
(***************************************************************************)
\* a run counts, and the table it writes to is there
Writing ==
    run = "running" => /\ runs # 0
                       /\ emitting => current # NoWorkflow /\ table[current] # NoTable

\* who may still ask the model has attempts left
AttemptsLeft ==
    \A t \in Tasks : pc[t] \notin Finished \cup {"store", "write"} => attempts[t] < MaxAttempts

\* only tasks of the workflow that runs, or that has raised, are at work, and they end
\* before its table is written
AtWork ==
    \A t \in Tasks : pc[t] \notin Finished =>
        run \in {"running", "error"} /\ WorkflowOf[t] = current /\ ~emitting

\* what a table was made of is whole, and still there
MadeOfWhole ==
    \A w \in Workflows : table[w] # NoTable =>
        /\ from[w] = [d \in DependsOn[w] |-> table[d]]
        /\ \A d \in DependsOn[w] : Readable(d)

\* a workflow runs because it has no table, on tables that are whole
RunsOnWhole ==
    run = "running" /\ current # NoWorkflow =>
        /\ \A d \in DependsOn[current] : Readable(d)
        /\ emitting => ~table[current].whole
        /\ ~emitting => table[current] = NoTable

HandledOnWhole ==
    run = "running" => \A w \in handled : \A d \in DependsOn[w] : Readable(d)

\* answers stored before the run stay, and who asks for one reads it
KeptStays ==
    /\ \A k \in kept : entry[k] = "whole"
    /\ \A t \in Tasks : KeyOf[t] \in kept => pc[t] \in {"idle", "lookup", "read", "done"}

\* nobody takes the entry away from a task without a twin
AloneUndisturbed ==
    \A t \in Tasks :
        \/ \E u \in Tasks : Twins(t, u)
        \/ /\ pc[t] \in {"read", "remove"} => entry[KeyOf[t]] # "none"
           /\ pc[t] # "raced"

PipelineInv ==
    /\ TypeOK /\ Writing /\ AttemptsLeft /\ AtWork
    /\ MadeOfWhole /\ RunsOnWhole /\ HandledOnWhole /\ SuccessMeansWhole
    /\ KeptStays /\ AloneUndisturbed
================================================================================
