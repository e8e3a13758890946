--------------------------- MODULE PipelineRunProofs ---------------------------
(***************************************************************************)
(* What holds of PipelineRun for any workflows, tasks, keys and bounds.    *)
(* The invariant is proved in layers: the types, who is at work, the       *)
(* tables (which only Flow changes), the cache (which only Work changes).  *)
(***************************************************************************)
EXTENDS PipelineRun, TLAPS

\* what one task does, the variables Work leaves alone aside
TaskStep(t) ==
    \/ Lookup(t) \/ Read(t) \/ Delete(t) \/ Remove(t)
    \/ Acquire(t) \/ Call(t) \/ Store(t) \/ Write(t)

\* A step is one of run_pipeline or one of a task.
LEMMA StepCases ==
    ASSUME [Next]_vars
    PROVE  \/ UNCHANGED vars \/ Start \/ Crash \/ Cancel
           \/ \E w \in Workflows : Skip(w) \/ Begin(w) \/ InjectRaises(w)
           \/ WorkflowRaises \/ Emit \/ Emitted \/ EmitFails \/ Complete
           \/ (\E t \in Tasks : TaskStep(t)) /\ UNCHANGED <<flow, kept>>
  BY DEF Next, Flow, Work, TaskStep

--------------------------------------------------------------------------------
(***************************************************************************)
(* Types.                                                                  *)
(***************************************************************************)
Typed == TypeOK /\ Writing /\ AttemptsLeft

LEMMA InitTyped == Init => Typed
<1> SUFFICES ASSUME Init PROVE Typed
  OBVIOUS
<1>1. MaxAttempts \in Nat \ {0} /\ MaxRuns \in Nat \ {0}
  BY BoundsAssumption
<1>2. TypeOK
  <2>1. pc \in [Tasks -> TaskSteps] /\ entry \in [Keys -> {"none", "cut", "blank", "whole"}]
    BY DEF Init, TaskSteps
  <2>2. attempts \in [Tasks -> 0 .. MaxAttempts]
    BY <1>1 DEF Init
  <2>3. table \in [Workflows -> {NoTable} \cup Tables] /\ from = [w \in Workflows |-> from[w]]
    BY DEF Init
  <2>4. runs \in 0 .. MaxRuns
    BY <1>1 DEF Init
  <2>5. handled \subseteq Workflows /\ current \in Workflows \cup {NoWorkflow}
    BY DEF Init
  <2> QED
    BY <2>1, <2>2, <2>3, <2>4, <2>5 DEF Init, TypeOK
<1>3. AttemptsLeft
  BY DEF Init, AttemptsLeft, Finished
<1> QED
  BY <1>2, <1>3 DEF Init, Typed, Writing

\* The steps of run_pipeline keep the types.
LEMMA FlowTyped ==
    ASSUME Typed,
           \/ Start \/ Crash \/ Cancel
           \/ \E w \in Workflows : Skip(w) \/ Begin(w) \/ InjectRaises(w)
           \/ WorkflowRaises \/ Emit \/ Emitted \/ EmitFails \/ Complete
    PROVE  Typed'
<1> USE DEF Typed, TypeOK, Writing, AttemptsLeft, TaskSteps, Finished
<1>b. MaxAttempts \in Nat \ {0} /\ MaxRuns \in Nat \ {0}
  BY BoundsAssumption
<1>n. NoWorkflow \notin Workflows
  BY WorkflowsAssumption
<1>i. ASSUME Idle PROVE /\ pc' \in [Tasks -> TaskSteps] /\ attempts' \in [Tasks -> 0 .. MaxAttempts]
                        /\ blank' \subseteq Tasks /\ unlinked' \subseteq Tasks
                        /\ handled' \subseteq Workflows /\ current' = NoWorkflow
                        /\ emitting' = FALSE /\ AttemptsLeft'
  BY <1>i, <1>b DEF Idle
<1>1. CASE Start
  BY <1>1, <1>b, <1>i DEF Start
<1>2. CASE Crash \/ Cancel
  BY <1>2, <1>b, <1>i DEF Crash, Cancel
<1>3. ASSUME NEW w \in Workflows, Skip(w) PROVE Typed'
  BY <1>3 DEF Skip, Turn, work
<1>4. ASSUME NEW w \in Workflows, Begin(w) PROVE Typed'
  BY <1>4, <1>b, <1>n DEF Begin, Turn
<1>5. ASSUME NEW w \in Workflows, InjectRaises(w) PROVE Typed'
  BY <1>5 DEF InjectRaises, work
<1>6. CASE WorkflowRaises
  BY <1>6 DEF WorkflowRaises, work
<1>7. CASE Emit
  <2>1. [stamp |-> runs, whole |-> FALSE] \in Tables
    BY <1>7, <1>b DEF Emit, Tables
  <2>2. table' \in [Workflows -> {NoTable} \cup Tables]
    BY <1>7, <2>1 DEF Emit
  <2>3. from' = [w \in Workflows |-> from'[w]]
    BY <1>7 DEF Emit
  <2>4. table'[current] # NoTable
    BY <1>7, <2>1, NoTableAssumption DEF Emit
  <2> QED
    BY <1>7, <2>2, <2>3, <2>4 DEF Emit, work
<1>8. CASE Emitted
  <2>1. current \in Workflows
    BY <1>8 DEF Emitted
  <2>2. table[current] \in Tables
    BY <1>8, <2>1 DEF Emitted
  <2>3. table' \in [Workflows -> {NoTable} \cup Tables]
    BY <1>8, <2>1, <2>2 DEF Emitted, Tables
  <2>4. table'[current] # NoTable
    BY <1>8, <2>1, <2>2, NoTableAssumption DEF Emitted, Tables
  <2> QED
    BY <1>8, <2>3, <2>4 DEF Emitted, work
<1>9. CASE EmitFails
  BY <1>9 DEF EmitFails, work
<1>10. CASE Complete
  BY <1>10 DEF Complete, work
<1> QED
  BY <1>1, <1>2, <1>3, <1>4, <1>5, <1>6, <1>7, <1>8, <1>9, <1>10
\* The steps of a task keep the types.
LEMMA TaskTyped ==
    ASSUME Typed, NEW t \in Tasks, TaskStep(t), UNCHANGED <<flow, kept>>
    PROVE  Typed'
<1> USE DEF Typed, TypeOK, Writing, AttemptsLeft, TaskSteps, Finished, flow
<1>b. MaxAttempts \in Nat \ {0} /\ KeyOf[t] \in Keys
  BY BoundsAssumption, WorkflowsAssumption
<1>1. CASE Lookup(t)
  BY <1>1 DEF Lookup, Goto
<1>2. CASE Read(t)
  BY <1>2 DEF Read, Goto
<1>3. CASE Delete(t)
  BY <1>3 DEF Delete, Goto
<1>4. CASE Remove(t)
  BY <1>4, <1>b DEF Remove, Goto, Key, Writers
<1>5. CASE Acquire(t)
  BY <1>5 DEF Acquire, Goto
<1>6. CASE Call(t)
  BY <1>6, <1>b DEF Call, Goto
<1>7. CASE Store(t)
  BY <1>7, <1>b DEF Store, Goto, Key
<1>8. CASE Write(t)
  BY <1>8, <1>b DEF Write, Goto, Key, Answer
<1> QED
  BY <1>1, <1>2, <1>3, <1>4, <1>5, <1>6, <1>7, <1>8 DEF TaskStep

LEMMA NextTyped == Typed /\ [Next]_vars => Typed'
<1> SUFFICES ASSUME Typed, [Next]_vars PROVE Typed'
  OBVIOUS
<1>1. CASE UNCHANGED vars
  BY <1>1 DEF vars, flow, work, Typed, TypeOK, Writing, AttemptsLeft
<1> QED
  BY <1>1, StepCases, FlowTyped, TaskTyped

\* Every variable has its type, a run that goes on has attempts left for its calls,
\* and the table it writes to exists.
THEOREM PipelineTypeCorrect == Spec => []TypeOK
<1>1. Spec => []Typed
  BY InitTyped, NextTyped, PTL DEF Spec
<1>2. Typed => TypeOK
  BY DEF Typed
<1> QED
  BY <1>1, <1>2, PTL

--------------------------------------------------------------------------------
(***************************************************************************)
(* Tables.                                                                 *)
(***************************************************************************)
Tabled == MadeOfWhole /\ RunsOnWhole /\ HandledOnWhole /\ SuccessMeansWhole

LEMMA InitTabled == Init => Tabled
  BY DEF Init, Tabled, MadeOfWhole, RunsOnWhole, HandledOnWhole, SuccessMeansWhole

\* The tables stay consistent in every step of run_pipeline.
LEMMA FlowTabled ==
    ASSUME Typed, Tabled,
           \/ Start \/ Crash \/ Cancel
           \/ \E w \in Workflows : Skip(w) \/ Begin(w) \/ InjectRaises(w)
           \/ WorkflowRaises \/ Emit \/ Emitted \/ EmitFails \/ Complete
    PROVE  Tabled'
<1> USE DEF Tabled, MadeOfWhole, RunsOnWhole, HandledOnWhole, SuccessMeansWhole, Readable
<1>t. /\ table \in [Workflows -> {NoTable} \cup Tables]
      /\ from = [w \in Workflows |-> from[w]]
      /\ current \in Workflows \cup {NoWorkflow}
      /\ Writing
  BY DEF Typed, TypeOK
<1>d. DependsOn \in [Workflows -> SUBSET Workflows] /\ NoWorkflow \notin Workflows
  BY WorkflowsAssumption
<1>1. CASE Start
  BY <1>1 DEF Start, Idle
<1>2. CASE Crash \/ Cancel
  BY <1>2 DEF Crash, Cancel, Idle
<1>3. ASSUME NEW w \in Workflows, Skip(w) PROVE Tabled'
  BY <1>3 DEF Skip, Turn, HasTable
<1>4. ASSUME NEW w \in Workflows, Begin(w) PROVE Tabled'
  <2>1. /\ run' = run /\ table' = table /\ from' = from /\ handled' = handled
        /\ current' = w /\ emitting' = emitting /\ run = "running"
        /\ table[w] = NoTable /\ \A d \in DependsOn[w] : Readable(d)
    BY <1>4 DEF Begin, Turn, HasTable
  <2>2. ~emitting
    BY <1>4, <1>t DEF Begin, Turn, Writing
  <2> QED
    BY <2>1, <2>2
<1>5. ASSUME NEW w \in Workflows, InjectRaises(w) PROVE Tabled'
  BY <1>5 DEF InjectRaises, Turn
<1>6. CASE WorkflowRaises
  BY <1>6 DEF WorkflowRaises
<1>7. CASE Emit
  <2>1. current \in Workflows /\ table[current] = NoTable /\ run = "running" /\ ~emitting
    BY <1>7, <1>t DEF Emit
  <2>2. ASSUME NEW d \in Workflows, Readable(d) PROVE d # current /\ table'[d] = table[d]
    BY <1>7, <2>1, <2>2, <1>t DEF Emit
  <2>3. MadeOfWhole'
    <3> SUFFICES ASSUME NEW w \in Workflows, table'[w] # NoTable
                 PROVE  /\ from'[w] = [d \in DependsOn[w] |-> table'[d]]
                        /\ \A d \in DependsOn[w] : Readable(d)'
      OBVIOUS
    <3>1. \A d \in DependsOn[w] : Readable(d) /\ d \in Workflows
      BY <1>7, <2>1, <1>t, <1>d DEF Emit
    <3>2. \A d \in DependsOn[w] : Readable(d)' /\ table'[d] = table[d]
      BY <3>1, <2>2
    <3>3. from'[w] = [d \in DependsOn[w] |-> table[d]]
      BY <1>7, <2>1, <1>t DEF Emit
    <3> QED
      BY <3>2, <3>3
  <2>4. RunsOnWhole'
    <3>1. \A d \in DependsOn[current] : Readable(d)'
      BY <1>d, <2>1, <2>2
    <3>2. ~table'[current].whole
      BY <1>7, <2>1, <1>t DEF Emit
    <3> QED
      BY <1>7, <3>1, <3>2 DEF Emit
  <2>5. HandledOnWhole'
    <3>1. \A w \in handled : \A d \in DependsOn[w] : Readable(d) /\ d \in Workflows
      BY <2>1, <1>d DEF Typed, TypeOK
    <3> QED
      BY <1>7, <3>1, <2>2 DEF Emit
  <2>6. SuccessMeansWhole'
    BY <1>7 DEF Emit
  <2> QED
    BY <2>3, <2>4, <2>5, <2>6
<1>8. CASE Emitted
  <2>1. /\ current \in Workflows /\ run = "running" /\ emitting
        /\ table[current] \in Tables /\ ~table[current].whole
    BY <1>8, <1>t DEF Emitted, Writing
  <2>2. table' = [table EXCEPT ![current].whole = TRUE]
    BY <1>8 DEF Emitted
  <2>3. ASSUME NEW d \in Workflows, Readable(d) PROVE Readable(d)' /\ table'[d] = table[d]
    BY <2>1, <2>2, <2>3, <1>t
  <2>4. MadeOfWhole'
    <3> SUFFICES ASSUME NEW w \in Workflows, table'[w] # NoTable
                 PROVE  /\ from'[w] = [d \in DependsOn[w] |-> table'[d]]
                        /\ \A d \in DependsOn[w] : Readable(d)'
      OBVIOUS
    <3>1. table[w] # NoTable
      BY <2>1, <2>2, <1>t, NoTableAssumption
    <3>2. \A d \in DependsOn[w] : Readable(d)' /\ table'[d] = table[d]
      BY <3>1, <2>3, <1>d
    <3>3. from'[w] = [d \in DependsOn[w] |-> table[d]]
      BY <1>8, <3>1 DEF Emitted
    <3> QED
      BY <3>2, <3>3
  <2>5. HandledOnWhole'
    <3>1. handled' \subseteq Workflows /\ handled' = handled \cup {current}
      BY <1>8, <2>1 DEF Emitted, Typed, TypeOK
    <3>2. \A w \in handled' : \A d \in DependsOn[w] : Readable(d) /\ d \in Workflows
      <4> SUFFICES ASSUME NEW w \in handled' PROVE \A d \in DependsOn[w] : Readable(d) /\ d \in Workflows
        OBVIOUS
      <4>1. w \in handled \/ w = current
        BY <3>1
      <4>2. current # NoWorkflow
        BY <2>1, <1>d
      <4>3. \A d \in DependsOn[w] : Readable(d)
        BY <4>1, <4>2, <2>1
      <4> QED
        BY <4>3, <3>1, <1>d
    <3> QED
      BY <3>2, <2>3
  <2> QED
    BY <1>8, <2>4, <2>5 DEF Emitted
<1>9. CASE EmitFails
  BY <1>9 DEF EmitFails
<1>10. CASE Complete
  BY <1>10 DEF Complete
<1> QED
  BY <1>1, <1>2, <1>3, <1>4, <1>5, <1>6, <1>7, <1>8, <1>9, <1>10

LEMMA NextTabled == Typed /\ Tabled /\ [Next]_vars => Tabled'
<1> SUFFICES ASSUME Typed, Tabled, [Next]_vars PROVE Tabled'
  OBVIOUS
<1>1. CASE UNCHANGED flow
  BY <1>1 DEF flow, Tabled, MadeOfWhole, RunsOnWhole, HandledOnWhole, SuccessMeansWhole, Readable
<1>2. CASE UNCHANGED vars
  BY <1>1, <1>2 DEF vars
<1> QED
  BY <1>1, <1>2, StepCases, FlowTabled

LEMMA AlwaysTabled == Spec => [](Typed /\ Tabled)
  BY InitTyped, NextTyped, InitTabled, NextTabled, PTL DEF Spec

\* However often runs die and are resumed, a table was made of the tables that are
\* there now.
THEOREM TablesStayConsistent == Spec => []TablesConsistent
<1>1. Tabled => TablesConsistent
  BY DEF Tabled, MadeOfWhole, TablesConsistent
<1> QED
  BY <1>1, AlwaysTabled, PTL

\* A run that reports no error leaves every table that another one needs whole.
THEOREM SuccessLeavesWhole == Spec => []SuccessMeansWhole
  BY AlwaysTabled, PTL DEF Tabled
--------------------------------------------------------------------------------
(***************************************************************************)
(* The cache.                                                              *)
(***************************************************************************)
Cached == AtWork /\ KeptStays /\ AloneUndisturbed

LEMMA InitCached == Init => Cached
<1> SUFFICES ASSUME Init PROVE Cached
  OBVIOUS
<1>1. \A t \in Tasks : pc[t] = "idle"
  BY DEF Init
<1> QED
  BY <1>1 DEF Init, Cached, AtWork, KeptStays, AloneUndisturbed, Finished

\* run_pipeline starts tasks and stops them, and leaves the cache alone.
LEMMA FlowCached ==
    ASSUME Typed, Cached,
           \/ Start \/ Crash \/ Cancel
           \/ \E w \in Workflows : Skip(w) \/ Begin(w) \/ InjectRaises(w)
           \/ WorkflowRaises \/ Emit \/ Emitted \/ EmitFails \/ Complete
    PROVE  Cached'
<1>t. pc \in [Tasks -> TaskSteps] /\ Writing
  BY DEF Typed, TypeOK
<1>w. NoWorkflow \notin Workflows /\ WorkflowOf \in [Tasks -> Workflows]
  BY WorkflowsAssumption
<1>1. CASE Start \/ Crash \/ Cancel
  <2>1. \A t \in Tasks : pc'[t] = "idle"
    BY <1>1 DEF Start, Crash, Cancel, Idle
  <2>2. entry' = entry /\ \A k \in kept' : entry[k] = "whole"
    BY <1>1 DEF Start, Crash, Cancel, Cached, KeptStays
  <2> QED
    BY <2>1, <2>2 DEF Cached, AtWork, KeptStays, AloneUndisturbed, Finished
<1>2. ASSUME NEW w \in Workflows, Begin(w) PROVE Cached'
  <2>1. /\ run' = "running" /\ run = "running" /\ current = NoWorkflow /\ current' = w
        /\ ~emitting' /\ entry' = entry /\ kept' = kept
    BY <1>2, <1>t DEF Begin, Turn, Writing
  <2>2. \A t \in Tasks : /\ pc[t] \in Finished
                        /\ pc'[t] = IF WorkflowOf[t] = w THEN "lookup" ELSE pc[t]
    BY <1>2, <2>1, <1>w DEF Begin, Cached, AtWork
  <2>3. AtWork'
    BY <2>1, <2>2 DEF AtWork
  <2>4. KeptStays' /\ AloneUndisturbed'
    BY <2>1, <2>2 DEF Cached, KeptStays, AloneUndisturbed
  <2> QED
    BY <2>3, <2>4 DEF Cached
<1>3. ASSUME UNCHANGED work, UNCHANGED kept,
             (run' = run /\ current' = current /\ emitting' = emitting) \/ TasksFinished
      PROVE  Cached'
  BY <1>3 DEF work, Cached, AtWork, KeptStays, AloneUndisturbed, TasksFinished
<1>4. ASSUME run = "running", current = NoWorkflow PROVE TasksFinished
  BY <1>4, <1>w DEF Cached, AtWork, TasksFinished
<1>5. ASSUME NEW w \in Workflows, Skip(w) \/ InjectRaises(w) PROVE Cached'
  BY <1>3, <1>4, <1>5 DEF Skip, InjectRaises, Turn
<1>6. CASE Emit \/ EmitFails
  BY <1>3, <1>6 DEF Emit, EmitFails
<1>9. CASE WorkflowRaises
  BY <1>9 DEF WorkflowRaises, work, Cached, AtWork, KeptStays, AloneUndisturbed
<1>7. CASE Emitted
  <2>1. TasksFinished
    BY <1>7 DEF Emitted, Cached, AtWork, TasksFinished
  <2> QED
    BY <1>3, <1>7, <2>1 DEF Emitted
<1>8. CASE Complete
  BY <1>3, <1>4, <1>8 DEF Complete
<1> QED
  BY <1>1, <1>2, <1>5, <1>6, <1>7, <1>8, <1>9

\* A task takes an entry away only from tasks with its question.
LEMMA TaskCached ==
    ASSUME Typed, Cached, NEW t \in Tasks, TaskStep(t), UNCHANGED <<flow, kept>>
    PROVE  Cached'
<1>t. /\ pc \in [Tasks -> TaskSteps] /\ KeyOf[t] \in Keys /\ \A u \in Tasks : KeyOf[u] \in Keys
      /\ entry \in [Keys -> {"none", "cut", "blank", "whole"}]
  BY WorkflowsAssumption DEF Typed, TypeOK
<1>f. run' = run /\ current' = current /\ emitting' = emitting /\ kept' = kept
  BY DEF flow
<1>s. /\ pc[t] \notin Finished
      /\ \A u \in Tasks \ {t} : pc'[u] = pc[u]
  BY <1>t DEF TaskStep, Lookup, Read, Delete, Remove, Acquire, Call, Store, Write, Goto, Finished
<1>e. \A k \in Keys \ {KeyOf[t]} : entry'[k] = entry[k]
  BY <1>t DEF TaskStep, Lookup, Read, Delete, Remove, Acquire, Call, Store, Write, Key
<1>1. AtWork'
  BY <1>f, <1>s DEF Cached, AtWork
<1>2. KeptStays'
  <2>1. CASE KeyOf[t] \in kept
    <3>1. pc[t] \in {"lookup", "read"} /\ entry[KeyOf[t]] = "whole"
      BY <2>1, <1>s DEF Cached, KeptStays, Finished
    <3>2. pc'[t] \in {"read", "done"} /\ entry' = entry
      BY <3>1, <1>t DEF TaskStep, Lookup, Read, Delete, Remove, Acquire, Call, Store, Write, Goto, Key
    <3> QED
      BY <3>2, <1>f, <1>s DEF Cached, KeptStays
  <2>2. CASE KeyOf[t] \notin kept
    <3>1. kept \subseteq Keys
      BY DEF Typed, TypeOK
    <3> QED
      BY <2>2, <3>1, <1>e, <1>f, <1>s DEF Cached, KeptStays
  <2> QED
    BY <2>1, <2>2
<1>3. AloneUndisturbed'
  <2> SUFFICES ASSUME NEW u \in Tasks, ~ \E x \in Tasks : Twins(u, x)
               PROVE  /\ pc'[u] \in {"read", "remove"} => entry'[KeyOf[u]] # "none"
                      /\ pc'[u] # "raced"
    BY DEF AloneUndisturbed, Twins
  <2>0. /\ pc[u] \in {"read", "remove"} => entry[KeyOf[u]] # "none"
        /\ pc[u] # "raced"
    BY DEF Cached, AloneUndisturbed
  <2>1. CASE u = t
    BY <2>0, <2>1, <1>t DEF TaskStep, Lookup, Read, Delete, Remove, Acquire, Call, Store, Write,
                            Goto, Key
  <2>2. CASE u # t
    <3>1. pc'[u] = pc[u]
      BY <2>2, <1>s
    <3>2. CASE KeyOf[u] # KeyOf[t]
      BY <3>1, <3>2, <2>0, <1>t, <1>e
    <3>3. CASE KeyOf[u] = KeyOf[t]
      <4>1. WorkflowOf[u] # WorkflowOf[t]
        BY <2>2, <3>3 DEF Twins
      <4>2. pc[u] \in Finished
        BY <4>1, <1>s DEF Cached, AtWork
      <4> QED
        BY <3>1, <4>2, <2>0 DEF Finished
    <3> QED
      BY <3>2, <3>3
  <2> QED
    BY <2>1, <2>2
<1> QED
  BY <1>1, <1>2, <1>3 DEF Cached

LEMMA NextCached == Typed /\ Cached /\ [Next]_vars => Cached'
<1> SUFFICES ASSUME Typed, Cached, [Next]_vars PROVE Cached'
  OBVIOUS
<1>1. CASE UNCHANGED vars
  BY <1>1 DEF vars, flow, work, Cached, AtWork, KeptStays, AloneUndisturbed
<1> QED
  BY <1>1, StepCases, FlowCached, TaskCached

\* The inductive invariant: who is at work, what tables are made of, and what the
\* cache holds agree at every step, crashes and resumed runs included.
THEOREM PipelineInvariant == Spec => []PipelineInv
<1>1. Spec => [](Typed /\ Tabled /\ Cached)
  BY InitTyped, NextTyped, InitTabled, NextTabled, InitCached, NextCached, PTL DEF Spec
<1>2. Typed /\ Tabled /\ Cached => PipelineInv
  BY DEF Typed, Tabled, Cached, PipelineInv
<1> QED
  BY <1>1, <1>2, PTL

\* An answer that is stored whole when a run starts is not asked for again in it.
THEOREM AnswersReused == Spec => []StoredAnswersReused
<1>1. PipelineInv => StoredAnswersReused
  BY DEF PipelineInv, KeptStays, StoredAnswersReused
<1> QED
  BY <1>1, PipelineInvariant, PTL

\* Only a row whose question another task of its workflow asks can be lost to a race.
THEOREM RacesHurtTwinsOnly == Spec => []RowsLostToTwins
<1>1. PipelineInv => RowsLostToTwins
  BY DEF PipelineInv, AloneUndisturbed, RowsLostToTwins
<1> QED
  BY <1>1, PipelineInvariant, PTL
================================================================================
