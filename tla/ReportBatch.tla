------------------------------ MODULE ReportBatch -------------------------------
(***************************************************************************)
(* The reports of one level: community_report_batch, its pool of worker    *)
(* processes, the retries of generate_community_report and of llm_invoker, *)
(* and the embedding of the finished rows by a pool of threads.            *)
(*                                                                         *)
(* Communities are 1 .. N in the order of the dictionary.  starmap hands   *)
(* them out in chunks; an exception ends its chunk, the other chunks go    *)
(* on, and starmap raises when all have ended.                             *)
(***************************************************************************)
EXTENDS Integers, FiniteSets

CONSTANTS
    N, Extractive,   \* as in LevelReports
    Workers,         \* args.num_workers processes
    ChunksPerWorker, \* chunks starmap aims at per process, 4 in the library
    MaxRetries,      \* calls per answer, 5 in llm_invoker
    MaxGenerate,     \* answers per report, 3 in generate_community_report
    EmbedWorkers     \* args.embedding_num_workers

Communities == 1 .. N

ASSUME CommunitiesAssumption == N \in Nat \ {0} /\ Extractive \subseteq Communities
ASSUME WorkersAssumption ==
    /\ IsFiniteSet(Workers) /\ Workers # {}
    /\ ChunksPerWorker \in Nat \ {0} /\ EmbedWorkers \in Nat \ {0}
ASSUME RetriesAssumption == MaxRetries \in Nat \ {0} /\ MaxGenerate \in Nat \ {0}

VARIABLES
    pc,      \* "starmap", "context", "local", "embed", "drain", "returned" or "raised"
    next,    \* the next chunk of the task queue
    work,    \* what each worker is doing
    made,    \* rows finished inside a worker
    value,   \* rows starmap has collected
    success, \* no chunk has raised
    left,    \* chunks that have not ended
    calls,   \* calls of the language model spent on each community
    emb,     \* the embedding of each row
    local    \* args.embedding_local, chosen once

pool == <<next, work, made, value, success, left, calls>>
vars == <<pc, pool, emb, local>>

\* chunksize of starmap: the quotient, rounded up
ChunkSize == (N + Cardinality(Workers) * ChunksPerWorker - 1)
                \div (Cardinality(Workers) * ChunksPerWorker)
Chunks == 1 .. (N + ChunkSize - 1) \div ChunkSize
Members(i) == {c \in Communities : (i - 1) * ChunkSize < c /\ c <= i * ChunkSize}

\* a worker at the beginning of community c of chunk i
At(i, c) == [chunk |-> i, at |-> c, retries |-> 0, gens |-> 0]
Free == At(0, 0)

Busy(w) == work[w].chunk # 0
Serving(w, c) == Busy(w) /\ c = work[w].at /\ c \in Members(work[w].chunk)

--------------------------------------------------------------------------------
(***************************************************************************)
(* A worker.                                                               *)
(***************************************************************************)
Init ==
    /\ pc = "starmap" /\ next = 1
    /\ work = [w \in Workers |-> Free]
    /\ made = [c \in Communities |-> "none"]
    /\ value = [c \in Communities |-> "none"]
    /\ success = TRUE
    /\ left = Chunks
    /\ calls = [c \in Communities |-> 0]
    /\ emb = [c \in Communities |-> "todo"]
    /\ local \in BOOLEAN

TakeChunk(w) ==
    /\ ~Busy(w) /\ next \in Chunks
    /\ work' = [work EXCEPT ![w] = At(next, (next - 1) * ChunkSize + 1)]
    /\ next' = next + 1
    /\ UNCHANGED <<pc, made, value, success, left, calls, emb, local>>

\* the row of c is finished, the worker goes on to the next community of its chunk
Finish(w, c, row) ==
    /\ made' = [made EXCEPT ![c] = row]
    /\ work' = [work EXCEPT ![w] = At(work[w].chunk, c + 1)]

\* source texts make the report
Extract(w, c) ==
    /\ Serving(w, c) /\ c \in Extractive
    /\ Finish(w, c, "extract")
    /\ UNCHANGED <<pc, next, value, success, left, calls, emb, local>>

\* An answer that passes the check of its fields, or the weak check, which does not look
\* at types: "odd" is a report whose title and summary cannot be added to each other.
Answer(w, c) ==
    /\ Serving(w, c) /\ c \notin Extractive
    /\ calls' = [calls EXCEPT ![c] = @ + 1]
    /\ \E row \in {"report", "odd"} : Finish(w, c, row)
    /\ UNCHANGED <<pc, next, value, success, left, emb, local>>

\* no JSON, or fields are missing: ask again, and in the end take a placeholder
InvalidAnswer(w, c) ==
    /\ Serving(w, c) /\ c \notin Extractive
    /\ calls' = [calls EXCEPT ![c] = @ + 1]
    /\ IF work[w].gens + 1 < MaxGenerate
       THEN /\ work' = [work EXCEPT ![w].gens = @ + 1, ![w].retries = 0]
            /\ UNCHANGED made
       ELSE Finish(w, c, "placeholder")
    /\ UNCHANGED <<pc, next, value, success, left, emb, local>>

\* llm_invoker sleeps and calls again
CallFails(w, c) ==
    /\ Serving(w, c) /\ c \notin Extractive
    /\ work[w].retries + 1 < MaxRetries
    /\ calls' = [calls EXCEPT ![c] = @ + 1]
    /\ work' = [work EXCEPT ![w].retries = @ + 1]
    /\ UNCHANGED <<pc, next, made, value, success, left, emb, local>>

\* a chunk has ended; the queue of the pool keeps a result for starmap
EndChunk(w) ==
    /\ work' = [work EXCEPT ![w] = Free]
    /\ left' = left \ {work[w].chunk}

\* the last call failed: llm_invoker raises and the rest of the chunk is dropped
WorkerRaises(w, c) ==
    /\ Serving(w, c) /\ c \notin Extractive
    /\ work[w].retries + 1 = MaxRetries
    /\ calls' = [calls EXCEPT ![c] = @ + 1]
    /\ success' = FALSE
    /\ EndChunk(w)
    /\ UNCHANGED <<pc, next, made, value, emb, local>>

\* faulty: rows are collected in the order in which chunks end
ChunkEndsInAnyOrder(w) ==
    /\ Busy(w) /\ work[w].at \notin Members(work[w].chunk)
    /\ LET got == Cardinality({c \in Communities : value[c] # "none"})
           size == Cardinality(Members(work[w].chunk))
           shift == (work[w].chunk - 1) * ChunkSize - got
       IN  value' = [c \in Communities |-> IF success /\ got < c /\ c <= got + size
                                           THEN made[c + shift] ELSE value[c]]
    /\ EndChunk(w)
    /\ UNCHANGED <<pc, next, made, success, calls, emb, local>>

\* a chunk without an exception: its rows go to their places, unless another one raised
ChunkEnds(w) ==
    /\ Busy(w) /\ work[w].at \notin Members(work[w].chunk)
    /\ value' = [c \in Communities |-> IF success /\ c \in Members(work[w].chunk)
                                       THEN made[c] ELSE value[c]]
    /\ EndChunk(w)
    /\ UNCHANGED <<pc, next, made, success, calls, emb, local>>

Worker(w) ==
    \/ TakeChunk(w) \/ ChunkEnds(w)
    \/ \E c \in Communities :
          Extract(w, c) \/ Answer(w, c) \/ InvalidAnswer(w, c) \/ CallFails(w, c)
            \/ WorkerRaises(w, c)

--------------------------------------------------------------------------------
(***************************************************************************)
(* The main process and its embedding threads.                             *)
(***************************************************************************)
\* faulty: starmap raises as soon as one chunk has raised
StarmapRaisesAtOnce ==
    /\ pc = "starmap" /\ ~success
    /\ pc' = "raised"
    /\ UNCHANGED <<pool, emb, local>>

\* starmap raises when every chunk has ended.  The list of results is still empty then:
\* the branch that saves finished reports in the error file is never taken.
StarmapRaises ==
    /\ pc = "starmap" /\ left = {} /\ ~success
    /\ pc' = "raised"
    /\ UNCHANGED <<pool, emb, local>>

StarmapReturns ==
    /\ pc = "starmap" /\ left = {} /\ success
    /\ pc' = "context"
    /\ UNCHANGED <<pool, emb, local>>

\* faulty: odd rows go on
EmbeddingContextAnyway ==
    /\ pc = "context"
    /\ pc' = IF local THEN "local" ELSE "embed"
    /\ UNCHANGED <<pool, emb, local>>

\* title + summary raises for an odd row
EmbeddingContext ==
    /\ pc = "context"
    /\ pc' = IF \E c \in Communities : value[c] = "odd" THEN "raised"
             ELSE IF local THEN "local" ELSE "embed"
    /\ UNCHANGED <<pool, emb, local>>

\* The local model embeds all rows at once.  If it fails, the empty list it answers with
\* is no column of the frame, and pandas raises.
LocalEmbedding ==
    /\ pc = "local"
    /\ \/ emb' = [c \in Communities |-> "ok"] /\ pc' = "returned"
       \/ emb' = emb /\ pc' = "raised"
    /\ UNCHANGED <<pool, local>>

Computed == {c \in Communities : emb[c] \in {"ok", "wrong"}}
Embedding == {c \in Communities : emb[c] = "busy"}

\* executor.map: rows are submitted in order
StartEmbedding(c) ==
    /\ pc = "embed" /\ emb[c] = "todo" /\ Cardinality(Embedding) < EmbedWorkers
    /\ \A b \in 1 .. c - 1 : emb[b] # "todo"
    /\ emb' = [emb EXCEPT ![c] = "busy"]
    /\ UNCHANGED <<pc, pool, local>>

\* faulty: a row whose embedding failed goes to the end of the queue
EndEmbeddingRetries(c) ==
    /\ emb[c] = "busy"
    /\ \E e \in {"ok", "wrong", "todo"} : emb' = [emb EXCEPT ![c] = e]
    /\ UNCHANGED <<pc, pool, local>>

\* openai_embedding returns a vector, of the right dimension or not, or raises
EndEmbedding(c) ==
    /\ emb[c] = "busy"
    /\ \E e \in {"ok", "wrong", "failed"} : emb' = [emb EXCEPT ![c] = e]
    /\ UNCHANGED <<pc, pool, local>>

\* the results are read in order: the first exception cancels what has not started
EmbeddingRaises ==
    /\ pc = "embed"
    /\ \E c \in Communities : emb[c] = "failed" /\ 1 .. c - 1 \subseteq Computed
    /\ emb' = [c \in Communities |-> IF emb[c] = "todo" THEN "cancelled" ELSE emb[c]]
    /\ pc' = "drain"
    /\ UNCHANGED <<pool, local>>

\* leaving the executor waits for the running threads
Drained ==
    /\ pc = "drain" /\ Embedding = {}
    /\ pc' = "raised"
    /\ UNCHANGED <<pool, emb, local>>

\* _validate_report_embeddings
Validate ==
    /\ pc = "embed" /\ Communities \subseteq Computed
    /\ pc' = IF \E c \in Communities : emb[c] = "wrong" THEN "raised" ELSE "returned"
    /\ UNCHANGED <<pool, emb, local>>

Main ==
    \/ StarmapRaises \/ StarmapReturns \/ EmbeddingContext \/ LocalEmbedding
    \/ EmbeddingRaises \/ Drained \/ Validate

EmbedThreads == \E c \in Communities : StartEmbedding(c) \/ EndEmbedding(c)

Done == pc \in {"returned", "raised"} /\ UNCHANGED vars

Next == (\E w \in Workers : Worker(w)) \/ Main \/ EmbedThreads \/ Done

Spec == Init /\ [][Next]_vars

\* processes and threads run, and every call of a model returns or fails
FairSpec ==
    /\ Spec
    /\ \A w \in Workers : WF_vars(Worker(w))
    /\ WF_vars(Main) /\ WF_vars(EmbedThreads)

--------------------------------------------------------------------------------
(***************************************************************************)
(* Properties.                                                             *)
(***************************************************************************)
Rows == {"none", "report", "odd", "placeholder", "extract"}
Task == [chunk : {0} \cup Chunks, at : 0 .. N + 1, retries : 0 .. MaxRetries - 1,
         gens : 0 .. MaxGenerate - 1]

\* Every variable has its type.
TypeOK ==
    /\ pc \in {"starmap", "context", "local", "embed", "drain", "returned", "raised"}
    /\ next \in Nat \ {0}
    /\ work \in [Workers -> Task]
    /\ made \in [Communities -> Rows] /\ value \in [Communities -> Rows]
    /\ success \in BOOLEAN
    /\ left \subseteq Chunks
    /\ calls \in [Communities -> Nat]
    /\ emb \in [Communities -> {"todo", "busy", "ok", "wrong", "failed", "cancelled"}]
    /\ local \in BOOLEAN

\* A batch that returns has the row of each community at its place, whoever made it and
\* in whatever order, with an embedding that was validated; no row is left out, and
\* none is odd.
CompleteInOrder ==
    /\ pc = "context" => \A c \in Communities : value[c] # "none"
    /\ pc = "returned" => \A c \in Communities : /\ value[c] = made[c]
                                                 /\ value[c] \notin {"none", "odd"}
                                                 /\ emb[c] = "ok"

\* Retries of answers and of calls multiply, and end: a community never costs more calls
\* than MaxGenerate times MaxRetries, an extractive one costs none.
CallsBounded ==
    \A c \in Communities :
        /\ calls[c] <= MaxGenerate * MaxRetries
        /\ c \in Extractive => calls[c] = 0

\* A placeholder stands only where MaxGenerate answers were asked for.
PlaceholderEarned ==
    \A c \in Communities : made[c] = "placeholder" => calls[c] >= MaxGenerate

\* When the batch is over, nothing goes on: no worker calls the language model for rows
\* that nobody will read, and no thread embeds them.
NothingRunsOn ==
    /\ pc # "starmap" => next \notin Chunks /\ \A w \in Workers : ~Busy(w)
    /\ pc \in {"returned", "raised"} => Embedding = {}

\* The batch does what attr_cluster relies on: all rows or an exception.
LR == INSTANCE LevelReports WITH
        outcome <- IF pc \in {"returned", "raised"} THEN pc ELSE "pending",
        frame <- IF pc = "returned" THEN value ELSE <<>>
AllOrNothing == LR!Spec

\* Every batch returns or raises.
BatchEnds == <>(pc \in {"returned", "raised"})

--------------------------------------------------------------------------------
(***************************************************************************)
(* What the properties above rest on.                                      *)
(***************************************************************************)
\* a chunk that has not ended waits in the queue or is in the hands of one worker
ChunksInHand ==
    /\ \A w \in Workers : Busy(w) =>
          /\ work[w].chunk \in left /\ work[w].chunk < next
          /\ work[w].at \in 1 .. N + 1 /\ (work[w].chunk - 1) * ChunkSize < work[w].at
    /\ \A v, w \in Workers : v # w /\ Busy(v) => work[v].chunk # work[w].chunk
    /\ \A i \in Chunks : next <= i => i \in left
    /\ \A i \in left : i < next => \E w \in Workers : work[w].chunk = i

\* rows are made in order, and collected with their chunk unless one has raised
RowsInPlace ==
    /\ \A w \in Workers, c \in Communities :
          Busy(w) /\ c \in Members(work[w].chunk) /\ c < work[w].at => made[c] # "none"
    /\ \A i \in Chunks \ left : \A c \in Members(i) :
          success => made[c] # "none" /\ value[c] = made[c]
    /\ \A i \in left : \A c \in Members(i) : value[c] = "none"
    /\ \A c \in Communities :
          /\ value[c] \in {"none", made[c]}
          /\ made[c] \in {"none"} \cup LR!RowOf(c) \cup (IF c \in Extractive THEN {} ELSE {"odd"})

\* how far the batch is
Stages ==
    /\ pc # "starmap" => left = {}
    /\ pc \in {"context", "local", "embed", "drain", "returned"} => success
    /\ pc \in {"local", "embed", "drain", "returned"} => \A c \in Communities : value[c] # "odd"
    /\ pc \in {"starmap", "context", "local"} => Embedding = {}
    /\ pc \in {"returned", "raised"} => Embedding = {}
    /\ pc = "returned" => \A c \in Communities : emb[c] = "ok"

\* what the community under way has cost, and that those to come have cost nothing
CallsSpent ==
    /\ CallsBounded /\ PlaceholderEarned
    /\ \A w \in Workers, c \in Communities : Serving(w, c) =>
          /\ work[w].gens + work[w].retries <= calls[c]
          /\ calls[c] <= work[w].gens * MaxRetries + work[w].retries
    /\ \A w \in Workers, c \in Communities :
          Busy(w) /\ c \in Members(work[w].chunk) /\ work[w].at < c => calls[c] = 0
    /\ \A i \in Chunks : next <= i => \A c \in Members(i) : calls[c] = 0

\* The inductive invariant: chunks, rows, calls and the stage of the batch agree at every
\* step of the workers, the main process and the embedding threads.
BatchInv == ChunksInHand /\ RowsInPlace /\ CallsSpent /\ Stages
================================================================================
