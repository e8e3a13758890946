# ArchRAG, verified

TLA+ modules, TLC configurations and TLAPS proofs for ArchRAG (the repository
root is `..`; the program is in `src/src` and `src/HCHNSW`). ArchRAG builds a hierarchy
of communities over a knowledge graph (*indexing*), stores entities and communities
in a layered vector index called C-HNSW, and answers questions by searching every
layer and letting a language model reason over what it found (*querying*).

## 1. The system

| part | code | state it keeps | operations |
|---|---|---|---|
| indexing pipeline | `index.py: make_hc_index` | the output directory: ten files written one after the other | resume hook, cluster, save the hierarchy, embed, build C-HNSW, summarise levels, save frames |
| hierarchical clustering | `attr_cluster.py` | the level, the current graph, the hierarchy so far, the clusters of the level below; one CSV per level | augment, Leiden, backfill, renumber, report, filter, rebuild the graph, save or load a level, four stop conditions |
| community reports | `community_report.py` | rows of one level; an error file | a process pool of workers, up to three generations per report, batch of embeddings |
| LLM client | `llm.py` | nothing | up to five attempts, two seconds apart, then an exception |
| triple-to-text mapping | `triple_text_mapping.py` | two pickle files | build, save, load, select and deduplicate sources |
| C-HNSW construction | `impl/HCHNSW.cpp`, `IndexHCHNSW.cpp` | neighbor lists, cross links, first entries, one lock per vector | a team of threads inserts the vectors level by level; the main thread completes the cross links |
| C-HNSW search | the same | the heap of candidates | greedy descent, beam search on one level |
| index loading, retrieval | `inference.py`, `hypernode.py`, `ppr_entity_search.py`, `query_classifier.py` | the loaded frames and the shared dictionary `query_paras` | load, choose k per level, search each level, add paths, PageRank, select |
| answering | `client_reasoning.py`, `inference.py` | contexts, points with scores | pack rows into token budgets, map calls with retries, reduce; or one direct call |
| embeddings, prompts, options | `lm_emb.py`, `prompts.py`, `utils.py` | nothing | input and output |
| graph extraction | `graphrag/index/run.py` and the cache, limiter and emitter below it | a table per workflow; a cache of answers, one file each | run or skip each workflow, concurrent tasks that ask a model through the cache, emit the table, resume |
| rest of the GraphRAG copy | `src/graphrag` | vendored | the contents of the workflows, other storages, its own query side |
| evaluation | `evaluate`, `metric`, `json` | nothing | batch scripts over questions |

How they interact: `run_pipeline` leaves the tables of entities and relationships.
`make_hc_index` reads them and calls `attr_cluster`, which calls the report batch
once per level and exchanges data with earlier runs of itself only through the files
`tmp_community_df_<level>.csv`; `make_hc_index` then writes
`community_df_intermediate.csv` (whose existence makes the next run skip clustering),
hands communities and entities with their levels to C-HNSW, and writes the frames that
`load_index` reads back, possibly in a directory that another process writes to. C-HNSW runs an
OpenMP team whose threads share lists, cross links and entries. `hcarag` retrieves (one C-HNSW
search per level), packs what it found into prompts, and asks the language model;
`process_question` of the evaluation turns every exception into the answer "None".

What is hard about it, and what correctness means:

* **Restart.** Indexing takes hours and many paid calls; it is killed and started again.
  A restarted run computes the clusters again and takes the reports from the files.
  Its hierarchy must continue the one on disk: one id per community, each community the
  union of communities one level below, no gap between levels, the same rows in memory
  and on disk, no level lost or replaced.
* **Types and ids through files.** A community id is a string when it is generated and
  a number after `read_csv`; `isolated_<n>` ids are not numeric at all.
* **Stop conditions.** Four of them leave the loop at three places, before or after the
  level has its reports, is saved, or is added.
* **Threads.** Lists are written under locks but read without; cross links and first
  entries are not protected at all. No thread may descend through a missing link,
  link vectors of different levels, or wait for a lock while it holds one.
* **A pool and its failures.** The reports of a level are made by processes that retry, and
  embedded by threads; one failure discards the level. Rows must keep their places, calls
  must stay bounded, and nothing may run on once the batch has raised.
* **A heap that forgets.** The search pops candidates without freeing their slots, stops on a
  count of slots, and sizes the heap by `max(efSearch, k)`; what it returns must be what a
  beam search promises.
* **Files of several generations.** The index is ten files, and the output of extraction a file
  per workflow; both are written in place, one after the other, by runs that may be killed, and what
  is there is taken as it is by the next run and by loads. No file may come from another hierarchy,
  or other tables, than its neighbors.
* **A cache shared by tasks.** An entry is looked up, read, deleted and written in separate awaits; a
  task may delete what another is writing. Stored answers are paid for once.
* **Budgets and numeric edges.** Rounded shares must add up, no level that is searched may get none,
  and rows are packed into prompts one by one: a row at the boundary must be neither lost nor sent twice.

The hazards, each at its line with the properties that catch it, are in `PROJECT.json`.

## 2. The modules

| module | what it is |
|---|---|
| `PipelineRun` | `run_pipeline` with its cache, semaphore, retries, emitter and resume |
| `MCPipelineRun` | three workflows and four tasks for it, of which one workflow swallows exceptions |
| `PipelineRunProofs` | theorems about `PipelineRun` |
| `AttrCluster` | the level loop of `attr_cluster()` and the resume hook around it, with crashes |
| `MCAttrCluster` | small graphs for it |
| `AttrClusterProofs` | theorems about `AttrCluster` |
| `LevelReports` | what a batch of reports promises: a row per community, or an exception |
| `ReportBatch` | `community_report_batch`: pool, retries, embedding threads; implements `LevelReports` |
| `MCReportBatch` | four communities for it |
| `ReportBatchProofs` | theorems about `ReportBatch`, the refinement among them |
| `PublishedOnce` | what an index directory promises its readers |
| `IndexFiles` | the files of `make_hc_index` and `load_index` next to it; implements `PublishedOnce` |
| `MCIndexFiles` | two communities for it |
| `IndexFilesProofs` | theorems about `IndexFiles`, the refinement among them |
| `HCHNSW` | the construction of the layered index by a team of threads, with its inductive invariant |
| `MCHCHNSW` | vectors on a line for it |
| `HCHNSWProofs` | theorems about `HCHNSW` |
| `HCHNSWSearch` | the search of one level of a finished index, by either kind of beam |
| `MCHCHNSWSearch` | small indexes, queries and parameters for it |
| `HCHNSWSearchProofs` | theorems about `HCHNSWSearch` |
| `Retrieval` | `hcarag_retrieval`: strategies, ratings, shares, the search of the levels, the selection |
| `AnswerQuery` | `hcarag`: extends `Retrieval` by packing, map, reduce and direct answers |
| `MCAnswerQuery` | an index of five levels and the kinds of questions |
| `AnswerQueryProofs` | theorems about `Retrieval` and `AnswerQuery` |
| `SumProofs` | induction over finite sets and numbers, sums over finite sets; used by the proofs of `AttrCluster` and `AnswerQuery` |

How the modules compose: `AnswerQuery` extends `Retrieval`, so a question is one behaviour from its
strategy to its answer. The other seams are contracts: `AttrCluster` takes a batch of reports as
`LevelReports` promises it, `IndexFiles` takes a run of `AttrCluster` as one step that yields a hierarchy,
`HCHNSWSearch` assumes of an index what `HCHNSWProofs` proves of a finished build, and `Retrieval`
takes one search as vectors of the level asked for, at most as many as asked for, filled up with results
that have no vector.

Operators named "faulty" in the comments are variants of the operator after them, each
with a mistake one could make in that code. No specification uses them; they are the
evidence that a property can fail (`mutants` in `PROJECT.json`).

### AttrCluster

State: `level`, `graph`, `communityDf`, `newDf`, `cnMapping`, `prevMapping` are the locals of
`attr_cluster`; `tmp[l]` and `intermediate` are the files; `leiden` remembers the answers
of the seeded (hence repeatable) Leiden; `pc` says where the process is, or that none runs;
`cut` is history: some run died while it wrote a file.

A row is `[id, kind, level, nodes, rating]`. `kind` is the type of the id ("str" as
generated, "int" after a round trip through a file), because `==` and `isin` on the two
differ. Ids are integers: `isolated_<n>` is `-2-n`, and `-1` is the id `"nan"` that
`max()` of no number yields.

Actions: `StartFresh`, `StartResume` (resume hook), `Cluster` (augment, Leiden, smart stop
1, "no effective partition"), `Report` (both calls of `community_report_batch`), `LoadLevel`
and `SkipFinal` (what happens when the file of a level exists), `SaveFinal` (smart stop 2),
`StopOnQuality` (smart stop 3), `SaveLevel` (filter, rebuild the graph, save, add, go up),
`LevelLimit`, `Finish` (the intermediate file). `LeidenFails` and `NoCommunities` are the
exceptions, `Crash` is a kill between two steps, `TornSave` a kill while a file is written.

`TornSave` leaves part of the rows that are being written: at the last level the rows as reported, at any other
those that passed the filter.

Abstracted: which partition Leiden returns (any; isolated nodes may be missing), what the
language model rates (any of `Ratings`, or none), the text and embeddings of reports.
Clustering methods other than `weighted_leiden` and `mutual_knn_leiden` are left out.

### HCHNSW

State: `nbrs`, `cross`, `first`, `lock` are the C++ arrays; `ptLevel`, `stage`, `todo` are the
loops of `hchnsw_add_vertices`; `th[t]` holds the position and locals of a thread, `rem` the
ones of `add_remain_cross_link`. Of a search, `met` is what was visited, `expanded` those whose lists were read, and
`seen` what has been in the list being read since its reader came to it.

The threads' actions follow `add_with_locks_level`: `Take`, `LockOwn`, then per level `Hop`
(a round of the greedy search) and `ReadCross`; just above the own level `SetCross` or
`UpdateCross`, and `GetFirst`/`SetFirst` for the unlocked check-then-set of the first entry;
on the own level the beam of `search_neighbors_to_add` step by step, `Expand` (the next candidate) and `ReadList`
(its neighbors), with other threads in between; `FindTargets`, `AddOwn` (one link at a time), `UnlockOwn`, and per
neighbor `LockOther`, `AddBack`; then `Relock`. No reader takes a lock. A list is written in one step; who
reads it while a link is being added (`BeingAdded`), or has looked at it since one was (`Look`), sees any mixture of the old
and the new entries (`Views`). `LevelInserted` is the barrier; then one pass over the vectors of the level above
completes the cross links: `RemainSkip`, or `RemainStart`, `RemainHop`, `RemainSet`, and `RemainDone` at its end,
which looks at nothing but the end of the loop.

Abstracted: distances are natural numbers, the queues of a search are sets (`Results`: the `EfConstruction` nearest), the
order of the vectors in a level is any order (the program permutes it, and threads run at any speed).
The code runs a level with at most 100 vectors on one thread; the model allows the team
on any level. Left out: interrupts, `keep_max_size_level` (default false), and adding to
an index that is not empty (the Python side builds an index with one call).

### HCHNSWSearch

State: `nbrs` and `ask` (query, k, `efSearch`, level, entry point, `bounded_queue`) are chosen once;
`lvl` and `nearest` are the descent; `visited` is the `VisitedTable`; `heap` is `MinimaxHeap` with its
ids in `slots`, those that were not popped in `valid`, and the counter `nvalid`; `top` and `cand` are the
queues of the unbounded search; `node` and `nxt` are the loop over the neighbors; `res` is the result heap.

Actions: `Hop` and `Down` (greedy descent, or none when the caller gives an entry point of the
level above), `StartBounded`/`StartUnbounded`, `PopBounded`/`PopUnbounded` (next candidate and the
stopping condition, `StopBounded`/`StopUnbounded`), `VisitBounded`/`VisitUnbounded`/`SkipVisited` (one
neighbor: distance, results, heap), `Expanded`. Among equally far entries any may be popped or pushed
out, since the heap does not say which.

Abstracted: distances are natural numbers (of NaN the code says nothing). The index satisfies
`IndexAssumption`, which is what `HCHNSWProofs` proves of a finished build: lists stay on their
level and every vector above level 0 has its cross link. Left out: `IDSelector`,
`check_relative_distance = false`, `search_level_n`, interrupts.

### ReportBatch

State: `next` (the task queue of the pool), `work[w]` (chunk, community, failed calls and invalid
answers of worker `w`), `made` (rows inside a worker), `value`, `success` and `left` (the `MapResult`
of `starmap`), `calls` (calls of the language model per community), `emb` (a future per row),
`local` (`args.embedding_local`), `pc` (the main process).

Actions of a worker: `TakeChunk`, `Extract`, `Answer`, `InvalidAnswer` (of `generate_community_report`),
`CallFails` and `WorkerRaises` (of `llm_invoker`), `ChunkEnds`. Of the main process: `StarmapRaises`,
`StarmapReturns`, `EmbeddingContext`, `EmbeddingRaises`, `Drained`, `Validate`. Of the embedding threads:
`StartEmbedding`, `EndEmbedding`. `LocalEmbedding` embeds all rows at once, or raises: `text_to_embedding_batch` turns
its exception into an empty list, which does not fit the frame. `multiprocessing.Pool.starmap` and `ThreadPoolExecutor` are libraries:
chunks, their order, and when an exception surfaces are modelled after their documentation.

Abstracted: an answer passes the checks or does not; a row is extractive, a report, a placeholder,
or "odd" (its title and summary cannot be added, which the weak check lets through). Left out: a
worker that is killed from outside (starmap would wait for ever), `KeyboardInterrupt`.

`LevelReports` is the contract: one row per community, extractive or generated, in the order of the
dictionary, or an exception and no row. `AttrCluster` relies on it: its `Report` takes all rows
at once or fails.

### IndexFiles

State: `stage` is the file that `make_hc_index` produces next, `open` says that it is open for writing,
`hierarchy` is `community_df`; `disk[f]` is a file: the hierarchy it was made of (`of`), the communities whose rows
are in it (`rows`), and whether it was written to the end; `reading` and `got` are the position and the frames of
`load_index`. Two variables are history: `torn`, a run was killed while it wrote the intermediate file;
`disturbed`, the load under way did not begin on complete files, or one of them was opened since.

Actions of the indexer: `Start` (again, in the same directory), `Cluster` or `Resume` (the hook on
`community_df_intermediate.csv`, which takes the rows that are there), `NothingToIndex` (exceptions on an empty
hierarchy: from `read_csv` if the file has no header, else, after the files before it were written again, from
`get_vector_hchnsw`), `Open` and `Close` (a file is written in place: once opened its old content is gone, and any part of
the new one may be there), `Stop` (a kill, or an exception of a service, anywhere). Of a load: `StartLoad`, `Read` (one
frame), `ReadPickles` (`load_triple_text_artifacts`), `LoadRaises`. The order of the files (`After`, `ReadAfter`) is the
order of the statements.

Abstracted: a hierarchy is the set of its communities; what is computed between two files is in the step that
opens the second. A part of a CSV is readable (`read_csv` does not raise on missing rows) or is not (its header is not
there yet); a part of an index or of a pickle is not.

`PublishedOnce` is the contract, and it is no more than the code can keep. One hierarchy is published, once. A load that
begins on complete files and is not disturbed returns all rows of it. Any other load may raise or return tables with rows
missing, which nothing in the code notices, but never a row of another hierarchy. All this until the directory is damaged. The
refinement maps "published" to the hierarchy of the intermediate file, "served" to the frames of the last load with the
rows they have, "complete" to the files themselves, "damaged" to `torn`.

### PipelineRun

State: `run`, `handled`, `current`, `emitting` are the loop of `run_pipeline`; `table[w]` is the table of a
workflow (the run that wrote it, and whether it is whole), `from[w]` the tables it was made from; `pc[t]` and
`attempts[t]` are a task; `entry[k]` is a file of the cache ("none", "cut", "blank", an answer without a word, or
"whole"); `blank` and `unlinked` are tasks with such an answer, and tasks that write to a file
another task has removed; `kept` is history: the entries that were whole when the run started.

Actions of the run: `Start`, `Skip` (the table is there), `Begin`, `InjectRaises`, `WorkflowRaises`, `Emit` and
`Emitted`, `EmitFails` (the emitter reports the error and the run goes on), `Complete`, `Crash`. A task that fails is
swallowed in some workflows (`Swallowing`: the graph extractor) and ends the run in the others: `asyncio.gather` passes its
exception on (`GatherRaises`) while tasks beside it are still at work; they go on until the event loop is
closed and `Cancel` stops them where they are. Of a task, one
per await: `Lookup`, `Read`, `Delete`, `Remove`, `Acquire` (the semaphore), `Call` (answer, no content, retry, other
error), `Store`, `Write`.

Abstracted: the rows of a workflow are tasks that ask once; an answer is a word or none. Left out: the
limiter of tokens per minute, the statistics, profiling, storages other than files.

### Retrieval and AnswerQuery

State of `Retrieval`: `q` is `query_paras`; `asked`, `rating`, `text`, `bound` are the locals of `problem_reasoning`
(`bound`: `raw_result` has a value; `text`: `reason_level` is still a text); `weights` and `k` are the shares of
`calculate_k_per_level`; `level`, `results`, `onPaths`, `finalK`, `predictions` are the locals of `hcarag_retrieval`;
`retrieved` is what it returns. `AnswerQuery` adds the packing (`rows`, `at`, `start`, `current`), the `prompts`, and the
calls (`mapped`, `tries`, `points`, `context`, `pred`). `phase` is the position in both.

Actions of `Retrieval`: `FixedShares` (global, all), `PriorWeights` (adaptive), `StartReasoning`, `AskLevels`, `Weigh`
(inference, adaptive with ratings), `RoundShares`, `Adjust` (one round of the while loop), `Adjusted`, `SearchLevel`,
`Paths` (hypernodes), `Select`, `Refine` (PageRank, replacing or merged), `Collect`; exceptions are
`EmbeddingRaises`, `ReasoningRaises`, `SharesRaise` (all weights 0), `SearchRaises` (k = 0). Of `AnswerQuery`: `AskFirst`,
`PackRelation`, `PackCommunity`, `PackChunk` and the ends of the three tables, `TakeFirst`, `MapCall`, `Reduce`,
`ReduceRaises`, `Answer`, `CallRaises`, `Caught`.

A search that finds too few fills up with `-1`, which is further than everything and selects no row, but counts in the length
that limits `final_k` (`Padded`). What the frame of a prompt of chunks, with the question in it, leaves of the limit is
`room`, a number of the question that may be negative: then `PackChunk` has no step for a chunk that does not fit, as the
loop that cuts it never ends (`client_reasoning.py:469`). A point has a score that is a number, another one (`NoNumber`,
on which `float()` raises), or is skipped before its score is looked at (`NoAnswer`).

Abstracted: shares are integers (every weight is multiplied by the common denominator); distances,
path scores and ranks are small numbers; a row is its size in tokens, a point its score. `Sizes` is the table
of the sizes of what was retrieved, in the order of the frame.

## 3. Runs

| run | instance | shows |
|---|---|---|
| `attr_filter` | path of 4 entities, 3 levels, ratings {1, 5, none}, quality filter, 3 starts, kills between any two steps | communities of a level nest in the next, levels have no gap, memory agrees with the files, every node of the graph is found, a loaded level passes the quality stop again, saved levels never change |
| `attr_backfill` | a pair and three isolated entities, 2 levels, `mutual_knn_leiden`, no filter, 3 starts, files that are cut | ids stay unique, every level covers every entity unless a file was cut, every cluster becomes a community but for one case: above a cut file in which only isolated entities are left, two clusters share the id `"nan"`, and the run gets there |
| `attr_lost_level` | path of 3 entities | **violation**: a kill between the save of the last level and the intermediate file loses that level on restart (`attr_cluster.py:763`) |
| `attr_convergence` | path of 3 entities | **violation**: smart stop 1 compares node keys of different graphs and never fires for a repeated structure (`attr_cluster.py:620`) |
| `report_batch` | 4 communities (one extractive) in 2 chunks, 2 workers, 2 answers of 2 calls, 2 embedding threads or a local model | rows at their places or an exception, nothing runs on, every batch ends; implements `LevelReports` |
| `index_files` | 3 runs, hierarchies of none, one or two communities, pickles, kills anywhere, loads at any time | the files are of one hierarchy unless the intermediate file was cut, a run that ends leaves all files whole; implements `PublishedOnce`: an undisturbed load of complete files has every row, no load has rows of another hierarchy |
| `pipeline` | a chain of 3 workflows; 2 tasks with one question where exceptions are swallowed, 2 with different ones where they raise; 1 slot, 2 attempts, 2 runs, kills anywhere | no table is made of tables that are gone, success hides no cut table another workflow needs, stored answers are reused, the races of the cache hurt only equal questions of one workflow, every run ends and its tasks with it |
| `hchnsw_levels` | 3 levels (1, 3 and 2 vectors), 2 threads, M = 2, beam 1 | a finished level has its entry and stays as it is, no thread fills a list another one has begun, no cross link is missing below a finished level, the build ends (deadlock is checked) |
| `hchnsw_sequential` | 2 vectors over 4, 1 thread, lists with slots to spare | every vector of a level can be reached from its entry |
| `search` | 2 vectors over 4 in every list layout, 2 queries (one with ties), efSearch 2 or 4, k up to 3, every level and entry point, bounded heap or not | results are the nearest of the visited, their neighbors were considered, a large beam misses nothing reachable, every search ends |
| `query` | 5 levels, 16 kinds of questions, prompts of 2 tokens, ratings {0, 1, 3}, 2 points, 2 tries | the budget is shared as weighted, the priors starve no level, communities and chunks are packed without loss, relations repeated at most by a last prompt that is too long, prompts of all three kinds fit but for named exceptions, every question ends unless it leaves no room for text chunks |
| `retrieval_levels` | the same instance | **violation**: with the default options a global question searches the entities and the first level of communities only (`inference.py:140`) |

`LevelConnected` fails for two threads, which the code accepts: two first vectors of a level may both see
no first entry, and the later assignment leaves the other one alone. The run says what holds without that
race, which is what the code does on a level of up to a hundred vectors (`IndexHCHNSW.cpp:141`).

Some weaknesses of the code are exceptions in the statements of these properties, each named there, and the runs reach them:

* If the context of relations overflows at the last row, nothing replaces it, and a prompt that is too long repeats
  relations of the one before (`client_reasoning.py:303`; `RelationsAtMostOnce`, `PromptsFit`).
* A community whose row alone is longer than the limit is sent all the same (`PromptsFit`). The text around relations and
  communities is not counted by the code at all, and a direct question sends a prompt of each in one.
* A question so long that the frame of a prompt of chunks leaves no room never ends (`client_reasoning.py:469`;
  `QuestionEnds`).
* The hierarchy of a directory whose intermediate file was cut is whatever is left in it (`index.py:67`; `torn`).
* A load that meets a half-written CSV has fewer rows, and no exception (`inference.py:636`; `PublishedOnce`).
* When a cut file, or the filter, leaves only isolated communities below, the clusters above them overwrite each
  other under the id `"nan"` (`attr_cluster.py:478`; `EveryClusterReported`). Of the two, the runs reach the cut file.

**Bounds.** `MaxRuns` (starts of the indexer), `MaxLevel`, `MinClusters` and the entities bound
the clustering. Three starts are enough for a restart of a restart that itself loaded files; three levels
for a loaded level between two generated ones; four entities for two clusters above two
clusters; three isolated entities for two of them to be left in a cut file, and for two clusters
above. Ratings play no part without the filter and the stop on quality, so `attr_backfill` has none. `IndexFiles` has no state beyond its files, so a third run meets whatever two killed ones left, and
the hierarchies of its instance contain the empty one, which raises, and two that differ. Two runs of the
pipeline are one that dies and one that is resumed; of its tasks two are twins, whose exceptions are swallowed, and two are
not, so that one may raise while the other is at work. Two threads suffice for each race of the construction, which are all between a pair, beams that are read while they change among them; three
levels give a thread a level it only passes, one where it updates a cross link, and its own.
The three vectors above the lowest level make lists overflow. The search has k above efSearch, equal and below,
beams smaller and as large as the level, and disconnected lists. The batch has `MaxRetries` and `MaxGenerate` 2 (5 and 3 in
the code) so that each retry has a first and a last try, and `ChunksPerWorker` 1 (4 in the library) so
that a chunk has two members and one can be dropped with its chunk. The index of `query` has five levels because
the priors share their last entry from the fifth on; the budget is the program's own for adaptive
questions (50) and one with remainders (17) for the others. Its rows are of sizes 1 to 3 against prompts of
2 tokens: some fit together, some alone, and some not at all. `MaxPoints` 2 lets points of two attempts, or
of two prompts, meet in one reduction.

**Fairness.** `AttrCluster` and `IndexFiles` have none and state no liveness: what they do is a sequence of statements
that wait for nobody. `PipelineRun!FairSpec` has weak fairness on the run and its tasks together: the event loop runs what is ready. Every
task takes a bounded number of steps (`AttemptsLeft`), so which one the loop prefers does not matter.
`HCHNSW!FairSpec` has weak fairness per thread and for the main thread, and strong
fairness for taking locks: an OpenMP lock that is released again and again is eventually given to
who waits for it. `HCHNSWSearch!FairSpec` lets the one thread of a search go on, `AnswerQuery!FairSpec` the one
process of a question. `ReportBatch!FairSpec` has weak fairness per worker, for the main process and for the embedding
threads: every call of a model returns or fails (the clients have timeouts), whichever it is.

**Deadlock** is not checked for `AttrCluster`, `IndexFiles` and `PipelineRun`, where nothing happens after the
last start, nor for `AnswerQuery`, where the question has its answer, or is stuck in the loop named above; that none of them stops
earlier is what `PipelineEnds` and `QuestionEnds` say of the last two. It is checked for the other modules,
where only `Done` may repeat for ever.

## 4. What is proved

Every safety property of the runs is stated by a theorem. Eight modules hold theorems. `SumProofs` holds lemmas
for the others; each of those has an inductive invariant, one lemma per action, and the theorems of
the specification at its end. The assumptions are the ASSUMEs of the modules, which TLC evaluates on every run, and
those a theorem states itself.

`AttrClusterProofs` proves, for any graph, any number of levels, ratings and thresholds, both clustering
methods, with the filter and without it, and any number of kills: type correctness (`TypeInv`, with what each position of the
process says of its locals), `MemoryMatchesFiles` (`LevelsInPlace`: the rows of a level in memory are those of its
file after the round trip, whichever run wrote them), `LevelsContiguous` (`NoGap`), `UniqueIds`, `EveryNodeFound`,
`EveryClusterReported`, `LevelsCoverEntities`, `SavedLevelsStable`, `LoadedLevelPasses` and `CommunitiesNest`. That a
largest community exists for the choice of a representative is derived from the well-foundedness of the order of
inclusion on the finite set of nodes.

The argument above `NoGap`. `IdsInv` adds to the rows in place that ids grow from level to level, in memory and in
the files (`MemoryGrows`, `FilesGrow`): a new level is numbered from the maximum of all ids below, and a file of a level is only
there if the one below is. So ids are unique, and a node of the graph, which is the id of a row of the
level below with the type of that row (`GraphBelow`), is found once. `ClustersAreReported` adds that a next id exists.
`CoverInv` says of files, of memory and of the level in hand that each level covers the entities. `StableInv` says
that a file holds a level that passed the quality stop and the filter (`Kept`) or the last level of a run (`Last`), and
that Leiden, asked again about the same graph, answers as before; filtering twice removes nothing more, by the
arithmetic of the average rating of what is kept. Hence what a loaded level is compared with is what was saved, which gives
`SavedLevelsStable` and `LoadedLevelPasses`, and with `NestInv` `CommunitiesNest`: a file nests in the file below it, and the
file below never changes.

`LoadedLevelPasses` is about smart stop 3 alone. A restart may still end before the run it continues did: at a level it
has on disk but finds too small (`SkipFinal`, finding 1), or by the convergence test, whose ids may match once they come from a file.

The hypotheses: the constant for "no file" is no set of rows; `LevelsContiguous`, `SavedLevelsStable`, `LoadedLevelPasses` and
`CommunitiesNest` need that no file is cut, `LevelsContiguous` also that `MinClusters` is not 0 (with 0, a level of no community
would not stop the loop). `LevelsCoverEntities` is about the backfill without the filter, which drops communities on
purpose, and says itself "unless a file was cut". `EveryClusterReported` needs nothing and names its exception: above a level of isolated nodes only. That such a level
comes from a cut file or the filter, and never from Leiden, is part of the proof: what Leiden puts back with an effective
partition has a cluster with a number beside it.

`IndexFilesProofs` proves, for any hierarchies and any number of runs: type correctness, `BuiltIsWhole`, `OneHierarchy`, and
that `IndexFiles` implements `PublishedOnce`. `IndexInv` adds to them `HierarchyInTime` (a run has its hierarchy from
the intermediate file on), `WrittenSoFar` (what this run has written, in the order of `After`, is whole and of its
hierarchy), `OnPublished` (until the intermediate file is cut, every run works on what is published, and this file is whole
whenever nobody writes it) and `LoadedSoFar` (what a load has read is of what is published; while it is undisturbed, all
that it has read is whole, and so is all that it will read). The point of the argument: rewriting the intermediate file
in place does not change what is published, because a resumed run holds exactly the rows it read there, and these were all;
a kill in that moment leaves fewer, which is `torn`. The refinement proves of every load what rows it returns: `Content` says that a
file has rows of its hierarchy only, and all of them if it was written to the end.

`PipelineRunProofs` proves, for any workflows, dependencies, tasks and keys: type correctness, `TablesConsistent`,
`SuccessMeansWhole`, `StoredAnswersReused` and `RowsLostToTwins`. `PipelineInv`: a table is made only when there
is none (`RunsOnWhole`), so the tables it was made from stay (`MadeOfWhole`) and were whole
(`HandledOnWhole`); tasks at work belong to the workflow that runs, or has raised, and end before its table is written (`AtWork`), so a task without a twin is alone
with its entry (`AloneUndisturbed`); who finds a kept entry goes the way of `KeptStays`, which never reaches the semaphore.

`AnswerQueryProofs` proves, for any sizes, budgets and questions, `PromptsCarryAll`: `PackInv` adds what the packing is
(`PackTyped`) and that rows are taken in turn (`RowsInTurn`: none beyond `at` is in any prompt). It does not depend on the sizes, which
only say where a prompt ends. `RelationsAtMostOnce` and `PromptsFit` do: `SizeInv` says that what is in hand and what was
sent is as long as the code counts it. After an
overflow the context in hand is too long and holds rows that were sent; the next row replaces it, and `RelationsSent` says
that only such a context, left over at the last row, can repeat a relation.

For the shares of the levels, `SharesFollowWeights` holds for any weights, budget and number of levels. `ShareInv`: rounding is
off by at most half a result per level (`Close(1)`), so what is left over or missing is at most one result per level, and a
single round of the while loop (`Adjust`), which moves at most one result per level, balances the budget; the loop never runs
twice. The while loop of the code therefore ends. `PriorsNeverStarve` is arithmetic of the prior weights and holds if the budget has more than
ten results for each of the levels that share the last prior (`Sharing`), and more than fifteen: the default, 50, does up to six levels
of communities.

`HCHNSWProofs` proves, for any finite set of vectors, any levels (each inhabited), any
distances with d(v, w) = 0 iff v = w, any M and beam, and any set of threads:
type correctness, `LevelHomogeneous`, `CrossOneDown`, `EntryAtLevel`, `CrossComplete`,
`FinishedLevelHasEntry`, `LocksMatch`, `OneLock`, `ListsChangeUnderLock`, `ListsFit`,
`FinishedLevelsFrozen`, `OwnListFresh`, and, for one thread, `LevelConnected`. Those that no run lists any more were checked on the instances of the runs before.

The argument. None of these invariants is inductive: a thread at "hop" might, for all they
say, stand on a wrong level. `BuildInv` adds `ThreadOnItsWay` (position, level and vectors
of a thread agree: where it stands, what it has met in its search, and what it has seen of the list it reads, which a mixture of
old and new entries does not change, as both are of one level), `RemainOnItsWay` (vectors the pass has been at have their cross link, which is why `CrossComplete` holds when it
ends), `LowerUnlinked` (nothing below the level under way has
a cross link, so "read none" is only seen just above it), and `EntryUnderWay`: who sees a
cross link into the level being filled relies on *another* thread to set the first entry, so
the invariant names that thread (at "first" or "setfirst"). With it, the barrier finds the
entry set. `LocksMatch` is inductive with `BuildInv` for the positions of the threads; `OneLock` and
`ListsChangeUnderLock` follow from it. `ListsFit` rests on the cardinality of what shrinking keeps.
Each action has its lemma; `QuietStep`, `ThreadStep` and `LinkingStep` collect what actions of
a kind leave alone.

`OwnListFresh` needs `FreshInv`: a vector has one inserter, and below the highest level nothing in the whole state
leads to a vector (no list, cross link, entry, or local of a thread, the sets of its search included) before its thread has its lock, so nobody
can have linked to it; only cross links and first entries lead to it while its list is still empty.

`LevelConnected` is proved for one thread and for lists with a slot for every link they may get
(`SlotsToSpare`: two for each vector of the level), which is the instance of `hchnsw_sequential`; with fewer slots shrinking may
drop the last link to a vector, and with more threads the race of section 3 may. `ListsCounted`, which holds for any
number of threads, bounds a list by twice its level: each vector links to another at most once while it fills its own
list and at most once when it links back. So no list is shortened and what can be reached only grows.
`ConnectedInv` says that every inserted vector can be reached from the first entry of its level, and names for each
position of the thread the vectors it relies on (`ReliesOn`): its entry, its nearest, and those to link, which can all be
reached. Reachability is closed under links by definition (`Reach` is the least closed set), which
takes the place of an induction over paths.

`HCHNSWSearchProofs` proves, for any finished index (`IndexAssumption`), any query, distances, k,
`efSearch`, level and entry point, and both kinds of beam: type correctness, `StaysOnLevel`, `HeapCounts`,
`ResultsBest`, `ResultsExpanded` and `BeamExhausts`.

The argument. `SearchInv` says that the beam (the slots of the heap, or `top_candidates`) holds the nearest
of the visited vectors at its size, that the results do so at theirs, and that every entry that
left the candidates was expanded, but for the one being expanded. Adding one vector to a set of
nearest ones, and dropping a farthest, keeps it nearest: a lemma on `Best`. At the stopping
condition, at least `efSearch` slots are nearer than the candidate, so a result that was not
expanded would have too many vectors nearer than itself, unless it ties; that is `ResultsExpanded`, and
it needs k <= `efSearch`. With `efSearch` at least the size of the level, the count cannot be reached before
the candidates are used up, which is `BeamExhausts`. `NearestOf` needs a nearest element of
a finite set of distances: it is derived from the well-foundedness of the natural numbers, without an
induction theorem of the library.

`ReportBatchProofs` proves, for any numbers of communities, workers, chunks, retries and embedding
threads: type correctness, `CompleteInOrder`, `CallsBounded`, `PlaceholderEarned`, `NothingRunsOn`, and that
`ReportBatch` implements `LevelReports` (`AllOrNothing`).

The argument. The chunks partition the communities: that is arithmetic of the rounded-up quotient, with
its own lemmas. `BatchInv` has four parts. `ChunksInHand`: a chunk that has not ended is in the queue
or in the hands of exactly one worker, so workers run only while `starmap` waits. `RowsInPlace`: rows
before the current community of a chunk are made, and those of an ended chunk collected, unless one has
raised. `CallsSpent`: a community under way has cost between `gens + retries` and
`gens * MaxRetries + retries` calls, those to come nothing. `Stages`: past each stage `left` is empty,
no chunk has raised, no row is odd. For the refinement, a step that sets `pc` to "returned"
has all rows collected by the first two parts, and nothing changes afterwards because no worker runs.

`SumProofs` has the induction the others need. The induction theorems of the library are about operators and out of
the provers' reach; here they are about sets: a set `G` that holds a finite set whenever it holds its strict subsets holds every
finite set (`SubsetInduction`), by the well-foundedness of strict inclusion, and the same for numbers. From it follow the
existence of the sum that `MapThenSumSet` chooses, and its recursion, bounds and monotonicity.

The inductive invariants `IndexInv`, `PipelineInv`, `BuildInv`, `SearchInv` and `BatchInv` were model-checked on the
instances of the runs before they were proved, and so were `FreshInv`, `ListsCounted` and `ConnectedInv`; those of `AttrClusterProofs` and
`AnswerQueryProofs` are stated in the proof modules only, in part over sets TLC cannot enumerate. No run checks any of them again.

Only model-checked: liveness, which is out of the prover's reach (`PipelineEnds`, `BuildEnds`, `SearchEnds`, `BatchEnds`,
`QuestionEnds`), and the three violations of section 5. Nothing is proved of `LevelConnected`
with several threads, for which it fails, or with lists that are shortened.

## 5. Findings

Three runs show a disagreement between the code and what the repository says of it; `findings` in
`PROJECT.json` quotes both sides. `attr_lost_level`: the last level, saved but not yet in the intermediate
file, is in no hierarchy after a restart. `attr_convergence`: the convergence test never fires above level 1.
`retrieval_levels`: the test of `wo_hierarchical` is the wrong way round for its documented meaning, so default questions
see one level of communities, and the rules for "all" and "adaptive" questions below that test are dead.

## 6. Not modelled

* Faiss itself (`src/HCHNSW/faiss` outside `impl/HCHNSW.*` and `IndexHCHNSW.*`): a vendored library with its
  GPU code, Python wrappers, benchmarks and demos, most of the lines of the repository. The project depends on
  it for distance computation and file formats only.
* Prompts, argument parsing, logging: text. The options that steer the control flow are CONSTANTS.
* The rest of the GraphRAG copy: what the verbs and workflows compute, storages other than files, its own query
  side, which ArchRAG does not call.
* Selection and deduplication of source texts (`triple_text_mapping.py`), scores of paths (`hypernode.py`) and PageRank:
  pure functions of data frames, whose results the models take as any value of the right kind.
* Path and format of the files of a C-HNSW index; `IDSelector`, `search_level_n`, `reset`, `permute_entries`, which
  the Python code does not use.
* The loops and metrics of the evaluation, Docker, data.

## 7. Plan

Done: everything in section 2. What is left, in the order of its worth:

1. `LayeredIndex`: an abstract layered index that `HCHNSW` implements and `HCHNSWSearch` searches, in place of the
   assumption that joins them now.
2. `TripleText`: selection and deduplication of source texts, as operators against reference definitions.
