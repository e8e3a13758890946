--------------------------- MODULE ReportBatchProofs ----------------------------
(***************************************************************************)
(* Theorems about ReportBatch, for any number of communities, workers,     *)
(* chunks, retries and embedding threads.                                  *)
(***************************************************************************)
EXTENDS ReportBatch, FiniteSetTheorems, TLAPS

--------------------------------------------------------------------------------
(***************************************************************************)
(* Chunks.                                                                 *)
(***************************************************************************)
\* Multiplication by a natural number is monotonic.
LEMMA TimesMonotonic ==
    ASSUME NEW a \in Nat, NEW b \in Nat, NEW k \in Nat, a <= b
    PROVE  a * k \in Nat /\ a * k <= b * k
<1> DEFINE d == b - a
<1>1. d \in Nat /\ b = a + d OBVIOUS
<1>2. d * k \in Nat /\ a * k \in Nat BY <1>1
<1>3. b * k = a * k + d * k BY <1>1
<1> QED BY <1>2, <1>3

\* A multiple that fits is counted by the quotient.
LEMMA QuotientCounts ==
    ASSUME NEW k \in Nat \ {0}, NEW b \in Nat
    PROVE  /\ b \div k \in Nat
           /\ (b \div k) * k <= b
           /\ \A a \in Nat : a * k <= b => a <= b \div k
<1> DEFINE q == b \div k
<1>1. q \in Int /\ q * k <= b /\ b < (q + 1) * k OBVIOUS
<1> HIDE DEF q
<1>2. q \in Nat
  <2> SUFFICES ASSUME q < 0 PROVE FALSE BY <1>1
  <2>1. q + 1 <= 0 BY <1>1
  <2>2. (-(q + 1)) \in Nat BY <2>1, <1>1
  <2>3. (-(q + 1)) * k \in Nat BY <2>2
  <2>4. (-(q + 1)) * k = -((q + 1) * k) BY <1>1
  <2> QED BY <2>3, <2>4, <1>1
<1>3. ASSUME NEW a \in Nat, a * k <= b PROVE a <= q
  <2> SUFFICES ASSUME q + 1 <= a PROVE FALSE BY <1>2
  <2>1. (q + 1) * k <= a * k BY <1>2, TimesMonotonic
  <2> QED BY <2>1, <1>1, <1>2, <1>3
<1> QED BY <1>1, <1>2, <1>3 DEF q

\* The size of a chunk is a positive number.
LEMMA ChunkSizeType == ChunkSize \in Nat \ {0} /\ N \in Nat \ {0}
<1> DEFINE p == Cardinality(Workers) * ChunksPerWorker
<1>1. Cardinality(Workers) \in Nat \ {0}
  BY WorkersAssumption, FS_CardinalityType, FS_EmptySet
<1>2. p \in Nat \ {0}
  <2>1. ChunksPerWorker \in Nat \ {0} BY WorkersAssumption
  <2>2. 1 * ChunksPerWorker <= p BY <1>1, <2>1, TimesMonotonic
  <2> QED BY <1>1, <2>1, <2>2
<1>3. N \in Nat \ {0} BY CommunitiesAssumption
<1> HIDE DEF p
<1>4. N + p - 1 \in Nat /\ 1 * p <= N + p - 1 BY <1>2, <1>3
<1>5. (N + p - 1) \div p \in Nat /\ 1 <= (N + p - 1) \div p BY <1>2, <1>4, QuotientCounts
<1> QED BY <1>3, <1>5 DEF ChunkSize, p

\* The chunks are numbered from 1, and begin inside the batch.
LEMMA ChunkType ==
    ASSUME NEW i \in Chunks
    PROVE  i \in Nat \ {0} /\ (i - 1) * ChunkSize \in Nat /\ (i - 1) * ChunkSize + 1 \in 1 .. N
<1> DEFINE k == ChunkSize
           b == N + k - 1
<1>1. k \in Nat \ {0} /\ N \in Nat \ {0} /\ b \in Nat BY ChunkSizeType
<1>2. b \div k \in Nat /\ (b \div k) * k <= b BY <1>1, QuotientCounts
<1>3. i \in Nat \ {0} /\ i <= b \div k BY <1>2 DEF Chunks
<1> HIDE DEF k
<1>4. i * k <= (b \div k) * k BY <1>1, <1>2, <1>3, TimesMonotonic
<1>5. (i - 1) * k \in Nat /\ i * k = (i - 1) * k + k
  <2>1. i - 1 \in Nat BY <1>3
  <2>2. (i - 1) * k \in Nat BY <2>1, <1>1
  <2>3. i * k = (i - 1) * k + k BY <1>1, <1>3
  <2> QED BY <2>2, <2>3
<1> HIDE DEF b
<1>6. i * k \in Nat BY <1>1, <1>3
<1>7. i * k <= b BY <1>1, <1>2, <1>4, <1>6
<1> QED BY <1>1, <1>3, <1>5, <1>6, <1>7 DEF k, b

\* Every community is in a chunk.
LEMMA ChunksCover ==
    ASSUME NEW c \in Communities
    PROVE  \E i \in Chunks : c \in Members(i)
<1> DEFINE k == ChunkSize
           q == (c - 1) \div k
           b == N + k - 1
<1>1. k \in Nat \ {0} /\ N \in Nat \ {0} /\ b \in Nat BY ChunkSizeType
<1>2. c \in Nat \ {0} /\ c <= N /\ c - 1 \in Nat BY <1>1 DEF Communities
<1>3. q \in Int /\ q * k <= c - 1 /\ c - 1 < (q + 1) * k BY <1>1, <1>2
<1>4. q \in Nat BY <1>1, <1>2, QuotientCounts
<1> HIDE DEF k, q, b
<1>5. (q + 1) * k = q * k + k /\ q * k \in Nat BY <1>1, <1>4
<1>6. (q + 1) * k <= b BY <1>1, <1>2, <1>3, <1>5 DEF b
<1>7. q + 1 \in 1 .. b \div k BY <1>1, <1>4, <1>6, QuotientCounts
<1>8. q + 1 \in Chunks BY <1>7 DEF Chunks, k, b
<1>9. (q + 1) - 1 = q BY <1>4
<1>10. q * k < c /\ c <= (q + 1) * k BY <1>1, <1>2, <1>3, <1>4, <1>5
<1>11. c \in Members(q + 1) BY <1>9, <1>10 DEF Members, k
<1> QED BY <1>8, <1>11

\* No community is in two chunks.
LEMMA ChunksDisjoint ==
    ASSUME NEW i \in Chunks, NEW j \in Chunks, NEW c \in Members(i), c \in Members(j)
    PROVE  i = j
<1>1. ASSUME NEW x \in Chunks, NEW y \in Chunks, x < y, c \in Members(x), c \in Members(y)
      PROVE  FALSE
  <2>1. x \in Nat /\ y - 1 \in Nat /\ x <= y - 1 /\ ChunkSize \in Nat
    BY <1>1, ChunkType, ChunkSizeType
  <2>2. x * ChunkSize <= (y - 1) * ChunkSize /\ x * ChunkSize \in Nat
    BY <2>1, TimesMonotonic
  <2>3. (y - 1) * ChunkSize \in Nat BY <1>1, ChunkType
  <2>4. c \in Nat /\ c <= x * ChunkSize /\ (y - 1) * ChunkSize < c
    BY <1>1, ChunkSizeType DEF Members, Communities
  <2> QED BY <2>2, <2>3, <2>4
<1>2. i \in Nat /\ j \in Nat BY ChunkType
<1> QED BY <1>1, <1>2

--------------------------------------------------------------------------------
(***************************************************************************)
(* The inductive invariant.                                                *)
(***************************************************************************)
BatchTyped == TypeOK /\ BatchInv

\* The numbers of the retries.
LEMMA RetriesType == MaxRetries \in Nat \ {0} /\ MaxGenerate \in Nat \ {0}
<1> QED BY RetriesAssumption

\* A busy worker and its chunk.
LEMMA BusyType ==
    ASSUME TypeOK, NEW w \in Workers
    PROVE  /\ work[w].chunk \in {0} \cup Chunks
           /\ work[w].at \in Nat
           /\ work[w].retries \in Nat /\ work[w].retries < MaxRetries
           /\ work[w].gens \in Nat /\ work[w].gens < MaxGenerate
           /\ Busy(w) => work[w].chunk \in Chunks
<1>1. work[w] \in Task BY DEF TypeOK
<1>2. work[w].chunk \in {0} \cup Chunks /\ work[w].at \in 0 .. N + 1
        /\ work[w].retries \in 0 .. MaxRetries - 1 /\ work[w].gens \in 0 .. MaxGenerate - 1
  BY <1>1 DEF Task
<1>3. work[w].at \in Nat BY <1>2, ChunkSizeType
<1> QED BY <1>2, <1>3, RetriesType DEF Busy

\* Workers only run while starmap waits for them.
LEMMA WorkersDuringStarmap ==
    ASSUME BatchTyped, NEW w \in Workers, Busy(w) \/ next \in Chunks
    PROVE  pc = "starmap" /\ left # {}
<1>1. Busy(w) => work[w].chunk \in left BY DEF BatchTyped, BatchInv, ChunksInHand
<1>2. next \in Chunks => next \in left
  <2>1. next \in Nat BY DEF BatchTyped, TypeOK
  <2> QED BY <2>1 DEF BatchTyped, BatchInv, ChunksInHand
<1> QED BY <1>1, <1>2 DEF BatchTyped, BatchInv, Stages

\* The invariant holds at the beginning.
LEMMA BatchInit == Init => BatchTyped
<1> SUFFICES ASSUME Init PROVE BatchTyped OBVIOUS
<1> USE DEF Init
<1>1. N + 1 \in Nat /\ 0 \in 0 .. N + 1 BY ChunkSizeType
<1>2. Free \in Task BY <1>1, RetriesType DEF Free, At, Task
<1>3. TypeOK BY <1>2 DEF TypeOK, Rows
<1>4. \A w \in Workers : ~Busy(w) BY DEF Busy, Free, At
<1>5. ChunksInHand BY <1>4, ChunkType DEF ChunksInHand
<1>6. \A i \in Chunks : Members(i) \subseteq Communities BY DEF Members
<1>7. RowsInPlace BY <1>4, <1>6 DEF RowsInPlace
<1>8. CallsSpent
  <2>1. MaxGenerate * MaxRetries \in Nat BY RetriesType
  <2>2. CallsBounded /\ PlaceholderEarned BY <2>1 DEF CallsBounded, PlaceholderEarned
  <2> QED BY <2>2, <1>4, <1>6 DEF CallsSpent, Serving
<1>9. Stages BY DEF Stages, Embedding
<1> QED BY <1>3, <1>5, <1>7, <1>8, <1>9 DEF BatchTyped, BatchInv

\* A worker that goes on with its chunk leaves the chunks as they are, and the row it may
\* have finished is one for its community.
LEMMA ServingStep ==
    ASSUME BatchTyped, NEW w \in Workers, NEW c \in Communities, Serving(w, c),
           work' \in [Workers -> Task], \A v \in Workers \ {w} : work'[v] = work[v],
           work'[w].chunk = work[w].chunk, work'[w].at \in {c, c + 1},
           made' \in [Communities -> Rows],
           \A d \in Communities \ {c} : made'[d] = made[d],
           made'[c] \in {made[c]} \cup LR!RowOf(c) \cup (IF c \in Extractive THEN {} ELSE {"odd"}),
           work'[w].at = c + 1 => made'[c] # "none",
           made[c] # "none" => made'[c] # "none",
           UNCHANGED <<pc, next, value, success, left, emb, local>>
    PROVE  ChunksInHand' /\ RowsInPlace' /\ Stages'
<1>1. work[w].chunk \in Chunks /\ Busy(w) /\ c = work[w].at /\ c \in Members(work[w].chunk)
        /\ work[w].chunk \in left
  BY BusyType DEF Serving, BatchTyped, BatchInv, ChunksInHand
<1>2. \A v \in Workers : Busy(v)' <=> Busy(v)
  BY DEF Busy
<1>3. \A v \in Workers : work'[v].chunk = work[v].chunk
  OBVIOUS
<1>4. c \in Nat /\ c \in 1 .. N /\ N \in Nat BY ChunkSizeType DEF Communities
<1>5. ChunksInHand'
  <2>1. ASSUME NEW v \in Workers, Busy(v)'
        PROVE  /\ work'[v].chunk \in left' /\ work'[v].chunk < next'
               /\ work'[v].at \in 1 .. N + 1 /\ (work'[v].chunk - 1) * ChunkSize < work'[v].at
    <3>1. /\ work[v].chunk \in left /\ work[v].chunk < next
          /\ work[v].at \in 1 .. N + 1 /\ (work[v].chunk - 1) * ChunkSize < work[v].at
      BY <2>1, <1>2 DEF BatchTyped, BatchInv, ChunksInHand
    <3>2. CASE v # w BY <3>1, <3>2
    <3>3. CASE v = w
      <4>1. (work[w].chunk - 1) * ChunkSize \in Nat BY <1>1, ChunkType
      <4>2. work'[w].at \in 1 .. N + 1 /\ (work[w].chunk - 1) * ChunkSize < work'[w].at
        BY <4>1, <3>1, <3>3, <1>1, <1>4
      <4> QED BY <4>2, <3>1, <3>3
    <3> QED BY <3>2, <3>3
  <2>2. \A u, v \in Workers : u # v /\ Busy(u)' => work'[u].chunk # work'[v].chunk
    BY <1>2, <1>3 DEF BatchTyped, BatchInv, ChunksInHand
  <2>3. \A i \in Chunks : next' <= i => i \in left'
    BY DEF BatchTyped, BatchInv, ChunksInHand
  <2>4. \A i \in left' : i < next' => \E v \in Workers : work'[v].chunk = i
    BY <1>3 DEF BatchTyped, BatchInv, ChunksInHand
  <2> QED BY <2>1, <2>2, <2>3, <2>4 DEF ChunksInHand
<1>6. RowsInPlace'
  <2>1. ASSUME NEW v \in Workers, NEW d \in Communities, Busy(v)',
               d \in Members(work'[v].chunk), d < work'[v].at
        PROVE  made'[d] # "none"
    <3>1. CASE d = c
      <4>1. v = w
        <5> SUFFICES ASSUME v # w PROVE FALSE OBVIOUS
        <5>1. work[v].chunk \in Chunks /\ work[v].chunk # work[w].chunk
          BY <2>1, <1>2, BusyType DEF BatchTyped, BatchInv, ChunksInHand
        <5> QED BY <5>1, <3>1, <2>1, <1>1, <1>3, ChunksDisjoint
      <4> QED BY <4>1, <3>1, <2>1, <1>4
    <3>2. CASE d # c
      <4>1. d < work[v].at
        <5>1. d \in Nat BY ChunkSizeType DEF Communities
        <5> QED BY <5>1, <2>1, <3>2, <1>1, <1>4
      <4> QED BY <4>1, <3>2, <2>1, <1>2, <1>3 DEF BatchTyped, BatchInv, RowsInPlace
    <3> QED BY <3>1, <3>2
  <2>2. ASSUME NEW i \in Chunks \ left', NEW d \in Members(i), success'
        PROVE  made'[d] # "none" /\ value'[d] = made'[d]
    <3>1. d # c BY <2>2, <1>1, ChunksDisjoint
    <3>2. d \in Communities BY DEF Members
    <3> QED BY <2>2, <3>1, <3>2 DEF BatchTyped, BatchInv, RowsInPlace
  <2>3. \A i \in left' : \A d \in Members(i) : value'[d] = "none"
    BY DEF BatchTyped, BatchInv, RowsInPlace
  <2>4. ASSUME NEW d \in Communities
        PROVE  /\ value'[d] \in {"none", made'[d]}
               /\ made'[d] \in {"none"} \cup LR!RowOf(d)
                                 \cup (IF d \in Extractive THEN {} ELSE {"odd"})
    <3>1. /\ value[d] \in {"none", made[d]}
          /\ made[d] \in {"none"} \cup LR!RowOf(d)
                           \cup (IF d \in Extractive THEN {} ELSE {"odd"})
      BY DEF BatchTyped, BatchInv, RowsInPlace
    <3>2. value[c] = "none" BY <1>1 DEF BatchTyped, BatchInv, RowsInPlace
    <3> QED BY <3>1, <3>2
  <2> QED BY <2>1, <2>2, <2>3, <2>4 DEF RowsInPlace
<1>7. Stages' BY DEF BatchTyped, BatchInv, Stages, Embedding
<1> QED BY <1>5, <1>6, <1>7

\* A worker that goes on pays for its own community only.
LEMMA CallsStep ==
    ASSUME BatchTyped, NEW w \in Workers, NEW c \in Communities, Serving(w, c),
           work' \in [Workers -> Task], \A v \in Workers \ {w} : work'[v] = work[v],
           work'[w].chunk = work[w].chunk, work'[w].at \in {c, c + 1},
           \A d \in Communities \ {c} : made'[d] = made[d],
           calls' \in [Communities -> Nat],
           \A d \in Communities \ {c} : calls'[d] = calls[d],
           calls'[c] <= MaxGenerate * MaxRetries,
           c \in Extractive => calls'[c] = 0,
           made'[c] = "placeholder" => calls'[c] >= MaxGenerate,
           work'[w].at = c =>
               /\ work'[w].gens + work'[w].retries <= calls'[c]
               /\ calls'[c] <= work'[w].gens * MaxRetries + work'[w].retries,
           work'[w].at = c + 1 => work'[w].gens = 0 /\ work'[w].retries = 0,
           next' = next
    PROVE  CallsSpent'
<1>1. work[w].chunk \in Chunks /\ Busy(w) /\ c = work[w].at /\ c \in Members(work[w].chunk)
        /\ work[w].chunk \in left
  BY BusyType DEF Serving, BatchTyped, BatchInv, ChunksInHand
<1>2. \A v \in Workers : Busy(v)' <=> Busy(v) BY DEF Busy
<1>3. \A v \in Workers : work'[v].chunk = work[v].chunk OBVIOUS
<1>4. c \in Nat /\ \A d \in Communities : d \in Nat BY ChunkSizeType DEF Communities
<1>5. \A v \in Workers : v # w /\ Busy(v) => c \notin Members(work[v].chunk)
  <2> SUFFICES ASSUME NEW v \in Workers, v # w, Busy(v), c \in Members(work[v].chunk)
               PROVE  FALSE
    OBVIOUS
  <2>1. work[v].chunk \in Chunks /\ work[v].chunk # work[w].chunk
    BY BusyType DEF BatchTyped, BatchInv, ChunksInHand
  <2> QED BY <2>1, <1>1, ChunksDisjoint
<1>6. CallsBounded' /\ PlaceholderEarned'
  BY DEF BatchTyped, BatchInv, CallsSpent, CallsBounded, PlaceholderEarned
<1>7. ASSUME NEW v \in Workers, NEW d \in Communities, Serving(v, d)'
      PROVE  /\ work'[v].gens + work'[v].retries <= calls'[d]
             /\ calls'[d] <= work'[v].gens * MaxRetries + work'[v].retries
  <2>1. Busy(v) /\ d = work'[v].at /\ d \in Members(work[v].chunk)
    BY <1>7, <1>2, <1>3 DEF Serving
  <2>2. CASE v # w
    <3>1. d # c BY <2>1, <2>2, <1>5
    <3>2. Serving(v, d) BY <2>1, <2>2 DEF Serving
    <3> QED BY <2>2, <3>1, <3>2 DEF BatchTyped, BatchInv, CallsSpent
  <2>3. CASE v = w /\ d = c BY <2>1, <2>3
  <2>4. CASE v = w /\ d = c + 1
    <3>1. d # c /\ c < d BY <2>4, <1>4
    <3>2. calls[d] = 0
      BY <2>1, <2>4, <3>1, <1>1 DEF BatchTyped, BatchInv, CallsSpent
    <3>3. calls'[d] = 0 /\ work'[v].gens = 0 /\ work'[v].retries = 0
      BY <2>1, <2>4, <3>1, <3>2
    <3>4. 0 * MaxRetries = 0 BY RetriesType
    <3> QED BY <3>3, <3>4
  <2> QED BY <2>1, <2>2, <2>3, <2>4
<1>8. ASSUME NEW v \in Workers, NEW d \in Communities, Busy(v)',
             d \in Members(work'[v].chunk), work'[v].at < d
      PROVE  calls'[d] = 0
  <2>1. d # c /\ work[v].at < d
    <3>1. CASE v # w
      <4>1. Busy(v) /\ d \in Members(work[v].chunk) /\ work[v].at < d
        BY <1>8, <1>2, <1>3, <3>1
      <4> QED BY <4>1, <3>1, <1>5
    <3>2. CASE v = w BY <1>8, <3>2, <1>1, <1>4
    <3> QED BY <3>1, <3>2
  <2> QED BY <2>1, <1>8, <1>2, <1>3 DEF BatchTyped, BatchInv, CallsSpent
<1>9. ASSUME NEW i \in Chunks, next' <= i, NEW d \in Members(i) PROVE calls'[d] = 0
  <2>1. d # c
    <3>1. work[w].chunk < next BY <1>1 DEF BatchTyped, BatchInv, ChunksInHand
    <3>2. work[w].chunk \in Nat /\ i \in Nat /\ next \in Nat
      BY <1>1, ChunkType DEF BatchTyped, TypeOK
    <3>3. work[w].chunk # i BY <3>1, <3>2, <1>9
    <3> QED BY <3>3, <1>1, <1>9, ChunksDisjoint
  <2>2. d \in Communities BY DEF Members
  <2> QED BY <2>1, <2>2, <1>9 DEF BatchTyped, BatchInv, CallsSpent
<1> QED BY <1>6, <1>7, <1>8, <1>9 DEF CallsSpent

\* What a community under way may still cost.
LEMMA OneCallMore ==
    ASSUME BatchTyped, NEW w \in Workers, NEW c \in Communities, Serving(w, c)
    PROVE  /\ calls[c] \in Nat
           /\ calls[c] + 1 <= (work[w].gens + 1) * MaxRetries
           /\ calls[c] + 1 <= MaxGenerate * MaxRetries
           /\ work[w].gens + work[w].retries <= calls[c]
           /\ calls[c] <= work[w].gens * MaxRetries + work[w].retries
<1> DEFINE g == work[w].gens
           r == work[w].retries
<1>1. calls[c] \in Nat BY DEF BatchTyped, TypeOK
<1>2. g \in Nat /\ g < MaxGenerate /\ r \in Nat /\ r < MaxRetries
  BY BusyType DEF BatchTyped
<1>3. g + r <= calls[c] /\ calls[c] <= g * MaxRetries + r
  BY DEF BatchTyped, BatchInv, CallsSpent
<1> HIDE DEF g, r
<1>4. (g + 1) * MaxRetries = g * MaxRetries + MaxRetries /\ g * MaxRetries \in Nat
  BY <1>2, RetriesType
<1>5. (g + 1) * MaxRetries <= MaxGenerate * MaxRetries
  <2>1. g + 1 \in Nat /\ g + 1 <= MaxGenerate BY <1>2, RetriesType
  <2> QED BY <2>1, RetriesType, TimesMonotonic
<1>6. MaxGenerate * MaxRetries \in Nat BY RetriesType
<1>7. calls[c] + 1 <= (g + 1) * MaxRetries BY <1>1, <1>2, <1>3, <1>4, RetriesType
<1> QED BY <1>1, <1>3, <1>4, <1>5, <1>6, <1>7, RetriesType DEF g, r

\* A worker that goes on keeps the invariant.
LEMMA FinishStep ==
    ASSUME BatchTyped, NEW w \in Workers, NEW c \in Communities, Serving(w, c),
           NEW row \in LR!RowOf(c) \cup (IF c \in Extractive THEN {} ELSE {"odd"}),
           row \in Rows \ {"none"},
           Finish(w, c, row),
           calls' \in [Communities -> Nat],
           \A d \in Communities \ {c} : calls'[d] = calls[d],
           calls'[c] <= MaxGenerate * MaxRetries,
           c \in Extractive => calls'[c] = 0,
           row = "placeholder" => calls'[c] >= MaxGenerate,
           UNCHANGED <<pc, next, value, success, left, emb, local>>
    PROVE  BatchTyped'
<1>1. work[w] \in Task /\ work[w].chunk \in {0} \cup Chunks /\ work \in [Workers -> Task]
  BY BusyType DEF BatchTyped, TypeOK
<1>2. c \in Nat /\ c + 1 \in 0 .. N + 1 BY ChunkSizeType DEF Communities
<1> DEFINE t == At(work[w].chunk, c + 1)
<1>3. t \in Task /\ t.chunk = work[w].chunk /\ t.at = c + 1 /\ t.gens = 0 /\ t.retries = 0
  <2>1. 0 \in 0 .. MaxRetries - 1 /\ 0 \in 0 .. MaxGenerate - 1 BY RetriesType
  <2> QED BY <2>1, <1>1, <1>2 DEF Task, At
<1>4. work' = [work EXCEPT ![w] = t] /\ made' = [made EXCEPT ![c] = row]
  BY DEF Finish
<1> HIDE DEF t
<1>5. work' \in [Workers -> Task] /\ work'[w] = t /\ \A v \in Workers \ {w} : work'[v] = work[v]
  BY <1>1, <1>3, <1>4
<1>6. /\ made' \in [Communities -> Rows] /\ made'[c] = row
      /\ \A d \in Communities \ {c} : made'[d] = made[d]
  BY <1>4 DEF BatchTyped, TypeOK
<1>7. c # c + 1 BY <1>2
<1>8. ChunksInHand' /\ RowsInPlace' /\ Stages'
  BY <1>3, <1>5, <1>6, <1>7, ServingStep
<1>9. CallsSpent' BY <1>3, <1>5, <1>6, <1>7, CallsStep
<1>10. TypeOK' BY <1>5, <1>6 DEF BatchTyped, TypeOK
<1> QED BY <1>8, <1>9, <1>10 DEF BatchTyped, BatchInv

\* A worker that asks again keeps the invariant.
LEMMA AskStep ==
    ASSUME BatchTyped, NEW w \in Workers, NEW c \in Communities, Serving(w, c),
           c \notin Extractive,
           NEW g \in 0 .. MaxGenerate - 1, NEW r \in 0 .. MaxRetries - 1,
           work' = [work EXCEPT ![w].gens = g, ![w].retries = r],
           g + r <= calls[c] + 1, calls[c] + 1 <= g * MaxRetries + r,
           calls' = [calls EXCEPT ![c] = @ + 1],
           UNCHANGED <<pc, next, made, value, success, left, emb, local>>
    PROVE  BatchTyped'
<1>1. work[w] \in Task /\ work \in [Workers -> Task] BY DEF BatchTyped, TypeOK
<1>2. c \in Nat /\ c = work[w].at /\ c # c + 1
  BY ChunkSizeType DEF Communities, Serving
<1> DEFINE t == [work[w] EXCEPT !.gens = g, !.retries = r]
<1>3. t \in Task /\ t.chunk = work[w].chunk /\ t.at = c /\ t.gens = g /\ t.retries = r
  BY <1>1, <1>2 DEF Task
<1>4. work' = [work EXCEPT ![w] = t] BY <1>1
<1> HIDE DEF t
<1>5. work' \in [Workers -> Task] /\ work'[w] = t /\ \A v \in Workers \ {w} : work'[v] = work[v]
  BY <1>1, <1>3, <1>4
<1>6. calls \in [Communities -> Nat] /\ made \in [Communities -> Rows]
  BY DEF BatchTyped, TypeOK
<1>7. /\ calls' \in [Communities -> Nat] /\ calls'[c] = calls[c] + 1
      /\ \A d \in Communities \ {c} : calls'[d] = calls[d]
  BY <1>6
<1>8. ChunksInHand' /\ RowsInPlace' /\ Stages'
  BY <1>2, <1>3, <1>5, <1>6, ServingStep
<1>9. calls'[c] <= MaxGenerate * MaxRetries BY <1>7, OneCallMore
<1>10. made'[c] = "placeholder" => calls'[c] >= MaxGenerate
  <2>1. made[c] = "placeholder" => calls[c] >= MaxGenerate
    BY DEF BatchTyped, BatchInv, CallsSpent, PlaceholderEarned
  <2> QED BY <2>1, <1>6, <1>7, RetriesType
<1>11. CallsSpent' BY <1>2, <1>3, <1>5, <1>7, <1>9, <1>10, CallsStep
<1>12. TypeOK' BY <1>5, <1>6, <1>7 DEF BatchTyped, TypeOK
<1> QED BY <1>8, <1>11, <1>12 DEF BatchTyped, BatchInv

\* Source texts make the report.
LEMMA ExtractStep ==
    ASSUME BatchTyped, NEW w \in Workers, NEW c \in Communities, Extract(w, c)
    PROVE  BatchTyped'
<1> USE DEF Extract
<1>1. "extract" \in LR!RowOf(c) /\ "extract" \in Rows \ {"none"} BY DEF LR!RowOf, Rows
<1>2. calls \in [Communities -> Nat] BY DEF BatchTyped, TypeOK
<1>3. calls[c] = 0 BY DEF BatchTyped, BatchInv, CallsSpent, CallsBounded
<1>4. MaxGenerate * MaxRetries \in Nat BY RetriesType
<1>5. calls'[c] <= MaxGenerate * MaxRetries /\ calls'[c] = 0 BY <1>3, <1>4
<1> QED BY <1>1, <1>2, <1>5, FinishStep

\* An answer passes the checks.
LEMMA AnswerStep ==
    ASSUME BatchTyped, NEW w \in Workers, NEW c \in Communities, Answer(w, c)
    PROVE  BatchTyped'
<1> USE DEF Answer
<1>1. PICK row \in {"report", "odd"} : Finish(w, c, row) OBVIOUS
<1>2. row \in LR!RowOf(c) \cup (IF c \in Extractive THEN {} ELSE {"odd"})
        /\ row \in Rows \ {"none"} /\ row # "placeholder"
  BY DEF LR!RowOf, Rows
<1>3. calls \in [Communities -> Nat] BY DEF BatchTyped, TypeOK
<1>4. calls'[c] = calls[c] + 1 /\ calls' \in [Communities -> Nat] BY <1>3
<1>5. calls'[c] <= MaxGenerate * MaxRetries BY <1>4, OneCallMore
<1> QED BY <1>1, <1>2, <1>3, <1>4, <1>5, FinishStep

\* An answer is invalid.
LEMMA InvalidAnswerStep ==
    ASSUME BatchTyped, NEW w \in Workers, NEW c \in Communities, InvalidAnswer(w, c)
    PROVE  BatchTyped'
<1> USE DEF InvalidAnswer
<1>1. calls \in [Communities -> Nat] /\ work \in [Workers -> Task]
  BY DEF BatchTyped, TypeOK
<1>2. calls'[c] = calls[c] + 1 /\ calls' \in [Communities -> Nat] /\ calls[c] \in Nat
  BY <1>1
<1>3. /\ work[w].gens \in Nat /\ work[w].gens < MaxGenerate
      /\ work[w].retries \in Nat /\ work[w].retries < MaxRetries
  BY BusyType DEF BatchTyped
<1>4. /\ calls[c] + 1 <= (work[w].gens + 1) * MaxRetries
      /\ calls[c] + 1 <= MaxGenerate * MaxRetries
      /\ work[w].gens + work[w].retries <= calls[c]
  BY OneCallMore
<1>5. CASE work[w].gens + 1 < MaxGenerate
  <2>1. work[w].gens + 1 \in 0 .. MaxGenerate - 1 /\ 0 \in 0 .. MaxRetries - 1
    BY <1>3, <1>5, RetriesType
  <2>2. work[w].gens + 1 + 0 <= calls[c] + 1 BY <1>2, <1>3, <1>4
  <2>3. calls[c] + 1 <= (work[w].gens + 1) * MaxRetries + 0
    <3> DEFINE x == (work[w].gens + 1) * MaxRetries
    <3>1. x \in Nat BY <1>3, RetriesType
    <3>2. calls[c] + 1 <= x BY <1>4
    <3> HIDE DEF x
    <3>3. calls[c] + 1 <= x + 0 BY <3>1, <3>2
    <3> QED BY <3>3 DEF x
  <2>4. work' = [work EXCEPT ![w].gens = work[w].gens + 1, ![w].retries = 0] /\ made' = made
    BY <1>5
  <2> QED BY <2>1, <2>2, <2>3, <2>4, AskStep
<1>6. CASE ~(work[w].gens + 1 < MaxGenerate)
  <2>1. Finish(w, c, "placeholder") BY <1>6
  <2>2. "placeholder" \in LR!RowOf(c) /\ "placeholder" \in Rows \ {"none"}
    BY DEF LR!RowOf, Rows
  <2>3. MaxGenerate <= calls'[c] BY <1>2, <1>3, <1>4, <1>6, RetriesType
  <2> QED BY <2>1, <2>2, <2>3, <1>1, <1>2, <1>4, FinishStep
<1> QED BY <1>5, <1>6

\* A call fails, and is not the last one.
LEMMA CallFailsStep ==
    ASSUME BatchTyped, NEW w \in Workers, NEW c \in Communities, CallFails(w, c)
    PROVE  BatchTyped'
<1> USE DEF CallFails
<1> DEFINE g == work[w].gens
           r == work[w].retries
<1>1. g \in Nat /\ g < MaxGenerate /\ r \in Nat /\ r < MaxRetries
  BY BusyType DEF BatchTyped
<1>2. calls[c] \in Nat /\ g + r <= calls[c] /\ calls[c] <= g * MaxRetries + r
  BY OneCallMore
<1>3. work' = [work EXCEPT ![w].gens = g, ![w].retries = r + 1]
  <2>1. work[w] \in Task /\ work \in [Workers -> Task] BY DEF BatchTyped, TypeOK
  <2>2. [work[w] EXCEPT !.retries = r + 1] = [work[w] EXCEPT !.gens = g, !.retries = r + 1]
    BY <2>1 DEF Task
  <2> QED BY <2>1, <2>2
<1>4. r + 1 < MaxRetries OBVIOUS
<1> HIDE DEF g, r
<1>5. g \in 0 .. MaxGenerate - 1 /\ r + 1 \in 0 .. MaxRetries - 1
  BY <1>1, <1>4, RetriesType
<1>6. g * MaxRetries \in Nat BY <1>1, RetriesType
<1>7. g + (r + 1) <= calls[c] + 1 /\ calls[c] + 1 <= g * MaxRetries + (r + 1)
  BY <1>1, <1>2, <1>6
<1> QED BY <1>3, <1>5, <1>7, AskStep

\* A worker takes the next chunk of the queue.
LEMMA TakeChunkStep ==
    ASSUME BatchTyped, NEW w \in Workers, TakeChunk(w)
    PROVE  BatchTyped'
<1> USE DEF TakeChunk
<1> DEFINE t == At(next, (next - 1) * ChunkSize + 1)
<1>1. next \in Nat \ {0} /\ (next - 1) * ChunkSize \in Nat
        /\ (next - 1) * ChunkSize + 1 \in 1 .. N /\ N \in Nat
  BY ChunkType, ChunkSizeType
<1>2. (next - 1) * ChunkSize + 1 \in 0 .. N + 1 /\ (next - 1) * ChunkSize + 1 \in 1 .. N + 1
  BY <1>1
<1>3. t \in Task /\ t.chunk = next /\ t.at = (next - 1) * ChunkSize + 1
        /\ t.gens = 0 /\ t.retries = 0
  <2>1. 0 \in 0 .. MaxRetries - 1 /\ 0 \in 0 .. MaxGenerate - 1 BY RetriesType
  <2> QED BY <2>1, <1>2 DEF Task, At
<1> HIDE DEF t
<1>4. work' = [work EXCEPT ![w] = t] /\ work \in [Workers -> Task]
  BY DEF t, BatchTyped, TypeOK
<1>5. work' \in [Workers -> Task] /\ work'[w] = t /\ \A v \in Workers \ {w} : work'[v] = work[v]
  BY <1>3, <1>4
<1>6. Busy(w)' /\ \A v \in Workers \ {w} : Busy(v)' <=> Busy(v)
  BY <1>1, <1>3, <1>5 DEF Busy
<1>7. next' = next + 1 /\ next \in left /\ \A i \in Chunks : i \in Nat
  BY <1>1, ChunkType DEF BatchTyped, BatchInv, ChunksInHand
<1>8. TypeOK' BY <1>1, <1>5 DEF BatchTyped, TypeOK
<1>9. ChunksInHand'
  <2>1. ASSUME NEW v \in Workers, Busy(v)'
        PROVE  /\ work'[v].chunk \in left' /\ work'[v].chunk < next'
               /\ work'[v].at \in 1 .. N + 1 /\ (work'[v].chunk - 1) * ChunkSize < work'[v].at
    <3>1. CASE v = w
      <4>1. (next - 1) * ChunkSize < (next - 1) * ChunkSize + 1 /\ next < next + 1 BY <1>1
      <4> QED BY <4>1, <3>1, <1>2, <1>3, <1>5, <1>7
    <3>2. CASE v # w
      <4>1. /\ work[v].chunk \in left /\ work[v].chunk < next
            /\ work[v].at \in 1 .. N + 1 /\ (work[v].chunk - 1) * ChunkSize < work[v].at
        BY <2>1, <3>2, <1>6 DEF BatchTyped, BatchInv, ChunksInHand
      <4>2. work[v].chunk \in Nat
        BY <2>1, <3>2, <1>6, <1>7, BusyType DEF BatchTyped
      <4>3. work[v].chunk < next + 1 BY <4>1, <4>2, <1>1
      <4> QED BY <4>1, <4>3, <3>2, <1>5, <1>7
    <3> QED BY <3>1, <3>2
  <2>2. ASSUME NEW u \in Workers, NEW v \in Workers, u # v, Busy(u)'
        PROVE  work'[u].chunk # work'[v].chunk
    <3>1. ASSUME NEW x \in Workers, x # w PROVE work[x].chunk # next
      <4>1. CASE Busy(x)
        <5>1. work[x].chunk \in Nat BY <4>1, <1>7, BusyType DEF BatchTyped
        <5> QED BY <5>1, <4>1, <1>1 DEF BatchTyped, BatchInv, ChunksInHand
      <4>2. CASE ~Busy(x) BY <4>2, <1>1 DEF Busy
      <4> QED BY <4>1, <4>2
    <3> QED BY <2>2, <3>1, <1>3, <1>5, <1>6 DEF BatchTyped, BatchInv, ChunksInHand
  <2>3. ASSUME NEW i \in Chunks, next' <= i PROVE i \in left'
    <3>1. next <= i BY <2>3, <1>1, <1>7
    <3> QED BY <3>1 DEF BatchTyped, BatchInv, ChunksInHand
  <2>4. ASSUME NEW i \in left', i < next' PROVE \E v \in Workers : work'[v].chunk = i
    <3>1. i \in Nat BY <1>7 DEF BatchTyped, TypeOK
    <3>2. CASE i = next BY <3>2, <1>3, <1>5
    <3>3. CASE i # next
      <4>1. i < next BY <3>1, <3>3, <2>4, <1>1, <1>7
      <4>2. PICK v \in Workers : work[v].chunk = i
        BY <4>1 DEF BatchTyped, BatchInv, ChunksInHand
      <4>3. v # w
        <5>1. i # 0 BY ChunkType DEF BatchTyped, TypeOK
        <5> QED BY <5>1, <4>2 DEF Busy
      <4> QED BY <4>2, <4>3, <1>5
    <3> QED BY <3>2, <3>3
  <2> QED BY <2>1, <2>2, <2>3, <2>4 DEF ChunksInHand
<1>10. \A c \in Communities : c \in Nat BY ChunkSizeType DEF Communities
<1>11. \A c \in Members(next) : (next - 1) * ChunkSize < c BY DEF Members
<1>12. RowsInPlace'
  <2>1. ASSUME NEW v \in Workers, NEW c \in Communities, Busy(v)',
               c \in Members(work'[v].chunk), c < work'[v].at
        PROVE  made'[c] # "none"
    <3>1. v # w
      <4> SUFFICES ASSUME v = w PROVE FALSE OBVIOUS
      <4>1. c < (next - 1) * ChunkSize + 1 /\ (next - 1) * ChunkSize < c
        BY <2>1, <1>3, <1>5, <1>11
      <4> QED BY <4>1, <1>1, <1>10
    <3> QED BY <2>1, <3>1, <1>5, <1>6 DEF BatchTyped, BatchInv, RowsInPlace
  <2> QED BY <2>1 DEF BatchTyped, BatchInv, RowsInPlace
<1>13. CallsSpent'
  <2>1. CallsBounded' /\ PlaceholderEarned'
    BY DEF BatchTyped, BatchInv, CallsSpent, CallsBounded, PlaceholderEarned
  <2>2. \A c \in Members(next) : calls[c] = 0 /\ c \in Communities
    BY <1>1 DEF BatchTyped, BatchInv, CallsSpent, Members
  <2>3. ASSUME NEW v \in Workers, NEW c \in Communities, Serving(v, c)'
        PROVE  /\ work'[v].gens + work'[v].retries <= calls'[c]
               /\ calls'[c] <= work'[v].gens * MaxRetries + work'[v].retries
    <3>1. CASE v = w
      <4>1. calls'[c] = 0 BY <2>2, <2>3, <3>1, <1>3, <1>5 DEF Serving
      <4>2. 0 * MaxRetries = 0 BY RetriesType
      <4> QED BY <4>1, <4>2, <3>1, <1>3, <1>5
    <3>2. CASE v # w
      <4>1. Serving(v, c) BY <2>3, <3>2, <1>5, <1>6 DEF Serving
      <4> QED BY <4>1, <3>2, <1>5 DEF BatchTyped, BatchInv, CallsSpent
    <3> QED BY <3>1, <3>2
  <2>4. ASSUME NEW v \in Workers, NEW c \in Communities, Busy(v)',
               c \in Members(work'[v].chunk), work'[v].at < c
        PROVE  calls'[c] = 0
    <3>1. CASE v = w BY <2>2, <2>4, <3>1, <1>3, <1>5
    <3>2. CASE v # w BY <2>4, <3>2, <1>5, <1>6 DEF BatchTyped, BatchInv, CallsSpent
    <3> QED BY <3>1, <3>2
  <2>5. ASSUME NEW i \in Chunks, next' <= i, NEW c \in Members(i) PROVE calls'[c] = 0
    <3>1. next <= i BY <2>5, <1>1, <1>7
    <3> QED BY <3>1 DEF BatchTyped, BatchInv, CallsSpent
  <2> QED BY <2>1, <2>3, <2>4, <2>5 DEF CallsSpent
<1>14. Stages' BY DEF BatchTyped, BatchInv, Stages, Embedding
<1> QED BY <1>8, <1>9, <1>12, <1>13, <1>14 DEF BatchTyped, BatchInv

\* A chunk that ends leaves the other chunks as they are.
LEMMA EndChunkStep ==
    ASSUME BatchTyped, NEW w \in Workers, Busy(w), EndChunk(w),
           UNCHANGED <<pc, next, made, emb, local>>,
           \A i \in Chunks \ {work[w].chunk} : \A d \in Members(i) : value'[d] = value[d],
           \A d \in Communities : value'[d] \in {"none", made[d]},
           success' => success,
           success' => \A d \in Members(work[w].chunk) : made[d] # "none" /\ value'[d] = made[d]
    PROVE  /\ work' \in [Workers -> Task] /\ left' \subseteq Chunks
           /\ ~Busy(w)' /\ \A v \in Workers \ {w} : work'[v] = work[v]
           /\ ChunksInHand' /\ RowsInPlace' /\ Stages'
<1>1. 0 \in 0 .. MaxRetries - 1 /\ 0 \in 0 .. MaxGenerate - 1 /\ 0 \in 0 .. N + 1
  BY RetriesType, ChunkSizeType
<1>2. Free \in Task /\ Free.chunk = 0 BY <1>1 DEF Free, At, Task
<1>3. work' \in [Workers -> Task] /\ work'[w] = Free /\ \A v \in Workers \ {w} : work'[v] = work[v]
  BY <1>2 DEF EndChunk, BatchTyped, TypeOK
<1>4. ~Busy(w)' /\ \A v \in Workers \ {w} : Busy(v)' <=> Busy(v)
  BY <1>2, <1>3 DEF Busy
<1>5. left' = left \ {work[w].chunk} /\ left \subseteq Chunks /\ work[w].chunk \in Chunks
  BY BusyType DEF EndChunk, BatchTyped, TypeOK
<1>6. pc = "starmap" BY WorkersDuringStarmap
<1>7. ChunksInHand'
  <2>1. ASSUME NEW v \in Workers, Busy(v)'
        PROVE  /\ work'[v].chunk \in left' /\ work'[v].chunk < next'
               /\ work'[v].at \in 1 .. N + 1 /\ (work'[v].chunk - 1) * ChunkSize < work'[v].at
    BY <2>1, <1>3, <1>4, <1>5 DEF BatchTyped, BatchInv, ChunksInHand
  <2>2. ASSUME NEW u \in Workers, NEW v \in Workers, u # v, Busy(u)'
        PROVE  work'[u].chunk # work'[v].chunk
    <3>1. Busy(u) /\ u # w BY <2>2, <1>4
    <3>2. work[u].chunk # 0 /\ work[u].chunk # work[v].chunk
      BY <2>2, <3>1 DEF Busy, BatchTyped, BatchInv, ChunksInHand
    <3> QED BY <3>1, <3>2, <1>2, <1>3
  <2>3. ASSUME NEW i \in Chunks, next' <= i PROVE i \in left'
    <3>1. work[w].chunk < next BY DEF BatchTyped, BatchInv, ChunksInHand
    <3>2. next \in Nat /\ i \in Nat /\ work[w].chunk \in Nat
      BY <1>5, ChunkType DEF BatchTyped, TypeOK
    <3>3. i # work[w].chunk BY <3>1, <3>2, <2>3
    <3> QED BY <3>3, <2>3, <1>5 DEF BatchTyped, BatchInv, ChunksInHand
  <2>4. ASSUME NEW i \in left', i < next' PROVE \E v \in Workers : work'[v].chunk = i
    <3>1. PICK v \in Workers : work[v].chunk = i
      BY <2>4, <1>5 DEF BatchTyped, BatchInv, ChunksInHand
    <3>2. v # w BY <3>1, <1>5
    <3> QED BY <3>1, <3>2, <1>3
  <2> QED BY <2>1, <2>2, <2>3, <2>4 DEF ChunksInHand
<1>8. RowsInPlace'
  <2>1. ASSUME NEW v \in Workers, NEW d \in Communities, Busy(v)',
               d \in Members(work'[v].chunk), d < work'[v].at
        PROVE  made'[d] # "none"
    BY <2>1, <1>3, <1>4 DEF BatchTyped, BatchInv, RowsInPlace
  <2>2. ASSUME NEW i \in Chunks \ left', NEW d \in Members(i), success'
        PROVE  made'[d] # "none" /\ value'[d] = made'[d]
    <3>1. CASE i = work[w].chunk BY <3>1, <2>2
    <3>2. CASE i # work[w].chunk
      <4>1. i \in Chunks \ left BY <3>2, <2>2, <1>5
      <4>2. value'[d] = value[d] BY <3>2, <2>2
      <4> QED BY <4>1, <4>2, <2>2 DEF BatchTyped, BatchInv, RowsInPlace
    <3> QED BY <3>1, <3>2
  <2>3. ASSUME NEW i \in left', NEW d \in Members(i) PROVE value'[d] = "none"
    <3>1. i \in left /\ i \in Chunks \ {work[w].chunk} BY <2>3, <1>5
    <3> QED BY <3>1, <2>3 DEF BatchTyped, BatchInv, RowsInPlace
  <2>4. ASSUME NEW d \in Communities
        PROVE  /\ value'[d] \in {"none", made'[d]}
               /\ made'[d] \in {"none"} \cup LR!RowOf(d)
                                 \cup (IF d \in Extractive THEN {} ELSE {"odd"})
    BY DEF BatchTyped, BatchInv, RowsInPlace
  <2> QED BY <2>1, <2>2, <2>3, <2>4 DEF RowsInPlace
<1>9. Stages' BY <1>6 DEF BatchTyped, BatchInv, Stages, Embedding
<1> QED BY <1>3, <1>4, <1>5, <1>7, <1>8, <1>9

\* A chunk that ends changes neither what the communities of other chunks have cost nor
\* what those to come have.
LEMMA EndCalls ==
    ASSUME BatchTyped, NEW w \in Workers, ~Busy(w)',
           \A v \in Workers \ {w} : work'[v] = work[v],
           CallsBounded', PlaceholderEarned', next' = next,
           \A v \in Workers \ {w} : Busy(v) =>
               \A d \in Members(work[v].chunk) : calls'[d] = calls[d],
           \A i \in Chunks : next <= i => \A d \in Members(i) : calls'[d] = calls[d]
    PROVE  CallsSpent'
<1>1. ASSUME NEW v \in Workers, NEW d \in Communities, Serving(v, d)'
      PROVE  /\ work'[v].gens + work'[v].retries <= calls'[d]
             /\ calls'[d] <= work'[v].gens * MaxRetries + work'[v].retries
  <2>1. v # w /\ work'[v] = work[v] BY <1>1 DEF Serving
  <2>2. Serving(v, d) BY <1>1, <2>1 DEF Serving, Busy
  <2>3. calls'[d] = calls[d] BY <2>1, <2>2 DEF Serving
  <2> QED BY <2>1, <2>2, <2>3 DEF BatchTyped, BatchInv, CallsSpent
<1>2. ASSUME NEW v \in Workers, NEW d \in Communities, Busy(v)',
             d \in Members(work'[v].chunk), work'[v].at < d
      PROVE  calls'[d] = 0
  <2>1. v # w /\ work'[v] = work[v] BY <1>2
  <2>2. Busy(v) BY <1>2, <2>1 DEF Busy
  <2> QED BY <1>2, <2>1, <2>2 DEF BatchTyped, BatchInv, CallsSpent
<1>3. \A i \in Chunks : next' <= i => \A d \in Members(i) : calls'[d] = 0
  BY DEF BatchTyped, BatchInv, CallsSpent
<1> QED BY <1>1, <1>2, <1>3 DEF CallsSpent

\* A chunk ends without an exception.
LEMMA ChunkEndsStep ==
    ASSUME BatchTyped, NEW w \in Workers, ChunkEnds(w)
    PROVE  BatchTyped'
<1> USE DEF ChunkEnds
<1>1. work[w].chunk \in Chunks /\ work[w].chunk \in left
  BY BusyType DEF BatchTyped, BatchInv, ChunksInHand
<1>2. \A i \in Chunks : Members(i) \subseteq Communities BY DEF Members
<1>3. value' \in [Communities -> Rows]
  BY DEF BatchTyped, TypeOK
<1>4. \A i \in Chunks \ {work[w].chunk} : \A d \in Members(i) : value'[d] = value[d]
  BY <1>1, <1>2, ChunksDisjoint
<1>5. \A d \in Communities : value'[d] \in {"none", made[d]}
  BY DEF BatchTyped, BatchInv, RowsInPlace
<1>6. ASSUME NEW d \in Members(work[w].chunk) PROVE made[d] # "none"
  <2>1. d \in Communities /\ d \in Nat /\ (work[w].chunk - 1) * ChunkSize < d
          /\ d <= work[w].chunk * ChunkSize
    BY <1>1, ChunkSizeType DEF Members, Communities
  <2>2. work[w].at \in 1 .. N + 1 /\ (work[w].chunk - 1) * ChunkSize < work[w].at
          /\ work[w].at \notin Members(work[w].chunk)
    BY DEF BatchTyped, BatchInv, ChunksInHand
  <2>3. d < work[w].at
    <3> SUFFICES ASSUME work[w].at <= d PROVE FALSE BY <2>1, <2>2, ChunkSizeType
    <3>1. work[w].at \in Communities
      BY <2>1, <2>2, ChunkSizeType DEF Communities
    <3>2. work[w].chunk * ChunkSize \in Nat
      BY <1>1, ChunkType, ChunkSizeType
    <3>3. work[w].at <= work[w].chunk * ChunkSize
      BY <2>1, <2>2, <3>2, ChunkSizeType
    <3> QED BY <2>2, <3>1, <3>3 DEF Members
  <2> QED BY <2>1, <2>3 DEF BatchTyped, BatchInv, RowsInPlace
<1>7. success' => \A d \in Members(work[w].chunk) : made[d] # "none" /\ value'[d] = made[d]
  BY <1>1, <1>2, <1>6
<1>8. /\ work' \in [Workers -> Task] /\ left' \subseteq Chunks
      /\ ~Busy(w)' /\ \A v \in Workers \ {w} : work'[v] = work[v]
      /\ ChunksInHand' /\ RowsInPlace' /\ Stages'
  BY <1>4, <1>5, <1>7, EndChunkStep
<1>9. CallsBounded' /\ PlaceholderEarned'
  BY DEF BatchTyped, BatchInv, CallsSpent, CallsBounded, PlaceholderEarned
<1>10. CallsSpent' BY <1>8, <1>9, EndCalls
<1>11. TypeOK' BY <1>3, <1>8 DEF BatchTyped, TypeOK
<1> QED BY <1>8, <1>10, <1>11 DEF BatchTyped, BatchInv

\* The last call has failed.
LEMMA WorkerRaisesStep ==
    ASSUME BatchTyped, NEW w \in Workers, NEW c \in Communities, WorkerRaises(w, c)
    PROVE  BatchTyped'
<1> USE DEF WorkerRaises
<1>1. work[w].chunk \in Chunks /\ work[w].chunk \in left /\ Busy(w) /\ c \in Members(work[w].chunk)
  BY BusyType DEF Serving, BatchTyped, BatchInv, ChunksInHand
<1>2. \A d \in Communities : value'[d] \in {"none", made[d]}
  BY DEF BatchTyped, BatchInv, RowsInPlace
<1>3. /\ work' \in [Workers -> Task] /\ left' \subseteq Chunks
      /\ ~Busy(w)' /\ \A v \in Workers \ {w} : work'[v] = work[v]
      /\ ChunksInHand' /\ RowsInPlace' /\ Stages'
  BY <1>1, <1>2, EndChunkStep
<1>4. calls \in [Communities -> Nat] BY DEF BatchTyped, TypeOK
<1>5. /\ calls' \in [Communities -> Nat] /\ calls'[c] = calls[c] + 1
      /\ \A d \in Communities \ {c} : calls'[d] = calls[d]
  BY <1>4
<1>6. calls[c] \in Nat /\ calls'[c] <= MaxGenerate * MaxRetries BY <1>5, OneCallMore
<1>7. CallsBounded'
  BY <1>5, <1>6 DEF BatchTyped, BatchInv, CallsSpent, CallsBounded
<1>8. PlaceholderEarned'
  <2>1. made[c] = "placeholder" => calls'[c] >= MaxGenerate
    <3>1. made[c] = "placeholder" => calls[c] >= MaxGenerate
      BY DEF BatchTyped, BatchInv, CallsSpent, PlaceholderEarned
    <3> QED BY <3>1, <1>5, <1>6, RetriesType
  <2> QED BY <2>1, <1>5 DEF BatchTyped, BatchInv, CallsSpent, PlaceholderEarned
<1>9. ASSUME NEW i \in Chunks, i # work[w].chunk, NEW d \in Members(i) PROVE calls'[d] = calls[d]
  <2>1. d # c BY <1>1, <1>9, ChunksDisjoint
  <2> QED BY <2>1, <1>5 DEF Members
<1>10. ASSUME NEW v \in Workers \ {w}, Busy(v), NEW d \in Members(work[v].chunk)
       PROVE  calls'[d] = calls[d]
  <2>1. work[v].chunk \in Chunks /\ work[v].chunk # work[w].chunk
    BY <1>10, BusyType DEF BatchTyped, BatchInv, ChunksInHand
  <2> QED BY <2>1, <1>9, <1>10
<1>11. ASSUME NEW i \in Chunks, next <= i, NEW d \in Members(i) PROVE calls'[d] = calls[d]
  <2>1. work[w].chunk < next BY <1>1 DEF BatchTyped, BatchInv, ChunksInHand
  <2>2. work[w].chunk \in Nat /\ next \in Nat /\ i \in Nat
    BY <1>1, ChunkType DEF BatchTyped, TypeOK
  <2>3. i # work[w].chunk BY <2>1, <2>2, <1>11
  <2> QED BY <2>3, <1>9, <1>11
<1>12. CallsSpent' BY <1>3, <1>7, <1>8, <1>10, <1>11, EndCalls
<1>13. TypeOK' BY <1>3, <1>5 DEF BatchTyped, TypeOK
<1> QED BY <1>3, <1>12, <1>13 DEF BatchTyped, BatchInv

\* The main process and the embedding threads leave the pool as it is.
LEMMA PoolIdle ==
    ASSUME BatchTyped, UNCHANGED pool
    PROVE  ChunksInHand' /\ RowsInPlace' /\ CallsSpent'
<1> USE DEF pool
<1>1. \A w \in Workers : Busy(w)' <=> Busy(w) BY DEF Busy
<1>2. \A w \in Workers, c \in Communities : Serving(w, c)' <=> Serving(w, c)
  BY <1>1 DEF Serving
<1>3. ChunksInHand' BY <1>1 DEF BatchTyped, BatchInv, ChunksInHand
<1>4. RowsInPlace' BY <1>1 DEF BatchTyped, BatchInv, RowsInPlace
<1>5. CallsSpent'
  BY <1>1, <1>2
  DEF BatchTyped, BatchInv, CallsSpent, CallsBounded, PlaceholderEarned
<1> QED BY <1>3, <1>4, <1>5

\* What starmap returns: a row that was made for its community.
LEMMA AllCollected ==
    ASSUME BatchTyped, left = {}, success, NEW c \in Communities
    PROVE  value[c] = made[c] /\ value[c] # "none"
<1>1. PICK i \in Chunks : c \in Members(i) BY ChunksCover
<1> QED BY <1>1 DEF BatchTyped, BatchInv, RowsInPlace

\* The main process keeps the invariant.
LEMMA MainStep ==
    ASSUME BatchTyped, Main
    PROVE  BatchTyped'
<1> USE DEF BatchTyped, BatchInv
<1>1. CASE StarmapRaises
  <2>1. TypeOK' BY <1>1 DEF StarmapRaises, pool, TypeOK
  <2>2. Stages' BY <1>1 DEF StarmapRaises, pool, Stages, Embedding
  <2> QED BY <2>1, <2>2, <1>1, PoolIdle DEF StarmapRaises
<1>2. CASE StarmapReturns
  <2>1. TypeOK' BY <1>2 DEF StarmapReturns, pool, TypeOK
  <2>2. Stages' BY <1>2 DEF StarmapReturns, pool, Stages, Embedding
  <2> QED BY <2>1, <2>2, <1>2, PoolIdle DEF StarmapReturns
<1>3. CASE EmbeddingContext
  <2>1. TypeOK' BY <1>3 DEF EmbeddingContext, pool, TypeOK
  <2>2. Stages' BY <1>3 DEF EmbeddingContext, pool, Stages, Embedding
  <2> QED BY <2>1, <2>2, <1>3, PoolIdle DEF EmbeddingContext
<1>7. CASE LocalEmbedding
  <2>1. TypeOK' BY <1>7 DEF LocalEmbedding, pool, TypeOK
  <2>2. Stages' BY <1>7 DEF LocalEmbedding, pool, Stages, Embedding
  <2> QED BY <2>1, <2>2, <1>7, PoolIdle DEF LocalEmbedding
<1>4. CASE EmbeddingRaises
  <2>1. TypeOK' BY <1>4 DEF EmbeddingRaises, pool, TypeOK
  <2>2. Stages' BY <1>4 DEF EmbeddingRaises, pool, Stages
  <2> QED BY <2>1, <2>2, <1>4, PoolIdle DEF EmbeddingRaises
<1>5. CASE Drained
  <2>1. TypeOK' BY <1>5 DEF Drained, pool, TypeOK
  <2>2. Stages' BY <1>5 DEF Drained, pool, Stages, Embedding
  <2> QED BY <2>1, <2>2, <1>5, PoolIdle DEF Drained
<1>6. CASE Validate
  <2>1. TypeOK' BY <1>6 DEF Validate, pool, TypeOK
  <2>2. Stages'
    <3>1. \A c \in Communities : emb[c] \in {"ok", "wrong"} BY <1>6 DEF Validate, Computed
    <3> QED BY <3>1, <1>6 DEF Validate, pool, Stages, Embedding
  <2> QED BY <2>1, <2>2, <1>6, PoolIdle DEF Validate
<1> QED BY <1>1, <1>2, <1>3, <1>4, <1>5, <1>6, <1>7 DEF Main

\* So do the embedding threads.
LEMMA EmbedThreadsStep ==
    ASSUME BatchTyped, EmbedThreads
    PROVE  BatchTyped'
<1> USE DEF BatchTyped, BatchInv
<1>1. PICK c \in Communities : StartEmbedding(c) \/ EndEmbedding(c) BY DEF EmbedThreads
<1>2. CASE StartEmbedding(c)
  <2>1. TypeOK' BY <1>2 DEF StartEmbedding, pool, TypeOK
  <2>2. Stages' BY <1>2 DEF StartEmbedding, pool, Stages
  <2> QED BY <2>1, <2>2, <1>2, PoolIdle DEF StartEmbedding
<1>3. CASE EndEmbedding(c)
  <2>1. TypeOK' BY <1>3 DEF EndEmbedding, pool, TypeOK
  <2>2. Stages'
    <3>1. c \in Embedding BY <1>3 DEF EndEmbedding, Embedding
    <3>2. pc \in {"embed", "drain"} BY <3>1 DEF Stages, TypeOK
    <3> QED BY <3>2, <1>3 DEF EndEmbedding, pool, Stages
  <2> QED BY <2>1, <2>2, <1>3, PoolIdle DEF EndEmbedding
<1> QED BY <1>1, <1>2, <1>3

\* Every step keeps the invariant.
LEMMA BatchNext == BatchTyped /\ [Next]_vars => BatchTyped'
<1> SUFFICES ASSUME BatchTyped, [Next]_vars PROVE BatchTyped' OBVIOUS
<1>1. ASSUME NEW w \in Workers, Worker(w) PROVE BatchTyped'
  <2>1. CASE TakeChunk(w) BY <2>1, TakeChunkStep
  <2>2. CASE ChunkEnds(w) BY <2>2, ChunkEndsStep
  <2>3. ASSUME NEW c \in Communities,
               Extract(w, c) \/ Answer(w, c) \/ InvalidAnswer(w, c) \/ CallFails(w, c)
                 \/ WorkerRaises(w, c)
        PROVE  BatchTyped'
    BY <2>3, ExtractStep, AnswerStep, InvalidAnswerStep, CallFailsStep, WorkerRaisesStep
  <2> QED BY <2>1, <2>2, <2>3, <1>1 DEF Worker
<1>2. CASE Main BY <1>2, MainStep
<1>3. CASE EmbedThreads BY <1>3, EmbedThreadsStep
<1>4. CASE UNCHANGED vars
  <2>1. UNCHANGED pool /\ UNCHANGED <<pc, emb, local>> BY <1>4 DEF vars
  <2>2. TypeOK' BY <2>1 DEF pool, TypeOK, BatchTyped
  <2>3. Stages' BY <2>1 DEF pool, Stages, Embedding, BatchTyped, BatchInv
  <2> QED BY <2>1, <2>2, <2>3, PoolIdle DEF BatchTyped, BatchInv
<1> QED BY <1>1, <1>2, <1>3, <1>4 DEF Next, Done

\* The invariant holds of every batch.
THEOREM BatchInvariant == Spec => []BatchTyped
<1> QED BY BatchInit, BatchNext, PTL DEF Spec

\* Every variable of a batch keeps its type.
THEOREM BatchTypeCorrect == Spec => []TypeOK
<1> QED BY BatchInvariant, PTL DEF BatchTyped

\* A batch that returns has one row per community, at its place, embedded.
THEOREM RowsCompleteInOrder == Spec => []CompleteInOrder
<1>1. BatchTyped => CompleteInOrder
  <2> SUFFICES ASSUME BatchTyped PROVE CompleteInOrder OBVIOUS
  <2>1. ASSUME pc \in {"context", "returned"}, NEW c \in Communities
        PROVE  value[c] = made[c] /\ value[c] # "none"
    <3>1. left = {} /\ success BY <2>1 DEF BatchTyped, BatchInv, Stages
    <3> QED BY <3>1, AllCollected
  <2>2. pc = "returned" => \A c \in Communities : value[c] # "odd" /\ emb[c] = "ok"
    BY DEF BatchTyped, BatchInv, Stages
  <2> QED BY <2>1, <2>2 DEF CompleteInOrder
<1> QED BY <1>1, BatchInvariant, PTL

\* Retries of answers and of calls stay within MaxGenerate times MaxRetries.
THEOREM CallsStayBounded == Spec => []CallsBounded
<1>1. BatchTyped => CallsBounded BY DEF BatchTyped, BatchInv, CallsSpent
<1> QED BY <1>1, BatchInvariant, PTL

\* A placeholder has cost MaxGenerate answers.
THEOREM PlaceholdersEarned == Spec => []PlaceholderEarned
<1>1. BatchTyped => PlaceholderEarned BY DEF BatchTyped, BatchInv, CallsSpent
<1> QED BY <1>1, BatchInvariant, PTL

\* When starmap is over no worker runs, and when the batch is over no thread does.
THEOREM NothingLeftRunning == Spec => []NothingRunsOn
<1>1. BatchTyped => NothingRunsOn
  <2> SUFFICES ASSUME BatchTyped PROVE NothingRunsOn OBVIOUS
  <2>1. pc # "starmap" => next \notin Chunks /\ \A w \in Workers : ~Busy(w)
    <3>1. Workers # {} BY WorkersAssumption
    <3> QED BY <3>1, WorkersDuringStarmap
  <2>2. pc \in {"returned", "raised"} => Embedding = {}
    BY DEF BatchTyped, BatchInv, Stages
  <2> QED BY <2>1, <2>2 DEF NothingRunsOn
<1> QED BY <1>1, BatchInvariant, PTL

--------------------------------------------------------------------------------
(***************************************************************************)
(* The batch implements LevelReports.                                      *)
(***************************************************************************)
\* The rows a batch returns are rows of their communities.
LEMMA RowsAreFrames ==
    ASSUME BatchTyped, pc = "returned"
    PROVE  value \in LR!Frames
<1>1. ASSUME NEW c \in Communities PROVE value[c] \in LR!RowOf(c)
  <2>1. left = {} /\ success /\ value[c] # "odd"
    BY DEF BatchTyped, BatchInv, Stages
  <2>2. value[c] = made[c] /\ value[c] # "none" BY <2>1, AllCollected
  <2> QED BY <2>1, <2>2 DEF BatchTyped, BatchInv, RowsInPlace
<1>2. \A c \in Communities : LR!RowOf(c) \subseteq {"extract", "report", "placeholder"}
  BY DEF LR!RowOf
<1>3. value \in [Communities -> Rows] BY DEF BatchTyped, TypeOK
<1>4. value \in [1 .. N -> {"extract", "report", "placeholder"}]
  BY <1>1, <1>2, <1>3 DEF Communities
<1> QED BY <1>1, <1>4 DEF LR!Frames, Communities

\* A batch that is over stays as it is.
LEMMA OverIsOver ==
    ASSUME BatchTyped, [Next]_vars, pc \in {"returned", "raised"}
    PROVE  pc' = pc /\ value' = value
<1>1. \A w \in Workers : ~Busy(w) /\ next \notin Chunks BY WorkersDuringStarmap
<1>2. \A w \in Workers : ~Worker(w)
  BY <1>1
  DEF Worker, TakeChunk, ChunkEnds, Extract, Answer, InvalidAnswer, CallFails, WorkerRaises,
      Serving
<1>3. ~Main
  BY DEF Main, StarmapRaises, StarmapReturns, EmbeddingContext, LocalEmbedding, EmbeddingRaises,
         Drained, Validate
<1>4. EmbedThreads => pc' = pc /\ value' = value
  BY DEF EmbedThreads, StartEmbedding, EndEmbedding, pool
<1> QED BY <1>2, <1>3, <1>4 DEF Next, Done, vars, pool

\* A step that does not end the batch is one that LevelReports does not see; one that ends
\* it returns or raises.
THEOREM AllRowsOrNone == Spec => AllOrNothing
<1>1. Init => LR!Init BY DEF Init, LR!Init
<1>2. BatchTyped /\ BatchTyped' /\ [Next]_vars
        => [LR!Next]_<<IF pc \in {"returned", "raised"} THEN pc ELSE "pending",
                       IF pc = "returned" THEN value ELSE <<>> >>
  <2> SUFFICES ASSUME BatchTyped, BatchTyped', [Next]_vars
               PROVE  [LR!Next]_<<IF pc \in {"returned", "raised"} THEN pc ELSE "pending",
                                  IF pc = "returned" THEN value ELSE <<>> >>
    OBVIOUS
  <2>1. CASE pc \in {"returned", "raised"} BY <2>1, OverIsOver
  <2>2. CASE pc \notin {"returned", "raised"} /\ pc' = "returned"
    <3>1. value' \in LR!Frames
      <4>1. (pc = "returned")' => (value \in LR!Frames)' BY RowsAreFrames, PTL
      <4> QED BY <4>1, <2>2
    <3> QED BY <3>1, <2>2 DEF LR!Next, LR!Return
  <2>3. CASE pc \notin {"returned", "raised"} /\ pc' = "raised"
    BY <2>3 DEF LR!Next, LR!Raise
  <2>4. CASE pc \notin {"returned", "raised"} /\ pc' \notin {"returned", "raised"}
    BY <2>4
  <2> QED BY <2>1, <2>2, <2>3, <2>4
<1> QED BY <1>1, <1>2, BatchInvariant, PTL DEF Spec, AllOrNothing, LR!Spec
================================================================================
