---------------------------- MODULE AnswerQueryProofs --------------------------
(***************************************************************************)
(* What holds of AnswerQuery for any index, any questions and options, and *)
(* any sizes of rows and prompts.                                          *)
(***************************************************************************)
EXTENDS AnswerQuery, SumProofs, TLAPS

Packing == {"relations", "communities", "chunks"}

--------------------------------------------------------------------------------
(***************************************************************************)
(* What is retrieved, and the rows that are packed.                        *)
(***************************************************************************)
\* What a question retrieves is from the index.
FromIndex ==
    /\ q \in Queries
    /\ \A r \in results : r[2] \in Ids
    /\ onPaths \subseteq Relations
    /\ predictions \subseteq Ids
    /\ retrieved.relations \subseteq Relations
    /\ retrieved.communities \subseteq Ids

\* The rows of a table have sizes, no more are packed than there are, and those in hand
\* were packed.
RowsTyped ==
    phase \in Packing =>
        /\ rows \in Seq(Nat) /\ at \in 0 .. Len(rows) /\ start \in Nat
        /\ current \subseteq 1 .. at

\* Nothing of the retrieval is about packing.
LEMMA RetrievalElsewhere ==
    ASSUME RetrievalNext PROVE phase' \notin Packing
<1>1. CASE EmbeddingRaises \/ ReasoningRaises \/ SharesRaise \/ SearchRaises
  BY <1>1 DEF EmbeddingRaises, ReasoningRaises, SharesRaise, SearchRaises, Raise, Packing
<1>2. CASE FixedShares
  BY <1>2 DEF FixedShares, Packing
<1>3. CASE PriorWeights
  BY <1>3 DEF PriorWeights, Packing
<1>4. CASE StartReasoning
  BY <1>4 DEF StartReasoning, Packing
<1>5. CASE AskLevels
  BY <1>5 DEF AskLevels, Packing
<1>6. CASE Weigh
  BY <1>6 DEF Weigh, Packing
<1>7. CASE RoundShares
  BY <1>7 DEF RoundShares, Packing
<1>8. CASE Adjust
  BY <1>8 DEF Adjust, Packing
<1>9. CASE Adjusted
  BY <1>9 DEF Adjusted, Packing
<1>10. CASE SearchLevel
  BY <1>10 DEF SearchLevel, Packing
<1>11. CASE Paths
  BY <1>11 DEF Paths, Packing
<1>12. CASE Select
  BY <1>12 DEF Select, Packing
<1>13. CASE Refine
  BY <1>13 DEF Refine, Packing
<1>14. CASE Collect
  BY <1>14 DEF Collect, Packing
<1> QED
  BY <1>1, <1>2, <1>3, <1>4, <1>5, <1>6, <1>7, <1>8, <1>9, <1>10, <1>11, <1>12, <1>13, <1>14
     DEF RetrievalNext

\* Nor is what comes after it.
LEMMA LaterElsewhere ==
    ASSUME ChunksPacked \/ TakeFirst \/ CallRaises \/ MapCall \/ Reduce \/ ReduceRaises \/ Answer \/ Caught
    PROVE  phase' \notin Packing
<1>1. CASE ChunksPacked
  BY <1>1 DEF ChunksPacked, Begin, Packing
<1>2. CASE TakeFirst
  BY <1>2 DEF TakeFirst, Packing
<1>3. CASE CallRaises \/ ReduceRaises
  BY <1>3 DEF CallRaises, ReduceRaises, Raise, Packing
<1>4. CASE MapCall
  BY <1>4 DEF MapCall, Packing
<1>5. CASE Reduce
  BY <1>5 DEF Reduce, Packing
<1>6. CASE Answer
  BY <1>6 DEF Answer, Packing
<1>7. CASE Caught
  BY <1>7 DEF Caught, Packing
<1> QED
  BY <1>1, <1>2, <1>3, <1>4, <1>5, <1>6, <1>7

LEMMA SizeIsSum == \A some : SizeOf(some) = SumOn(rows, some)
  BY DEF SizeOf, SumOn

\* ... in the next state too.
LEMMA SizeIsSumNext == (\A some : SizeOf(some) = SumOn(rows, some))'
  BY SizeIsSum, PTL

\* More rows are not shorter.
LEMMA SizeGrows ==
    ASSUME rows \in Seq(Nat), NEW T \in SUBSET (1 .. Len(rows)), NEW S \in SUBSET T
    PROVE  SizeOf(S) \in Nat /\ SizeOf(T) \in Nat /\ SizeOf(S) <= SizeOf(T)
<1>1. IsFiniteSet(1 .. Len(rows)) /\ \A i \in 1 .. Len(rows) : rows[i] \in Nat
  <2>1. Len(rows) \in Int /\ \A i \in 1 .. Len(rows) : rows[i] \in Nat
    OBVIOUS
  <2>2. 1 \in Int
    OBVIOUS
  <2> DEFINE n == Len(rows)
  <2> HIDE DEF n
  <2>3. IsFiniteSet(1 .. n)
    BY <2>1, <2>2, FS_Interval DEF n
  <2> QED
    BY <2>1, <2>3 DEF n
<1>2. IsFiniteSet(T) /\ IsFiniteSet(S) /\ IsFiniteSet(T \ S) /\ S \cap (T \ S) = {} /\ S \cup (T \ S) = T
  BY <1>1, FS_Subset
<1>3. \A i \in T : rows[i] \in Nat
  BY <1>1
<1>4. SumOn(rows, S) \in Nat /\ SumOn(rows, T) \in Nat /\ SumOn(rows, T \ S) \in Nat
  BY <1>2, <1>3, SumIsNat
<1>5. SumOn(rows, S \cup (T \ S)) = SumOn(rows, S) + SumOn(rows, T \ S)
  <2>1. \A i \in S \cup (T \ S) : rows[i] \in Int
    BY <1>3
  <2> QED
    BY <1>2, <2>1, SumOfBoth
<1> DEFINE s == SumOn(rows, S)
           t == SumOn(rows, T)
           d == SumOn(rows, T \ S)
<1>6. s \in Nat /\ t \in Nat /\ d \in Nat /\ t = s + d
  BY <1>2, <1>4, <1>5
<1>7. SizeOf(S) = s /\ SizeOf(T) = t
  BY SizeIsSum
<1> HIDE DEF s, t, d
<1> QED
  BY <1>6, <1>7

LEMMA NoRowsNoSize == SizeOf({}) = 0
  BY SizeIsSum, SumOfNothing

\* The rows of a set of ids are numbers.
LEMMA SizesAreRows ==
    ASSUME NEW ids, ids \subseteq Ids \/ ids \subseteq Relations, NEW s \in Sizes(ids)
    PROVE  s \in Seq(Nat)
<1>1. IsFiniteSet(ids)
  BY IndexAssumption, FS_Subset
<1>2. Cardinality(ids) \in Nat
  BY <1>1, FS_CardinalityType
<1>3. \A v \in ids : RowSize[v] \in Nat
  BY PromptAssumption
<1>4. s \in [1 .. Cardinality(ids) -> Nat]
  <2>1. s \in [1 .. Cardinality(ids) -> {RowSize[v] : v \in ids}]
    BY DEF Sizes
  <2>2. {RowSize[v] : v \in ids} \subseteq Nat
    BY <1>3
  <2> QED
    BY <2>1, <2>2
<1> QED
  BY <1>2, <1>4

\* The text chunks of a question are a part of the corpus.
LEMMA ChunksAreRows ==
    ASSUME q \in Queries PROVE SubSeq(ChunkSize, 1, SmallerOf(q.topkChunk, Len(ChunkSize))) \in Seq(Nat)
<1>1. q.topkChunk \in Nat /\ ChunkSize \in Seq(Nat)
  BY ParasAssumption, PromptAssumption DEF QueryParas
<1>2. SmallerOf(q.topkChunk, Len(ChunkSize)) \in 0 .. Len(ChunkSize)
  <2>1. Len(ChunkSize) \in Nat
    BY <1>1
  <2> QED
    BY <1>1, <2>1 DEF SmallerOf
<1> DEFINE n == SmallerOf(q.topkChunk, Len(ChunkSize))
<1> HIDE DEF n
<1> QED
  BY <1>1, <1>2 DEF n

\* The query stays what it is while it is retrieved.
LEMMA RetrievalStays == ASSUME RetrievalNext PROVE UNCHANGED q
  BY DEF RetrievalNext, EmbeddingRaises, FixedShares, PriorWeights, StartReasoning, AskLevels, Weigh,
         ReasoningRaises, RoundShares, SharesRaise, Adjust, Adjusted, SearchLevel, SearchRaises,
         Paths, Select, Refine, Collect

LEMMA NearestAreThere == ASSUME NEW from, NEW n, NEW s \in Nearest(from, n) PROVE s \subseteq from
  BY DEF Nearest

LEMMA RetrievalFromIndex == ASSUME FromIndex, RetrievalNext PROVE FromIndex'
<1>0. UNCHANGED q
  BY RetrievalStays
<1>1. CASE UNCHANGED <<results, onPaths, predictions, retrieved>>
  BY <1>0, <1>1 DEF FromIndex
<1>2. CASE SearchLevel
  BY <1>0, <1>2 DEF SearchLevel, FromIndex
<1>3. CASE Paths
  <2>1. PICK paths \in IF q.hypernode THEN SUBSET Relations ELSE {{}} :
          LET onThem == {Source[r] : r \in paths} \cup {Target[r] : r \in paths} IN
          \E d \in [onThem -> 0 .. Farthest] :
             /\ results' = results \cup {<<d[v], v, "path">> : v \in onThem}
             /\ onPaths' = paths
    BY <1>3 DEF Paths
  <2>2. paths \subseteq Relations
    BY <2>1
  <2>3. \A r \in paths : Source[r] \in Ids /\ Target[r] \in Ids
    BY <2>2, IndexAssumption DEF Entities
  <2>4. \A r \in results' : r[2] \in Ids
    BY <2>1, <2>3 DEF FromIndex
  <2> QED
    BY <1>0, <1>3, <2>1, <2>2, <2>4 DEF Paths, FromIndex
<1>4. CASE Select
  <2>1. PICK s \in IF q.direct THEN Nearest(results, finalK') ELSE {results} : predictions' = IdsOf(s)
    BY <1>4 DEF Select
  <2>2. s \subseteq results
    BY <2>1, NearestAreThere
  <2> QED
    BY <1>0, <1>4, <2>1, <2>2 DEF Select, IdsOf, FromIndex
<1>5. CASE Refine
  <2>1. UNCHANGED <<onPaths, retrieved>>
    BY <1>5 DEF Refine
  <2>2. CASE UNCHANGED <<results, predictions>>
    BY <1>0, <2>1, <2>2 DEF FromIndex
  <2>3. CASE Replace
    BY <1>0, <2>1, <2>3 DEF Replace, Entities, FromIndex
  <2>4. CASE Merge
    <3>1. \A r \in results' : r[2] \in Ids
      BY <2>4 DEF Merge, Entities, FromIndex
    <3>2. PICK s \in Nearest(results', finalK) : predictions' = IdsOf(s)
      BY <2>4 DEF Merge
    <3>3. s \subseteq results'
      BY <3>2, NearestAreThere
    <3>4. predictions' \subseteq Ids
      BY <3>1, <3>2, <3>3 DEF IdsOf
    <3> QED
      BY <1>0, <2>1, <3>1, <3>4 DEF FromIndex
  <2> QED
    BY <1>5, <2>2, <2>3, <2>4 DEF Refine
<1>6. CASE Collect
  <2>1. PICK rel \in SUBSET {r \in Relations : Source[r] \in predictions} :
          retrieved' = [entities |-> predictions \cap Entities,
                        communities |-> predictions \ Entities,
                        relations |-> rel \cup onPaths]
    BY <1>6 DEF Collect
  <2>2. results' = {} /\ onPaths' = {} /\ predictions' = {}
    BY <1>6 DEF Collect
  <2> QED
    BY <1>0, <2>1, <2>2 DEF FromIndex
<1> QED
  BY <1>1, <1>2, <1>3, <1>4, <1>5, <1>6
     DEF RetrievalNext, EmbeddingRaises, FixedShares, PriorWeights, StartReasoning, AskLevels, Weigh,
         ReasoningRaises, RoundShares, SharesRaise, Adjust, Adjusted, SearchRaises, locals

LEMMA InferenceFromIndex == ASSUME FromIndex, Inference PROVE FromIndex'
<1>1. UNCHANGED <<q, results, onPaths, predictions, retrieved>>
  BY DEF Inference, AskFirst, PackRelation, RelationsPacked, PackCommunity, CommunitiesPacked,
         PackChunk, ChunksPacked, TakeFirst, CallRaises, MapCall, Reduce, ReduceRaises, Answer,
         Caught, locals
<1> QED
  BY <1>1 DEF FromIndex

\* A table is begun.
LEMMA BegunTyped ==
    ASSUME NEW what, Begin(what), rows' \in Seq(Nat) PROVE RowsTyped'
<1>1. Len(rows') \in Nat
  OBVIOUS
<1> QED
  BY <1>1 DEF Begin, RowsTyped

LEMMA RowsElsewhere == ASSUME phase' \notin Packing PROVE RowsTyped'
  BY DEF RowsTyped

LEMMA InferenceTyped == ASSUME FromIndex, RowsTyped, Inference PROVE RowsTyped'
<1>1. CASE AskFirst
  BY <1>1, SizesAreRows, BegunTyped DEF AskFirst, FromIndex
<1>2. CASE PackRelation
  BY <1>2 DEF PackRelation, RowsTyped, Packing
<1>3. CASE RelationsPacked
  BY <1>3, SizesAreRows, BegunTyped DEF RelationsPacked, FromIndex
<1>4. CASE PackCommunity
  <2>1. at' = at + 1 /\ current' \subseteq current \cup {at + 1} /\ start' = start /\ rows' = rows
        /\ phase' = phase /\ phase \in Packing /\ at < Len(rows)
    BY <1>4 DEF PackCommunity, Packing
  <2> QED
    BY <2>1 DEF RowsTyped
<1>5. CASE CommunitiesPacked
  <2>1. CASE q.direct
    BY <1>5, <2>1, RowsElsewhere DEF CommunitiesPacked, Begin, Packing
  <2>2. CASE ~q.direct
    BY <1>5, <2>2, ChunksAreRows, BegunTyped DEF CommunitiesPacked, FromIndex
  <2> QED
    BY <2>1, <2>2
<1>6. CASE PackChunk
  <2>1. /\ start' = start /\ rows' = rows /\ phase' = phase /\ phase \in Packing /\ at < Len(rows)
        /\ \/ at' = at + 1 /\ current' = current \cup {at + 1}
           \/ at' \in {at, at + 1} /\ current' = {}
    BY <1>6 DEF PackChunk, Packing
  <2>2. rows \in Seq(Nat) /\ at \in Nat /\ at <= Len(rows) /\ start \in Nat /\ current \subseteq 1 .. at
    BY <2>1 DEF RowsTyped
  <2>3. Len(rows) \in Nat
    BY <2>2
  <2>4. at' \in 0 .. Len(rows')
    BY <2>1, <2>2, <2>3
  <2>5. current' \subseteq 1 .. at'
    <3>1. 1 .. at \subseteq 1 .. (at + 1) /\ at + 1 \in 1 .. (at + 1)
      BY <2>2
    <3>2. CASE at' = at + 1 /\ current' = current \cup {at + 1}
      BY <2>2, <3>1, <3>2
    <3> QED
      BY <2>1, <3>2
  <2> QED
    BY <2>1, <2>2, <2>4, <2>5 DEF RowsTyped
<1>7. CASE ChunksPacked \/ TakeFirst \/ CallRaises \/ MapCall \/ Reduce \/ ReduceRaises \/ Answer \/ Caught
  BY <1>7, LaterElsewhere, RowsElsewhere
<1> QED
  BY <1>1, <1>2, <1>3, <1>4, <1>5, <1>6, <1>7 DEF Inference

\* What is packed comes from the index and the corpus.
THEOREM RowsInvariant == Spec => [](FromIndex /\ RowsTyped)
<1>1. ASSUME Init PROVE FromIndex /\ RowsTyped
  <2>1. /\ phase = "strategy" /\ results = {} /\ onPaths = {} /\ predictions = {} /\ q \in Queries
        /\ retrieved = [entities |-> {}, communities |-> {}, relations |-> {}]
    BY <1>1 DEF Init, RetrievalInit, Fresh, Nothing
  <2> QED
    BY <2>1 DEF FromIndex, RowsTyped, Packing
<1>2. ASSUME FromIndex, RowsTyped, [Next]_vars PROVE FromIndex' /\ RowsTyped'
  <2>1. CASE UNCHANGED vars
    <3>1. UNCHANGED <<phase, q, results, onPaths, predictions, retrieved, rows, at, start, current>>
      BY <2>1 DEF vars, retrieval, locals, packing
    <3> QED
      BY <1>2, <3>1 DEF FromIndex, RowsTyped
  <2>2. CASE Retrieve
    BY <1>2, <2>2, RetrievalFromIndex, RetrievalElsewhere, RowsElsewhere DEF Retrieve
  <2>3. CASE Inference
    BY <1>2, <2>3, InferenceFromIndex, InferenceTyped
  <2> QED
    BY <1>2, <2>1, <2>2, <2>3 DEF Next
<1> QED
  BY <1>1, <1>2, PTL DEF Spec

\* What is in hand has a size.
LEMMA HandSize ==
    ASSUME FromIndex, RowsTyped, phase \in Packing
    PROVE  /\ SizeOf(current) \in Nat /\ MaxTokens \in Nat /\ Heading \in Nat
           /\ Heading + SizeOf(current) \in Int /\ q.room \in Int
<1>1. rows \in Seq(Nat) /\ current \in SUBSET (1 .. Len(rows))
  BY DEF RowsTyped
<1>2. SizeOf(current) \in Nat
  BY <1>1, SizeGrows
<1>3. q.room \in Int
  BY ParasAssumption DEF FromIndex, QueryParas
<1> QED
  BY <1>2, <1>3, PromptAssumption

--------------------------------------------------------------------------------
(***************************************************************************)
(* Rows in prompts.                                                        *)
(***************************************************************************)
Prompt == {"llm", "relations", "communities", "chunks"} \X (SUBSET Nat) \X Int

\* what prompts there are once a table is packed
KindsAt(p) ==
    CASE p = "relations" -> {"llm", "relations"}
      [] p = "communities" -> {"llm", "relations", "communities"}
      [] OTHER -> {"llm", "relations", "communities", "chunks"}

\* The prompts are prompts, of tables that were packed, and the one being packed has
\* rows that were looked at.
PackTyped ==
    phase \in Packing =>
        /\ prompts \in Seq(Prompt)
        /\ \A n \in DOMAIN prompts : prompts[n][1] \in KindsAt(phase)
        /\ at \in Nat /\ start \in Nat
        /\ current \in SUBSET Nat

\* A row of communities or chunks is sent or in hand, never both, and never before
\* its turn.
RowsInTurn ==
    phase \in {"communities", "chunks"} =>
        /\ current \subseteq 1 .. at
        /\ \A n \in DOMAIN prompts : prompts[n][1] = phase => prompts[n][2] \subseteq 1 .. at

PackInv == PackTyped /\ RowsInTurn /\ PromptsCarryAll

--------------------------------------------------------------------------------
HeldIn(ps, what, row) == {n \in DOMAIN ps : ps[n][1] = what /\ row \in ps[n][2]}

\* of the first a rows of a table those in c are in hand, the others in one prompt each
Carried(ps, what, a, c) ==
    /\ \A n \in DOMAIN ps : ps[n][1] = what => ps[n][2] \subseteq 1 .. a
    /\ \A row \in 1 .. a : IF row \in c THEN HeldIn(ps, what, row) = {}
                           ELSE \E n \in DOMAIN ps : HeldIn(ps, what, row) = {n}

LEMMA OneMorePrompt ==
    ASSUME NEW ps \in Seq(Prompt), NEW p \in Prompt
    PROVE  /\ Append(ps, p) \in Seq(Prompt)
           /\ DOMAIN Append(ps, p) = DOMAIN ps \cup {Len(ps) + 1}
           /\ Len(ps) + 1 \notin DOMAIN ps
           /\ \A n \in DOMAIN ps : Append(ps, p)[n] = ps[n]
           /\ Append(ps, p)[Len(ps) + 1] = p
  OBVIOUS

\* What a prompt is made of.
LEMMA MadePrompt ==
    ASSUME NEW what \in {"llm", "relations", "communities", "chunks"},
           NEW some \in SUBSET Nat, NEW z \in Int
    PROVE  LET made == <<what, some, z>> IN
           made \in Prompt /\ made[1] = what /\ made[2] = some /\ made[3] = z
  BY DEF Prompt

\* A prompt is closed: its rows, which were in hand, are sent.
LEMMA RowsAreSent ==
    ASSUME NEW ps \in Seq(Prompt), NEW what \in {"communities", "chunks"},
           NEW a \in Nat, NEW b \in Nat, NEW c \in SUBSET Nat, NEW s \in SUBSET Nat, NEW d \in SUBSET Nat,
           Carried(ps, what, a, c), c \subseteq 1 .. a, b \in {a, a + 1},
           s \cup d = c \cup ((a + 1) .. b), s \cap d = {}, c \subseteq s \/ s \cap c = {},
           NEW z \in Int
    PROVE  Carried(Append(ps, <<what, s, z>>), what, b, d)
<1> DEFINE p == <<what, s, z>>
           qs == Append(ps, p)
<1>1. p \in Prompt /\ p[1] = what /\ p[2] = s
  BY DEF Prompt
<1>2. /\ DOMAIN qs = DOMAIN ps \cup {Len(ps) + 1}
      /\ \A n \in DOMAIN ps : qs[n] = ps[n]
      /\ qs[Len(ps) + 1] = p
  BY <1>1, OneMorePrompt
<1>d. Len(ps) + 1 \notin DOMAIN ps
  BY <1>1, OneMorePrompt
<1> HIDE DEF qs, p
<1>3. \A row : /\ row \in s => HeldIn(qs, what, row) = HeldIn(ps, what, row) \cup {Len(ps) + 1}
               /\ row \notin s => HeldIn(qs, what, row) = HeldIn(ps, what, row)
  BY <1>1, <1>2, <1>d DEF HeldIn
<1>4. s \subseteq 1 .. b /\ 1 .. a \subseteq 1 .. b
  OBVIOUS
<1>5. ASSUME NEW n \in DOMAIN qs, qs[n][1] = what PROVE qs[n][2] \subseteq 1 .. b
  BY <1>1, <1>2, <1>4, <1>5 DEF Carried
<1>6. ASSUME NEW row \in 1 .. b
      PROVE  IF row \in d THEN HeldIn(qs, what, row) = {}
             ELSE \E n \in DOMAIN qs : HeldIn(qs, what, row) = {n}
  <2>1. row \notin 1 .. a => HeldIn(ps, what, row) = {}
    BY DEF HeldIn, Carried
  <2>2. row \in c => HeldIn(ps, what, row) = {}
    BY DEF Carried
  <2>3. CASE row \in s
    <3>1. row \notin d /\ (row \in c \/ row \notin 1 .. a)
      BY <2>3
    <3>2. HeldIn(qs, what, row) = {Len(ps) + 1}
      BY <2>1, <2>2, <2>3, <3>1, <1>3
    <3> QED
      BY <3>1, <3>2, <1>2
  <2>4. CASE row \notin s
    <3>1. HeldIn(qs, what, row) = HeldIn(ps, what, row)
      BY <2>4, <1>3
    <3>2. CASE row \in d
      <4>1. row \in c \/ row \notin 1 .. a
        BY <3>2
      <4> QED
        BY <3>1, <3>2, <4>1, <2>1, <2>2
    <3>3. CASE row \notin d
      <4>1. row \in 1 .. a /\ row \notin c
        BY <2>4, <3>3
      <4>2. PICK n \in DOMAIN ps : HeldIn(ps, what, row) = {n}
        BY <4>1 DEF Carried
      <4> QED
        BY <3>1, <3>3, <4>2, <1>2
    <3> QED
      BY <3>2, <3>3
  <2> QED
    BY <2>3, <2>4
<1> QED
  BY <1>5, <1>6 DEF Carried, qs, p

--------------------------------------------------------------------------------
LEMMA ElsewhereIsFine == ASSUME phase' \notin Packing PROVE PackInv'
  BY DEF PackInv, PackTyped, RowsInTurn, PromptsCarryAll, Packing

\* A table is begun: no prompt is one of its own yet.
LEMMA BeginIsFine ==
    ASSUME NEW what \in {"communities", "chunks"}, Begin(what), prompts' \in Seq(Prompt),
           \A n \in DOMAIN prompts' : prompts'[n][1] \in KindsAt(what) \ {what}
    PROVE  PackInv'
<1>1. phase' = what /\ at' = 0 /\ start' = 0 /\ current' = {}
  BY DEF Begin
<1>2. PackTyped'
  BY <1>1 DEF PackTyped
<1>3. RowsInTurn' /\ PromptsCarryAll'
  BY <1>1 DEF RowsInTurn, PromptsCarryAll
<1> QED
  BY <1>2, <1>3 DEF PackInv

LEMMA LlmFirstIsPrompts ==
    /\ LlmFirst \in Seq(Prompt)
    /\ \A n \in DOMAIN LlmFirst : LlmFirst[n][1] = "llm"
<1>1. <<"llm", {}, 0>> \in Prompt
  BY DEF Prompt
<1>2. << <<"llm", {}, 0>> >> \in Seq(Prompt) /\ \A n \in DOMAIN << <<"llm", {}, 0>> >> : n = 1
  BY <1>1
<1>3. <<>> \in Seq(Prompt) /\ DOMAIN <<>> = {}
  OBVIOUS
<1> QED
  BY <1>2, <1>3 DEF LlmFirst

LEMMA AskFirstIsFine == ASSUME AskFirst PROVE PackInv'
<1>1. phase' = "relations" /\ at' = 0 /\ start' = 0 /\ current' = {} /\ prompts' = LlmFirst
  BY DEF AskFirst, Begin
<1>2. PackTyped'
  BY <1>1, LlmFirstIsPrompts DEF PackTyped, KindsAt
<1> QED
  BY <1>1, <1>2 DEF PackInv, RowsInTurn, PromptsCarryAll

\* The prompts stay prompts when one of the table at hand is added.
LEMMA AppendedKinds ==
    ASSUME NEW ps \in Seq(Prompt), NEW what \in Packing, NEW s \in SUBSET Nat, NEW z \in Int,
           \A n \in DOMAIN ps : ps[n][1] \in KindsAt(what)
    PROVE  LET qs == Append(ps, <<what, s, z>>) IN
           qs \in Seq(Prompt) /\ \A n \in DOMAIN qs : qs[n][1] \in KindsAt(what)
<1>1. <<what, s, z>> \in Prompt /\ <<what, s, z>>[1] = what /\ what \in KindsAt(what)
  BY DEF Prompt, Packing, KindsAt
<1> QED
  BY <1>1, OneMorePrompt

LEMMA PackRelationIsFine ==
    ASSUME FromIndex, RowsTyped, PackInv, PackRelation PROVE PackInv'
<1>0. phase \in Packing
  BY DEF PackRelation, Packing
<1>s. SizeOf(current) \in Int /\ Heading + SizeOf(current) \in Int /\ q.room \in Int
  BY <1>0, HandSize
<1>1. phase = "relations" /\ prompts \in Seq(Prompt) /\ at \in Nat /\ start \in Nat
      /\ current \in SUBSET Nat /\ \A n \in DOMAIN prompts : prompts[n][1] \in KindsAt("relations")
  BY DEF PackInv, PackTyped, Packing, PackRelation
<1>2. phase' = "relations" /\ at' = at + 1 /\ current' = start + 1 .. at
      /\ start' \in {start, at + 1}
      /\ prompts' \in {prompts, Append(prompts, <<"relations", current, SizeOf(current)>>)}
  BY DEF PackRelation, Holding
<1>3. prompts' \in Seq(Prompt) /\ \A n \in DOMAIN prompts' : prompts'[n][1] \in KindsAt("relations")
  <2>1. LET qs == Append(prompts, <<"relations", current, SizeOf(current)>>) IN
        qs \in Seq(Prompt) /\ \A n \in DOMAIN qs : qs[n][1] \in KindsAt("relations")
    BY <1>1, <1>s, AppendedKinds DEF Packing
  <2> QED
    BY <1>1, <1>2, <2>1
<1>4. start' \in Nat /\ at' \in Nat /\ current' \in SUBSET Nat
  BY <1>1, <1>2
<1> QED
  BY <1>2, <1>3, <1>4 DEF PackInv, PackTyped, RowsInTurn, PromptsCarryAll

LEMMA RelationsPackedIsFine ==
    ASSUME FromIndex, RowsTyped, PackInv, RelationsPacked PROVE PackInv'
<1>0. phase \in Packing
  BY DEF RelationsPacked, Packing
<1>s. SizeOf(current) \in Int /\ Heading + SizeOf(current) \in Int /\ q.room \in Int
  BY <1>0, HandSize
<1>1. phase = "relations" /\ prompts \in Seq(Prompt) /\ current \in SUBSET Nat
      /\ \A n \in DOMAIN prompts : prompts[n][1] \in KindsAt("relations")
  BY DEF PackInv, PackTyped, Packing, RelationsPacked
<1>2. prompts' \in {LlmFirst, Append(prompts, <<"relations", current, SizeOf(current)>>)} /\ Begin("communities")
  BY DEF RelationsPacked, Holding
<1>3. LET qs == Append(prompts, <<"relations", current, SizeOf(current)>>) IN
      qs \in Seq(Prompt) /\ \A n \in DOMAIN qs : qs[n][1] \in KindsAt("relations")
  BY <1>1, <1>s, AppendedKinds DEF Packing
<1>4. \A x \in {"llm"} \cup KindsAt("relations") : x \in KindsAt("communities") \ {"communities"}
  BY DEF KindsAt
<1>5. prompts' \in Seq(Prompt)
      /\ \A n \in DOMAIN prompts' : prompts'[n][1] \in KindsAt("communities") \ {"communities"}
  BY <1>2, <1>3, <1>4, LlmFirstIsPrompts
<1> QED
  BY <1>2, <1>5, BeginIsFine

\* What the invariant says of a table of communities or chunks.
LEMMA WhileCarried ==
    ASSUME PackInv, phase \in {"communities", "chunks"}
    PROVE  /\ prompts \in Seq(Prompt)
           /\ \A n \in DOMAIN prompts : prompts[n][1] \in KindsAt(phase)
           /\ at \in Nat /\ start \in Nat /\ current \in SUBSET Nat /\ current \subseteq 1 .. at
           /\ Carried(prompts, phase, at, current)
  BY DEF Carried, PackInv, PackTyped, RowsInTurn, PromptsCarryAll, Packing, HeldIn, HeldBy

\* ... and how it is shown of the state after a step.
LEMMA StillCarried ==
    ASSUME phase' = phase, phase \in {"communities", "chunks"},
           prompts' \in Seq(Prompt), \A n \in DOMAIN prompts' : prompts'[n][1] \in KindsAt(phase),
           at' \in Nat, start' \in Nat, current' \in SUBSET Nat, current' \subseteq 1 .. at',
           Carried(prompts', phase, at', current')
    PROVE  PackInv'
<1>1. PackTyped' /\ RowsInTurn'
  BY DEF PackTyped, RowsInTurn, Carried
<1>2. PromptsCarryAll'
  BY DEF Carried, PromptsCarryAll, HeldIn, HeldBy
<1> QED
  BY <1>1, <1>2 DEF PackInv

\* The row at hand joins those of the prompt being packed.
LEMMA RowJoins ==
    ASSUME PackInv, phase \in {"communities", "chunks"}, phase' = phase, prompts' = prompts,
           start' = start, at' = at + 1, current' = current \cup {at + 1}
    PROVE  PackInv'
<1>1. HeldIn(prompts, phase, at + 1) = {}
  BY WhileCarried DEF HeldIn, Carried
<1>2. at' \in Nat /\ current' \in SUBSET Nat /\ current' \subseteq 1 .. at'
  BY WhileCarried
<1>3. Carried(prompts, phase, at', current')
  <2>1. 1 .. at' = 1 .. at \cup {at + 1}
    BY WhileCarried
  <2> QED
    BY <1>1, <2>1, WhileCarried DEF Carried
<1> QED
  BY <1>2, <1>3, WhileCarried, StillCarried

\* A prompt is closed with the rows s, and d are those of the next one.
LEMMA PromptCloses ==
    ASSUME PackInv, phase \in {"communities", "chunks"}, phase' = phase, start' = start,
           NEW s \in SUBSET Nat, NEW z \in Int, prompts' = Append(prompts, <<phase, s, z>>),
           at' \in {at, at + 1}, current' \in SUBSET Nat,
           s \cup current' = current \cup ((at + 1) .. at'), s \cap current' = {},
           current \subseteq s \/ s \cap current = {}
    PROVE  PackInv'
<1>1. at' \in Nat /\ current' \subseteq 1 .. at'
  BY WhileCarried
<1>2. prompts' \in Seq(Prompt) /\ \A n \in DOMAIN prompts' : prompts'[n][1] \in KindsAt(phase)
  BY WhileCarried, AppendedKinds DEF Packing
<1>3. Carried(prompts', phase, at', current')
  BY <1>1, WhileCarried, RowsAreSent
<1> QED
  BY <1>1, <1>2, <1>3, WhileCarried, StillCarried

LEMMA PackCommunityIsFine ==
    ASSUME FromIndex, RowsTyped, PackInv, PackCommunity PROVE PackInv'
<1>0. phase \in Packing
  BY DEF PackCommunity, Packing
<1>s. SizeOf(current) \in Int /\ Heading + SizeOf(current) \in Int /\ q.room \in Int
  BY <1>0, HandSize
<1>1. phase = "communities" /\ phase' = phase /\ at' = at + 1 /\ start' = start
  BY DEF PackCommunity
<1>2. at \in Nat /\ current \subseteq 1 .. at /\ current \in SUBSET Nat
  BY <1>1, WhileCarried
<1>3. \/ prompts' = Append(prompts, <<phase, current, SizeOf(current)>>) /\ current' = {at + 1}
      \/ prompts' = prompts /\ current' = current \cup {at + 1}
  BY <1>1 DEF PackCommunity, Holding
<1>4. (at + 1) .. at' = {at + 1} /\ {at + 1} \cap current = {} /\ {at + 1} \in SUBSET Nat
  BY <1>1, <1>2
<1>5. CASE prompts' = Append(prompts, <<phase, current, SizeOf(current)>>) /\ current' = {at + 1}
  <2>1. /\ current' \in SUBSET Nat /\ current \cap current' = {} /\ current \subseteq current
        /\ current \cup current' = current \cup ((at + 1) .. at')
    BY <1>4, <1>5
  <2> QED
    BY <1>1, <1>2, <1>5, <1>s, <2>1, PromptCloses
<1>6. CASE prompts' = prompts /\ current' = current \cup {at + 1}
  BY <1>1, <1>6, RowJoins
<1> QED
  BY <1>3, <1>5, <1>6

LEMMA CommunitiesPackedIsFine ==
    ASSUME FromIndex, RowsTyped, PackInv, CommunitiesPacked PROVE PackInv'
<1>0. phase \in Packing
  BY DEF CommunitiesPacked, Packing
<1>s. SizeOf(current) \in Int /\ Heading + SizeOf(current) \in Int /\ q.room \in Int
  BY <1>0, HandSize
<1>1. phase = "communities"
  BY DEF CommunitiesPacked
<1>2. prompts' \in {prompts, Append(prompts, <<"communities", current, SizeOf(current)>>)}
      /\ Begin(IF q.direct THEN "direct" ELSE "chunks")
  BY DEF CommunitiesPacked, Holding
<1>3. LET qs == Append(prompts, <<"communities", current, SizeOf(current)>>) IN
      qs \in Seq(Prompt) /\ \A n \in DOMAIN qs : qs[n][1] \in KindsAt("communities")
  BY <1>1, <1>s, WhileCarried, AppendedKinds DEF Packing
<1>4. \A x \in KindsAt("communities") : x \in KindsAt("chunks") \ {"chunks"}
  BY DEF KindsAt
<1>5. prompts' \in Seq(Prompt)
      /\ \A n \in DOMAIN prompts' : prompts'[n][1] \in KindsAt("chunks") \ {"chunks"}
  BY <1>1, <1>2, <1>3, <1>4, WhileCarried
<1>6. CASE q.direct
  BY <1>2, <1>6, ElsewhereIsFine DEF Begin, Packing
<1>7. CASE ~q.direct
  BY <1>2, <1>5, <1>7, BeginIsFine
<1> QED
  BY <1>6, <1>7

LEMMA PackChunkIsFine ==
    ASSUME FromIndex, RowsTyped, PackInv, PackChunk PROVE PackInv'
<1>0. phase \in Packing
  BY DEF PackChunk, Packing
<1>s. SizeOf(current) \in Int /\ Heading + SizeOf(current) \in Int /\ q.room \in Int
  BY <1>0, HandSize
<1>1. phase = "chunks" /\ phase' = phase /\ start' = start
  BY DEF PackChunk
<1>2. at \in Nat /\ current \subseteq 1 .. at /\ current \in SUBSET Nat
  BY <1>1, WhileCarried
<1>3. \/ prompts' = prompts /\ current' = current \cup {at + 1} /\ at' = at + 1
      \/ /\ prompts' = Append(prompts, <<phase, {at + 1}, q.room>>) /\ current' = {}
         /\ at' = at + 1 /\ current = {}
      \/ /\ prompts' = Append(prompts, <<phase, current, Heading + SizeOf(current)>>)
         /\ current' = {} /\ at' = at
  BY <1>1 DEF PackChunk, Chunks
<1>4. (at + 1) .. (at + 1) = {at + 1} /\ (at + 1) .. at = {}
  BY <1>2
<1>5. CASE prompts' = prompts /\ current' = current \cup {at + 1} /\ at' = at + 1
  BY <1>1, <1>5, RowJoins
<1>6. CASE /\ prompts' = Append(prompts, <<phase, {at + 1}, q.room>>) /\ current' = {}
           /\ at' = at + 1 /\ current = {}
  BY <1>1, <1>2, <1>4, <1>6, <1>s, PromptCloses
<1>7. CASE /\ prompts' = Append(prompts, <<phase, current, Heading + SizeOf(current)>>)
           /\ current' = {} /\ at' = at
  BY <1>1, <1>2, <1>4, <1>7, <1>s, PromptCloses
<1> QED
  BY <1>3, <1>5, <1>6, <1>7

--------------------------------------------------------------------------------
\* The inductive invariant: whatever is packed, its prompts and the row at hand
\* agree.
THEOREM PackingInvariant == Spec => []PackInv
<1>1. Init => PackInv
  BY DEF Init, RetrievalInit, PackInv, PackTyped, RowsInTurn, PromptsCarryAll, Packing
<1>2. ASSUME FromIndex, RowsTyped, PackInv, [Next]_vars PROVE PackInv'
  <2>1. CASE UNCHANGED vars
    BY <1>2, <2>1 DEF vars, retrieval, packing, PackInv, PackTyped, RowsInTurn, PromptsCarryAll, HeldBy
  <2>2. CASE Retrieve
    BY <2>2, RetrievalElsewhere, ElsewhereIsFine DEF Retrieve
  <2>3. CASE AskFirst
    BY <2>3, AskFirstIsFine
  <2>4. CASE PackRelation
    BY <1>2, <2>4, PackRelationIsFine
  <2>5. CASE RelationsPacked
    BY <1>2, <2>5, RelationsPackedIsFine
  <2>6. CASE PackCommunity
    BY <1>2, <2>6, PackCommunityIsFine
  <2>7. CASE CommunitiesPacked
    BY <1>2, <2>7, CommunitiesPackedIsFine
  <2>8. CASE PackChunk
    BY <1>2, <2>8, PackChunkIsFine
  <2>9. CASE ChunksPacked \/ TakeFirst \/ CallRaises \/ MapCall \/ Reduce \/ ReduceRaises \/ Answer \/ Caught
    BY <2>9, LaterElsewhere, ElsewhereIsFine
  <2> QED
    BY <1>2, <2>1, <2>2, <2>3, <2>4, <2>5, <2>6, <2>7, <2>8, <2>9 DEF Next, Inference
<1> QED
  BY <1>1, <1>2, RowsInvariant, PTL DEF Spec

\* Communities and text chunks are packed into prompts without loss and without a
\* repetition, for any sizes of the rows and of the prompts.
THEOREM NothingLostInPacking == Spec => []PromptsCarryAll
<1>1. PackInv => PromptsCarryAll
  BY DEF PackInv
<1> QED
  BY <1>1, PackingInvariant, PTL
--------------------------------------------------------------------------------
(***************************************************************************)
(* Shares of a budget.                                                     *)
(***************************************************************************)
LEMMA TotalIsSum == \A f : Total(f) = SumOn(f, DOMAIN f)
  BY Zenon DEF Total, FoldFunction, FoldFunctionOnSet, SumOn, MapThenSumSet

LEMMA LevelsFinite ==
    /\ TopLevel \in Nat /\ TopLevel > 0 /\ Levels = 0 .. TopLevel
    /\ IsFiniteSet(Levels) /\ Cardinality(Levels) = TopLevel + 1
  BY IndexAssumption, FS_Interval DEF Levels

LEMMA TotalOfLevels ==
    ASSUME NEW f \in [Levels -> Int] PROVE Total(f) = SumOn(f, Levels) /\ Total(f) \in Int
<1>1. DOMAIN f = Levels /\ \A l \in Levels : f[l] \in Int
  OBVIOUS
<1>2. Total(f) = SumOn(f, Levels)
  BY <1>1, TotalIsSum
<1> QED
  BY <1>1, <1>2, LevelsFinite, SumTerm

LEMMA TotalIsNat ==
    ASSUME NEW S, IsFiniteSet(S), NEW f \in [S -> Nat] PROVE Total(f) \in Nat
<1>1. Total(f) = SumOn(f, S)
  BY TotalIsSum
<1> QED
  BY <1>1, SumIsNat

LEMMA Quotient ==
    ASSUME NEW t \in Nat, NEW d \in Nat \ {0}
    PROVE  /\ t \div d \in Nat /\ d * (t \div d) \in Nat
           /\ d * (t \div d) <= t /\ t < d * (t \div d) + d
           /\ t % d = 0 => d * (t \div d) = t
<1>1. t \div d \in Int
  OBVIOUS
<1>2. t = d * (t \div d) + (t % d)
  OBVIOUS
<1>3. t % d \in 0 .. d - 1
  OBVIOUS
<1> DEFINE c == t \div d
           p == d * c
           m == t % d
<1>4. p \in Int /\ m \in Int /\ t = p + m /\ 0 <= m /\ m <= d - 1 /\ c \in Int
  BY <1>1, <1>2, <1>3
<1>5. c < 0 => p <= -d
  <2> HIDE DEF m, p
  <2> SUFFICES ASSUME c < 0 PROVE d * c <= -d
    BY DEF p
  <2> HIDE DEF c
  <2>1. d * (c + 1) <= 0 /\ d * (c + 1) = d * c + d
    BY <1>4
  <2> QED
    BY <1>4, <2>1
<1>6. c >= 0 => p >= 0
  <2> HIDE DEF m, c
  <2> QED
    BY <1>4
<1> HIDE DEF p, m, c
<1>7. c >= 0 /\ p <= t /\ t < p + d /\ (m = 0 => p = t) /\ p >= 0
  BY <1>4, <1>5, <1>6
<1> QED
  BY <1>4, <1>7 DEF p, m, c

\* The nearest integer to a quotient x / W, either one on a tie.
LEMMA RoundedShare ==
    ASSUME NEW x \in Nat, NEW W \in Nat \ {0}, NEW c,
           LET twice == 2 * x + W IN
           \/ c = twice \div (2 * W)
           \/ twice % (2 * W) = 0 /\ c = (twice \div (2 * W)) - 1
    PROVE  c \in Nat /\ 2 * Apart(c * W, x) <= W
<1> DEFINE t == 2 * x + W
           d == 2 * W
           u == t \div d
           p == u * W
<1>1. t \in Nat /\ d \in Nat \ {0} /\ t >= W
  OBVIOUS
<1>2. u \in Nat /\ d * u <= t /\ t < d * u + d /\ (t % d = 0 => d * u = t)
  <2> HIDE DEF t, d
  <2> QED
    BY <1>1, Quotient
<1>3. d * u = 2 * p /\ p \in Nat /\ (u = 0 => p = 0) /\ (u - 1) * W = p - W
  <2>1. u \in Nat
    BY <1>2
  <2> HIDE DEF u, t
  <2> QED
    BY <2>1
<1>4. CASE c = u
  <2>1. c * W = p
    BY <1>4
  <2>2. 2 * p <= 2 * x + W /\ 2 * x + W < 2 * p + 2 * W
    BY <1>2, <1>3
  <2> HIDE DEF p, t, d, u
  <2> QED
    BY <1>2, <1>3, <1>4, <2>1, <2>2 DEF Apart
<1>5. CASE t % d = 0 /\ c = u - 1
  <2>1. 2 * p = 2 * x + W
    BY <1>2, <1>3, <1>5
  <2>2. u # 0
    <3> HIDE DEF u, t, d
    <3> QED
      BY <1>3, <2>1
  <2>3. c * W = p - W /\ c \in Nat
    BY <1>2, <1>3, <1>5, <2>2
  <2> HIDE DEF p, t, d, u
  <2> QED
    BY <1>3, <2>1, <2>3 DEF Apart
<1> QED
  BY <1>4, <1>5

\* What rounding leaves over, or takes too much, is little: one for each level at most,
\* and one for each level with a share if it is too much.
LEMMA LittleIsLeft ==
    ASSUME NEW w \in [Levels -> Nat], NEW W \in Nat \ {0}, W = Total(w), NEW A \in Nat,
           NEW c \in [Levels -> Nat], \A l \in Levels : 2 * Apart(c[l] * W, w[l] * A) <= W
    PROVE  /\ Total(c) \in Int
           /\ A - Total(c) <= TopLevel + 1
           /\ Total(c) - A <= Cardinality({l \in Levels : c[l] > 0})
<1> DEFINE e == [l \in Levels |-> (2 * W) * c[l] + (-(2 * A)) * w[l]]
           P == {l \in Levels : c[l] > 0}
           T == Total(c)
<1>1. T \in Int /\ T = SumOn(c, Levels) /\ W = SumOn(w, Levels) /\ IsFiniteSet(Levels)
  <2>1. c \in [Levels -> Int] /\ w \in [Levels -> Int]
    OBVIOUS
  <2> QED
    BY <2>1, TotalOfLevels, LevelsFinite
<1>2. ASSUME NEW l \in Levels
      PROVE  /\ e[l] \in Int /\ e[l] >= -W /\ e[l] <= W
             /\ c[l] = 0 => e[l] <= 0
  <2> DEFINE a == c[l]
             b == w[l]
             p == a * W
             r == b * A
  <2>1. a \in Nat /\ b \in Nat /\ p \in Nat /\ r \in Nat /\ 2 * Apart(p, r) <= W
    <3>1. a \in Nat /\ b \in Nat
      OBVIOUS
    <3>2. 2 * Apart(p, r) <= W
      OBVIOUS
    <3> HIDE DEF a, b
    <3> QED
      BY <3>1, <3>2
  <2>2. e[l] = (2 * W) * a + (-(2 * A)) * b
    OBVIOUS
  <2>3. (2 * W) * a = 2 * p /\ (-(2 * A)) * b = -(2 * r)
    <3> HIDE DEF e, a, b
    <3> QED
      BY <2>1
  <2>4. e[l] = 2 * p - 2 * r
    BY <2>1, <2>2, <2>3
  <2>5. a = 0 => p = 0
    <3> HIDE DEF a
    <3> QED
      OBVIOUS
  <2> HIDE DEF e, p, r
  <2>6. e[l] \in Int /\ e[l] >= -W /\ e[l] <= W
    BY <2>1, <2>4 DEF Apart
  <2>7. a = 0 => e[l] <= 0
    BY <2>1, <2>4, <2>5
  <2> QED
    BY <2>6, <2>7 DEF a
<1>3. SumOn(e, Levels) = (2 * W) * T + (-(2 * A)) * W
  <2>1. \A l \in Levels : c[l] \in Int /\ w[l] \in Int /\ e[l] = (2 * W) * c[l] + (-(2 * A)) * w[l]
    OBVIOUS
  <2>2. 2 * W \in Int /\ -(2 * A) \in Int
    OBVIOUS
  <2> HIDE DEF e
  <2> QED
    BY <1>1, <2>1, <2>2, SumOfTwo
<1>4. SumOn(e, Levels) = W * (2 * (T - A))
  <2> HIDE DEF T, e
  <2>1. (2 * W) * T = W * (2 * T) /\ (-(2 * A)) * W = -(W * (2 * A)) /\ W * (2 * T) \in Int
        /\ W * (2 * A) \in Int /\ W * (2 * (T - A)) = W * (2 * T) - W * (2 * A)
    BY <1>1
  <2> QED
    BY <1>3, <2>1
<1> DEFINE n == Cardinality(Levels)
           m == Cardinality(P)
           s == SumOn(e, Levels)
<1>5. s >= (-W) * n /\ n = TopLevel + 1 /\ n \in Nat
  <2>1. -W \in Int /\ \A l \in Levels : e[l] \in Int /\ e[l] >= -W
    BY <1>2
  <2> HIDE DEF e
  <2>2. s >= (-W) * n
    BY <1>1, <2>1, SumAtLeast
  <2> QED
    BY <2>2, LevelsFinite
<1>6. s <= W * m /\ m \in Nat
  <2>1. IsFiniteSet(P) /\ IsFiniteSet(Levels \ P) /\ P \cup (Levels \ P) = Levels
        /\ P \cap (Levels \ P) = {} /\ m \in Nat
    BY <1>1, FS_Subset, FS_CardinalityType
  <2>2. \A l \in P : e[l] \in Int /\ e[l] <= W
    BY <1>2
  <2>3. \A l \in Levels \ P : e[l] \in Int /\ e[l] <= 0
    <3>1. \A l \in Levels \ P : c[l] = 0
      OBVIOUS
    <3> HIDE DEF P, e
    <3> QED
      BY <1>2, <3>1
  <2> HIDE DEF P, e
  <2>4. SumOn(e, Levels) = SumOn(e, P) + SumOn(e, Levels \ P)
    BY <1>2, <2>1, <2>2, <2>3, SumOfBoth
  <2>5. SumOn(e, P) <= W * m
    BY <2>1, <2>2, SumAtMost
  <2>6. SumOn(e, Levels \ P) <= 0 * Cardinality(Levels \ P) /\ Cardinality(Levels \ P) \in Nat
    BY <2>1, <2>3, SumAtMost, FS_CardinalityType
  <2>7. SumOn(e, P) \in Int /\ SumOn(e, Levels \ P) \in Int
    BY <2>1, <2>2, <2>3, SumTerm
  <2>8. SumOn(e, Levels \ P) <= 0
    BY <2>6
  <2> HIDE DEF m
  <2>9. W * m \in Int
    BY <2>1
  <2> QED
    BY <2>1, <2>4, <2>5, <2>7, <2>8, <2>9
<1> HIDE DEF T, n, m, s, e, P
<1>7. W * (2 * (T - A)) >= (-W) * n /\ W * (2 * (T - A)) <= W * m
  BY <1>4, <1>5, <1>6 DEF s
<1>8. 2 * (T - A) >= -n
  <2> SUFFICES ASSUME 2 * (T - A) + n <= -1 PROVE FALSE
    BY <1>1, <1>5
  <2>1. W * (2 * (T - A) + n) <= W * (-1)
    BY <1>1, <1>5
  <2>2. W * (2 * (T - A) + n) = W * (2 * (T - A)) + W * n /\ (-W) * n = -(W * n)
        /\ W * (-1) = -W /\ W * n \in Int /\ W * (2 * (T - A)) \in Int
    BY <1>1, <1>5
  <2> QED
    BY <1>7, <2>1, <2>2
<1>9. 2 * (T - A) <= m
  <2> SUFFICES ASSUME 2 * (T - A) - m >= 1 PROVE FALSE
    BY <1>1, <1>6
  <2>1. W * (2 * (T - A) - m) >= W * 1
    BY <1>1, <1>6
  <2>2. W * (2 * (T - A) - m) = W * (2 * (T - A)) - W * m
        /\ W * 1 = W /\ W * m \in Int /\ W * (2 * (T - A)) \in Int
    BY <1>1, <1>6
  <2> QED
    BY <1>7, <2>1, <2>2
<1>10. A - T <= TopLevel + 1 /\ T - A <= m
  <2>1. T \in Int /\ A \in Int /\ n \in Nat /\ m \in Nat /\ n = TopLevel + 1
    BY <1>1, <1>5, <1>6
  <2> QED
    BY <1>8, <1>9, <2>1
<1> QED
  BY <1>1, <1>10 DEF T, m, P

LEMMA MoreOnSome ==
    ASSUME NEW f, NEW g, NEW T \in SUBSET Levels, \A l \in Levels : g[l] \in Int,
           \A l \in Levels : f[l] = IF l \in T THEN g[l] + 1 ELSE g[l]
    PROVE  SumOn(f, Levels) = SumOn(g, Levels) + Cardinality(T)
<1> DEFINE S == Levels
<1>1. IsFiniteSet(S) /\ T \in SUBSET S
  BY LevelsFinite
<1>2. \A x \in S : g[x] \in Int /\ f[x] = IF x \in T THEN g[x] + 1 ELSE g[x]
  OBVIOUS
<1> HIDE DEF S
<1>3. SumOn(f, S) = SumOn(g, S) + Cardinality(T)
  BY <1>1, <1>2, SumOfSome
<1> QED
  BY <1>3 DEF S

LEMMA LevelsBefore ==
    ASSUME NEW n \in Int, n <= TopLevel + 1
    PROVE  \A m : m \in 0 .. n - 1 <=> m \in Levels /\ m < n
  BY IndexAssumption DEF Levels

\* Every share c[l] is at most n halves from its exact value w[l] * A / W ...
Near(c, w, W, A, n) == \A l \in Levels : 2 * Apart(c[l] * W, w[l] * A) <= n * W

\* ... and d[l] is what an iteration of the while loop makes of it.
Iterated(c, A, d) ==
    \A l \in Levels :
       d[l] = IF A - Total(c) > 0 /\ l < A - Total(c) THEN c[l] + 1
              ELSE IF c[l] > 0 /\ Cardinality({m \in 0 .. l - 1 : c[m] > 0}) < -(A - Total(c))
              THEN c[l] - 1
              ELSE c[l]

\* One iteration of the while loop spends the budget to the last result.
LEMMA OneIteration ==
    ASSUME NEW w \in [Levels -> Nat], Total(w) # 0, NEW A \in Nat,
           NEW c \in [Levels -> Nat], Near(c, w, Total(w), A, 1),
           Total(c) # A, NEW d \in [Levels -> Int], Iterated(c, A, d)
    PROVE  d \in [Levels -> Nat] /\ Total(d) = A /\ Near(d, w, Total(w), A, 3)
<1> DEFINE W == Total(w)
<1>w. W \in Nat \ {0} /\ W = Total(w)
  BY LevelsFinite, TotalIsNat
<1> HIDE DEF W
<1>n. \A l \in Levels : 2 * Apart(c[l] * W, w[l] * A) <= W
  BY <1>w DEF Near
<1> DEFINE P == {l \in Levels : c[l] > 0}
           more == A - Total(c)
           Up == {l \in Levels : more > 0 /\ l < more}
           Down == {l \in P : Cardinality({m \in P : m < l}) < -more}
<1>1. /\ Total(c) \in Int /\ Total(c) = SumOn(c, Levels) /\ IsFiniteSet(Levels)
      /\ more \in Int /\ more # 0 /\ more <= TopLevel + 1 /\ -more <= Cardinality(P)
      /\ Levels = 0 .. TopLevel /\ TopLevel \in Nat
  <2>1. c \in [Levels -> Int]
    OBVIOUS
  <2>2. /\ Total(c) \in Int /\ A - Total(c) <= TopLevel + 1
        /\ Total(c) - A <= Cardinality({l \in Levels : c[l] > 0})
    BY <1>w, <1>n, LittleIsLeft, Zenon
  <2>3. IsFiniteSet(P) /\ Cardinality(P) \in Nat
    BY LevelsFinite, FS_Subset, FS_CardinalityType
  <2>4. Total(c) = SumOn(c, Levels)
    BY <2>1, TotalOfLevels
  <2> HIDE DEF P
  <2>5. more \in Int /\ more # 0 /\ more <= TopLevel + 1
    BY <2>2
  <2>6. -more <= Cardinality(P)
    BY <2>2, <2>3 DEF P
  <2> QED
    BY <2>2, <2>4, <2>5, <2>6, LevelsFinite
<1>a. Levels = 0 .. TopLevel /\ TopLevel \in Nat /\ IsFiniteSet(Levels)
  BY LevelsFinite
<1>2. ASSUME NEW l \in Levels PROVE {m \in 0 .. l - 1 : c[m] > 0} = {m \in P : m < l}
  <2>1. \A m : m \in 0 .. l - 1 <=> m \in Levels /\ m < l
    <3>1. l \in Int /\ l <= TopLevel + 1
      BY <1>a
    <3> QED
      BY <3>1, LevelsBefore
  <2> QED
    BY <2>1
<1>3. \A l \in P : Cardinality({m \in P : m < l}) \in Nat
  <2>1. IsFiniteSet(P)
    BY <1>1, FS_Subset
  <2>2. \A l \in P : {m \in P : m < l} \in SUBSET P
    OBVIOUS
  <2> HIDE DEF P
  <2> QED
    BY <2>1, <2>2, FS_Subset, FS_CardinalityType
<1>4. \A l \in Levels : d[l] = IF l \in Up THEN c[l] + 1 ELSE IF l \in Down THEN c[l] - 1 ELSE c[l]
  <2>1. \A l \in Levels :
           d[l] = IF more > 0 /\ l < more THEN c[l] + 1
                  ELSE IF c[l] > 0 /\ Cardinality({m \in 0 .. l - 1 : c[m] > 0}) < -more
                  THEN c[l] - 1 ELSE c[l]
    BY DEF Iterated
  <2> HIDE DEF more
  <2> QED
    BY <1>2, <2>1
<1>5. d \in [Levels -> Nat] /\ \A l \in Levels : d[l] \in {c[l] - 1, c[l], c[l] + 1}
  <2>1. \A l \in Levels : d[l] \in Nat /\ d[l] \in {c[l] - 1, c[l], c[l] + 1}
    <3>1. \A l \in Down : c[l] > 0
      OBVIOUS
    <3>2. \A l \in Levels : c[l] \in Nat
      OBVIOUS
    <3> HIDE DEF Up, Down
    <3> QED
      BY <1>4, <3>1, <3>2
  <2> QED
    BY <2>1
<1>6. Total(d) = SumOn(d, Levels)
  <2>1. d \in [Levels -> Int]
    BY <1>5
  <2> QED
    BY <2>1, TotalOfLevels
<1>0. /\ Total(c) + more = A /\ more \in Int /\ more <= TopLevel + 1 /\ more # 0
      /\ Total(c) = SumOn(c, Levels) /\ Total(c) \in Int
  BY <1>1
<1> HIDE DEF more
<1>7. ASSUME more > 0 PROVE Total(d) = A
  <2>1. Up \in SUBSET Levels /\ Up = 0 .. more - 1
    <3>1. \A l : l \in Levels /\ l < more <=> l \in 0 .. more - 1
      BY <1>0, <1>7, LevelsBefore
    <3> QED
      BY <1>7, <3>1
  <2>2. Cardinality(Up) = more
    <3>1. 0 \in Int /\ more - 1 \in Int /\ ~ (0 > more - 1) /\ (more - 1) - 0 + 1 = more
      BY <1>1, <1>7
    <3>2. Cardinality(0 .. more - 1) = (more - 1) - 0 + 1
      BY <3>1, FS_Interval
    <3> HIDE DEF Up
    <3> QED
      BY <2>1, <3>1, <3>2
  <2>3. Down = {}
    <3>1. \A l \in P : ~ (Cardinality({m \in P : m < l}) < -more)
      <4>1. \A n \in Nat : ~ (n < -more)
        BY <1>0, <1>7
      <4> HIDE DEF P
      <4> QED
        BY <1>3, <4>1
    <3> QED
      BY <3>1
  <2>4. \A l \in Levels : d[l] = IF l \in Up THEN c[l] + 1 ELSE c[l]
    <3> HIDE DEF Up, Down
    <3> QED
      BY <1>4, <2>3
  <2>6. \A l \in Levels : c[l] \in Int
    OBVIOUS
  <2> HIDE DEF Up, Down, P
  <2>5. SumOn(d, Levels) = SumOn(c, Levels) + Cardinality(Up)
    <3>1. Up \in SUBSET Levels
      BY <2>1
    <3> QED
      BY <3>1, <2>4, <2>6, MoreOnSome
  <2> QED
    BY <1>0, <1>6, <2>2, <2>5
<1>8. ASSUME more < 0 PROVE Total(d) = A
  <2>1. Up = {}
    BY <1>1, <1>8
  <2>2. -more \in Nat /\ P \in SUBSET (0 .. TopLevel)
    <3>1. -more \in Nat
      BY <1>1, <1>8
    <3>2. P \in SUBSET Levels
      OBVIOUS
    <3> HIDE DEF P
    <3> QED
      BY <1>1, <3>1, <3>2
  <2>3. Cardinality(Down) = -more
    <3> HIDE DEF P
    <3> QED
      BY <1>1, <2>2, FirstOnes
  <2>4. Down \in SUBSET Levels
    OBVIOUS
  <2>7. \A l \in Levels : d[l] \in Int
    BY <1>5
  <2>5. \A l \in Levels : c[l] = IF l \in Down THEN d[l] + 1 ELSE d[l]
    <3>1. \A l \in Levels : c[l] \in Int
      OBVIOUS
    <3> HIDE DEF Up, Down
    <3> QED
      BY <1>4, <2>1, <3>1
  <2> HIDE DEF Up, Down, P
  <2>6. SumOn(c, Levels) = SumOn(d, Levels) + Cardinality(Down)
    BY <2>4, <2>5, <2>7, MoreOnSome
  <2> QED
    BY <1>0, <1>6, <2>3, <2>6, TotalOfLevels, <1>5
<1>9. Total(d) = A
  BY <1>0, <1>7, <1>8
<1>10. ASSUME NEW l \in Levels PROVE 2 * Apart(d[l] * W, w[l] * A) <= 3 * W
  <2> DEFINE p == c[l] * W
             r == w[l] * A
             s == d[l] * W
             a == c[l]
             b == w[l]
  <2>1. a \in Nat /\ b \in Nat /\ d[l] \in {a - 1, a, a + 1}
    BY <1>5
  <2>2. p \in Nat /\ r \in Nat
    <3> HIDE DEF a, b
    <3>1. a * W \in Nat /\ b * A \in Nat
      BY <1>w, <2>1
    <3> QED
      BY <3>1 DEF a, b
  <2>3. s \in {p - W, p, p + W}
    <3>1. (a - 1) * W = a * W - W /\ (a + 1) * W = a * W + W
      <4> HIDE DEF a, b
      <4> QED
        BY <1>w, <2>1
    <3> QED
      BY <2>1, <3>1
  <2>4. 2 * Apart(p, r) <= W
    BY <1>n
  <2> HIDE DEF p, r, s
  <2>5. 2 * Apart(s, r) <= 3 * W
    BY <1>w, <2>2, <2>3, <2>4 DEF Apart
  <2> QED
    BY <2>5 DEF s, r
<1> QED
  BY <1>5, <1>9, <1>10, <1>w DEF Near

--------------------------------------------------------------------------------
\* While a question is retrieved, its shares follow from its weights, and these, and
\* the fixed numbers, from its strategy.
Searching == {"search", "select", "refine", "collect"}
Shared == {"share", "adjust"} \cup Searching

Close(n) == Near(k, weights, Total(weights), AllK, n)
Balanced == Total(k) = AllK /\ Close(3)

ShareInv ==
    /\ q \in QueryParas
    /\ phase \in {"strategy", "reason"} =>
          weights = <<>> /\ (rating = <<>> \/ rating \in [1 .. TopLevel -> Rates])
    /\ phase \in {"share", "adjust"} => weights \in [Levels -> Nat]
    /\ phase = "adjust" => /\ Total(weights) > 0 /\ k \in [Levels -> Nat]
                           /\ Close(1) \/ Balanced
    /\ phase \in Searching /\ weights # <<>> =>
          /\ weights \in [Levels -> Nat] /\ Total(weights) > 0 /\ k \in [Levels -> Nat]
          /\ Balanced
    /\ phase \in Shared /\ q.strategy = "adaptive" /\ ~q.llmScoring => weights = Priors
    /\ phase \in Shared => phase \in Searching \/ AsksLevels \/ (q.strategy = "adaptive" /\ ~q.llmScoring)
    /\ phase = "reason" => AsksLevels
    /\ phase \in Searching /\ q.strategy = "global" => k = [l \in Levels |-> KEachLevel]
    /\ phase \in Searching /\ q.strategy = "all" =>
          k = [l \in 0 .. RangeLevel |-> IF l = 0 THEN KEachLevel ELSE 200]
    /\ phase \in {"strategy", "reason"} \cup Shared => level \in Nat

LEMMA SharesElsewhere ==
    ASSUME q' \in QueryParas, phase' \notin {"strategy", "reason"} \cup Shared PROVE ShareInv'
  BY DEF ShareInv, Shared, Searching

LEMMA PriorsType == ASSUME q \in QueryParas PROVE Priors \in [Levels -> Nat]
<1>1. Sharing \in Nat
  BY IndexAssumption DEF Sharing
<1>2. q.type \in {"single_hop", "multi_hop", "global"}
  BY DEF QueryParas
<1>3. \A i \in 1 .. 4 : BasePriors[q.type][i] \in Nat
  BY <1>2 DEF BasePriors
<1>4. \A l \in Levels : l < 3 => l + 1 \in 1 .. 4
  BY DEF Levels
<1>5. \A l \in Levels : l < 3 => BasePriors[q.type][l + 1] * Sharing \in Nat
  BY <1>1, <1>3, <1>4
<1> QED
  BY <1>3, <1>5 DEF Priors

LEMMA RatingsType ==
    ASSUME rating = <<>> \/ rating \in [1 .. TopLevel -> Rates] PROVE Ratings \in [Levels -> Nat]
<1>1. TopLevel \in Nat /\ Rates \subseteq Nat
  BY IndexAssumption, ParasAssumption
<1>2. CASE rating = <<>>
  BY <1>1, <1>2 DEF Ratings
<1>3. CASE rating # <<>>
  <2>1. rating \in [1 .. TopLevel -> Nat]
    BY <1>1, <1>3
  <2>2. Total(rating) \in Nat
    <3>1. IsFiniteSet(1 .. TopLevel)
      BY <1>1, FS_Interval
    <3> QED
      BY <2>1, <3>1, TotalIsNat
  <2>3. \A l \in Levels : l # 0 => TopLevel * rating[l] \in Nat
    BY <1>1, <2>1 DEF Levels
  <2> QED
    BY <1>3, <2>2, <2>3 DEF Ratings
<1> QED
  BY <1>2, <1>3

LEMMA WeightsType ==
    ASSUME q \in QueryParas, rating = <<>> \/ rating \in [1 .. TopLevel -> Rates]
    PROVE  WeightsOf \in [Levels -> Nat]
<1>1. Ratings \in [Levels -> Nat] /\ Priors \in [Levels -> Nat]
  BY RatingsType, PriorsType
<1>2. TopLevel \in Nat /\ Sharing \in Nat
  BY IndexAssumption DEF Sharing
<1> DEFINE P == Priors
           R == Ratings
<1>3. P \in [Levels -> Nat] /\ R \in [Levels -> Nat]
  BY <1>1
<1> HIDE DEF P, R
<1>4. ASSUME NEW l \in Levels PROVE 6 * TopLevel * P[l] + 400 * Sharing * R[l] \in Nat
  <2>1. P[l] \in Nat /\ R[l] \in Nat
    BY <1>3
  <2>2. 6 * TopLevel \in Nat /\ 400 * Sharing \in Nat
    BY <1>2
  <2>3. 6 * TopLevel * P[l] \in Nat /\ 400 * Sharing * R[l] \in Nat
    BY <2>1, <2>2
  <2> QED
    BY <2>3
<1> QED
  BY <1>3, <1>4 DEF WeightsOf, P, R

LEMMA AllKType == AllK \in Nat
  BY ParasAssumption DEF AllK

\* The functions of the query alone stay while it does.
LEMMA QueryStays ==
    ASSUME q' = q PROVE Priors' = Priors /\ AllK' = AllK /\ AsksLevels' = AsksLevels
  BY DEF Priors, AllK, AsksLevels

LEMMA CloseStays ==
    ASSUME NEW n \in Nat, q' = q, weights' = weights, k' = k
    PROVE  Close(n)' = Close(n) /\ Balanced' = Balanced
  BY QueryStays DEF Close, Balanced

\* Who is close to a half is close to one and a half.
LEMMA CloseEnough ==
    ASSUME Total(weights) \in Nat, k \in [Levels -> Nat], weights \in [Levels -> Nat], Close(1)
    PROVE  Close(3)
<1> SUFFICES ASSUME NEW l \in Levels
             PROVE  2 * Apart(k[l] * Total(weights), weights[l] * AllK) <= 3 * Total(weights)
  BY DEF Close, Near
<1> DEFINE W == Total(weights)
           d == 2 * Apart(k[l] * Total(weights), weights[l] * AllK)
<1>1. d <= 1 * W
  BY DEF Close, Near
<1>2. d \in Int
  <2> DEFINE a == k[l]
             b == weights[l]
  <2>1. a \in Nat /\ b \in Nat /\ W \in Nat /\ AllK \in Nat
    BY AllKType
  <2> HIDE DEF a, b, W
  <2>2. a * W \in Nat /\ b * AllK \in Nat
    BY <2>1
  <2>3. 2 * Apart(a * W, b * AllK) \in Int
    <3> DEFINE x == a * W
               y == b * AllK
    <3> HIDE DEF x, y
    <3> QED
      BY <2>2 DEF Apart, x, y
  <2> QED
    BY <2>3 DEF a, b, W
<1> HIDE DEF W, d
<1>3. d <= 3 * W
  BY <1>1, <1>2 DEF W
<1> QED
  BY <1>3 DEF W, d

LEMMA WeightsTotal ==
    ASSUME NEW w \in [Levels -> Nat] PROVE Total(w) \in Nat
  BY LevelsFinite, TotalIsNat

--------------------------------------------------------------------------------
LEMMA FixedSharesFollow == ASSUME ShareInv, FixedShares PROVE ShareInv'
<1>1. /\ phase = "strategy" /\ phase' = "search" /\ q' = q /\ weights' = weights /\ level' = level
      /\ q.strategy \in {"global", "all"} /\ rating' = rating
      /\ k' = IF q.strategy = "global" THEN [l \in Levels |-> KEachLevel]
              ELSE [l \in 0 .. RangeLevel |-> IF l = 0 THEN KEachLevel ELSE 200]
  BY DEF FixedShares
<1>2. weights' = <<>> /\ level' \in Nat /\ q' \in QueryParas
  BY <1>1 DEF ShareInv
<1> QED
  BY <1>1, <1>2 DEF ShareInv, Shared, Searching

LEMMA PriorWeightsFollow == ASSUME ShareInv, PriorWeights PROVE ShareInv'
<1>1. /\ phase = "strategy" /\ phase' = "share" /\ q' = q /\ weights' = Priors /\ level' = level
      /\ q.strategy = "adaptive" /\ ~q.llmScoring
  BY DEF PriorWeights
<1>2. weights' \in [Levels -> Nat] /\ level' \in Nat /\ q' \in QueryParas /\ weights' = Priors'
  BY <1>1, PriorsType, QueryStays DEF ShareInv
<1> QED
  BY <1>1, <1>2 DEF ShareInv, Shared, Searching

LEMMA ReasoningFollows == ASSUME ShareInv, StartReasoning \/ AskLevels PROVE ShareInv'
<1>1. /\ phase \in {"strategy", "reason"} /\ phase' = "reason" /\ q' = q /\ weights' = weights
      /\ level' = level /\ AsksLevels
      /\ rating' = rating \/ rating' = <<>> \/ rating' \in [1 .. TopLevel -> Rates]
  BY DEF StartReasoning, AskLevels, Unusable, Empty, WrongLength, Rated, locals, ShareInv
<1>2. /\ weights' = <<>>
      /\ rating' = <<>> \/ rating' \in [1 .. TopLevel -> Rates]
      /\ level' \in Nat /\ q' \in QueryParas /\ AsksLevels'
  BY <1>1, QueryStays DEF ShareInv
<1> QED
  BY <1>1, <1>2 DEF ShareInv, Shared, Searching

LEMMA WeighFollows == ASSUME ShareInv, Weigh PROVE ShareInv'
<1>1. /\ phase = "reason" /\ phase' = "share" /\ q' = q /\ weights' = WeightsOf /\ level' = level
  BY DEF Weigh
<1>2. /\ AsksLevels /\ q \in QueryParas /\ level \in Nat
      /\ rating = <<>> \/ rating \in [1 .. TopLevel -> Rates]
  BY <1>1 DEF ShareInv
<1>3. weights' \in [Levels -> Nat] /\ AsksLevels' /\ q' \in QueryParas /\ level' \in Nat
  BY <1>1, <1>2, WeightsType, QueryStays
<1>4. ~ (q'.strategy = "adaptive" /\ ~q'.llmScoring)
  BY <1>1, <1>2 DEF AsksLevels
<1> QED
  BY <1>1, <1>3, <1>4 DEF ShareInv, Shared, Searching

LEMMA RoundSharesFollow == ASSUME ShareInv, RoundShares PROVE ShareInv'
<1>1. /\ phase = "share" /\ phase' = "adjust" /\ q' = q /\ weights' = weights /\ level' = level
      /\ Total(weights) > 0
  BY DEF RoundShares
<1>2. /\ weights \in [Levels -> Nat] /\ q \in QueryParas /\ level \in Nat
      /\ q.strategy = "adaptive" /\ ~q.llmScoring => weights = Priors
      /\ AsksLevels \/ (q.strategy = "adaptive" /\ ~q.llmScoring)
  BY <1>1 DEF ShareInv, Shared, Searching
<1> DEFINE W == Total(weights)
           d == 2 * W
<1>3. W \in Nat \ {0} /\ d \in Nat \ {0}
  <2>1. W \in Nat
    BY <1>2, WeightsTotal
  <2> QED
    BY <1>1, <2>1
<1>4. PICK down \in SUBSET {l \in Levels : Twice(l) % d = 0} :
         k' = [l \in Levels |-> (Twice(l) \div d) - (IF l \in down THEN 1 ELSE 0)]
  BY DEF RoundShares
<1>5. ASSUME NEW l \in Levels
      PROVE  k'[l] \in Nat /\ 2 * Apart(k'[l] * W, weights[l] * AllK) <= W
  <2> DEFINE x == weights[l] * AllK
             c == k'[l]
             t == 2 * x + W
  <2>1. x \in Nat
    <3> DEFINE b == weights[l]
    <3>1. b \in Nat /\ AllK \in Nat
      BY <1>2, AllKType
    <3> HIDE DEF b
    <3>2. b * AllK \in Nat
      BY <3>1
    <3> QED
      BY <3>2 DEF b
  <2>2. Twice(l) = t
    <3> DEFINE b == weights[l]
    <3>1. b \in Nat /\ AllK \in Nat
      BY <1>2, AllKType
    <3> HIDE DEF b
    <3>2. 2 * b * AllK = 2 * (b * AllK)
      BY <3>1
    <3> QED
      BY <3>2 DEF Twice, b
  <2>3. c = (Twice(l) \div d) - (IF l \in down THEN 1 ELSE 0) /\ (l \in down => Twice(l) % d = 0)
    BY <1>4
  <2> HIDE DEF c, d
  <2>4. t \div d \in Int
    <3>1. t \in Int /\ d \in Nat \ {0}
      BY <1>3, <2>1
    <3> HIDE DEF t, W
    <3> QED
      BY <3>1
  <2>5. \/ c = t \div d
        \/ t % d = 0 /\ c = (t \div d) - 1
    <3> DEFINE u == t \div d
               v == Twice(l) \div d
    <3>1. v = u /\ u \in Int /\ c = v - (IF l \in down THEN 1 ELSE 0) /\ (l \in down => t % d = 0)
      BY <2>2, <2>3, <2>4
    <3> HIDE DEF u, v, t
    <3>2. c = u \/ (t % d = 0 /\ c = u - 1)
      BY <3>1
    <3> QED
      BY <3>2 DEF u
  <2>6. c \in Nat /\ 2 * Apart(c * W, x) <= W
    <3> HIDE DEF x, W
    <3>1. LET twice == 2 * x + W IN
          \/ c = twice \div (2 * W)
          \/ twice % (2 * W) = 0 /\ c = (twice \div (2 * W)) - 1
      BY <2>5 DEF d
    <3> QED
      BY <1>3, <2>1, <3>1, RoundedShare
  <2> QED
    BY <2>6 DEF c
<1>6. k' \in [Levels -> Nat]
  <2>1. k' = [l \in Levels |-> k'[l]]
    BY <1>4
  <2> QED
    BY <1>5, <2>1
<1>7. Close(1)' /\ Total(weights') > 0
  <2>1. \A l \in Levels : 2 * Apart(k'[l] * W, weights[l] * AllK) <= 1 * W
    BY <1>3, <1>5
  <2> QED
    BY <1>1, <2>1, QueryStays DEF Close, Near
<1>8. /\ q'.strategy = "adaptive" /\ ~q'.llmScoring => weights' = Priors'
      /\ AsksLevels' \/ (q'.strategy = "adaptive" /\ ~q'.llmScoring)
  BY <1>1, <1>2, QueryStays
<1> QED
  BY <1>1, <1>2, <1>6, <1>7, <1>8 DEF ShareInv, Shared, Searching

LEMMA AdjustFollows == ASSUME ShareInv, Adjust PROVE ShareInv'
<1>1. /\ phase = "adjust" /\ phase' = "adjust" /\ q' = q /\ weights' = weights /\ level' = level
      /\ Total(k) # AllK
  BY DEF Adjust
<1>2. /\ weights \in [Levels -> Nat] /\ q \in QueryParas /\ level \in Nat
      /\ q.strategy = "adaptive" /\ ~q.llmScoring => weights = Priors
      /\ AsksLevels \/ (q.strategy = "adaptive" /\ ~q.llmScoring)
      /\ Total(weights) > 0 /\ k \in [Levels -> Nat] /\ Close(1)
  BY <1>1 DEF ShareInv, Shared, Searching, Balanced
<1> DEFINE W == Total(weights)
           A == AllK
           T == Total(k)
<1>3. W \in Nat \ {0} /\ A \in Nat /\ T \in Nat
  <2>1. W \in Nat /\ T \in Nat
    BY <1>2, WeightsTotal
  <2> QED
    BY <1>2, <2>1, AllKType
<1>5. k' = [l \in Levels |->
               IF A - T > 0 /\ l < A - T THEN k[l] + 1
               ELSE IF k[l] > 0 /\ Cardinality({m \in 0 .. l - 1 : k[m] > 0}) < -(A - T)
               THEN k[l] - 1
               ELSE k[l]]
  BY DEF Adjust, PositiveBelow
<1>6. k' \in [Levels -> Int]
  <2>1. \A l \in Levels : k[l] \in Int
    BY <1>2
  <2>2. \A l \in Levels : k'[l] \in Int
    <3> HIDE DEF A, T
    <3> QED
      BY <1>5, <2>1
  <2>3. k' = [l \in Levels |-> k'[l]]
    BY <1>5
  <2> QED
    BY <2>2, <2>3
<1>7. \A l \in Levels :
         k'[l] = IF A - T > 0 /\ l < A - T THEN k[l] + 1
                 ELSE IF k[l] > 0 /\ Cardinality({m \in 0 .. l - 1 : k[m] > 0}) < -(A - T)
                 THEN k[l] - 1
                 ELSE k[l]
  BY <1>5
<1>8. k' \in [Levels -> Nat] /\ Total(k') = A /\ Near(k', weights, W, A, 3)
  <2>1. Iterated(k, A, k') /\ Near(k, weights, W, A, 1)
    BY <1>2, <1>7 DEF Iterated, Close
  <2>2. k \in [Levels -> Nat] /\ weights \in [Levels -> Nat] /\ W # 0 /\ Total(k) # A
    BY <1>1, <1>2
  <2> HIDE DEF A
  <2> QED
    BY <1>3, <1>6, <2>1, <2>2, OneIteration
<1>9. Balanced' /\ Total(weights') > 0
  BY <1>1, <1>2, <1>8, QueryStays DEF Balanced, Close
<1>10. /\ q'.strategy = "adaptive" /\ ~q'.llmScoring => weights' = Priors'
       /\ AsksLevels' \/ (q'.strategy = "adaptive" /\ ~q'.llmScoring)
  BY <1>1, <1>2, QueryStays
<1> QED
  BY <1>1, <1>2, <1>8, <1>9, <1>10 DEF ShareInv, Shared, Searching

LEMMA AdjustedFollows == ASSUME ShareInv, Adjusted PROVE ShareInv'
<1>1. /\ phase = "adjust" /\ phase' = "search" /\ q' = q /\ weights' = weights /\ level' = level
      /\ Total(k) = AllK /\ k' = k
  BY DEF Adjusted, locals
<1>2. /\ weights \in [Levels -> Nat] /\ q \in QueryParas /\ level \in Nat
      /\ q.strategy = "adaptive" /\ ~q.llmScoring => weights = Priors
      /\ AsksLevels \/ (q.strategy = "adaptive" /\ ~q.llmScoring)
      /\ Total(weights) > 0 /\ k \in [Levels -> Nat] /\ (Close(1) \/ Balanced)
  BY <1>1 DEF ShareInv, Shared, Searching
<1>3. Balanced
  BY <1>1, <1>2, WeightsTotal, CloseEnough DEF Balanced
<1>4. Balanced'
  BY <1>1, <1>3, CloseStays
<1>5. /\ q'.strategy = "adaptive" /\ ~q'.llmScoring => weights' = Priors'
      /\ q'.strategy \notin {"global", "all"}
  BY <1>1, <1>2, QueryStays DEF AsksLevels
<1> QED
  BY <1>1, <1>2, <1>4, <1>5 DEF ShareInv, Shared, Searching

LEMMA SearchingFollows ==
    ASSUME ShareInv, phase \in Searching, phase' \in Searching,
           UNCHANGED <<q, weights, k>>, level' \in Nat
    PROVE  ShareInv'
  BY QueryStays, CloseStays DEF ShareInv, Shared, Searching

--------------------------------------------------------------------------------
THEOREM ShareInvariant == Spec => []ShareInv
<1>1. ASSUME Init PROVE ShareInv
  <2>1. phase = "strategy" /\ q \in QueryParas /\ weights = <<>> /\ rating = <<>> /\ level = 0
    BY <1>1, ParasAssumption DEF Init, RetrievalInit, Fresh
  <2> QED
    BY <2>1 DEF ShareInv, Shared, Searching
<1>2. ASSUME ShareInv, [Next]_vars PROVE ShareInv'
  <2>1. CASE UNCHANGED vars
    <3>1. UNCHANGED <<phase, q, rating, weights, k, level>>
      BY <2>1 DEF vars, retrieval, locals
    <3>2. Priors' = Priors /\ AllK' = AllK /\ AsksLevels' = AsksLevels
          /\ Balanced' = Balanced /\ Close(1)' = Close(1)
      BY <3>1, QueryStays, CloseStays
    <3> QED
      BY <1>2, <3>1, <3>2 DEF ShareInv
  <2>2. CASE EmbeddingRaises \/ ReasoningRaises \/ SharesRaise \/ SearchRaises
    <3>1. phase' = "raised" /\ q' = q
      BY <2>2 DEF EmbeddingRaises, ReasoningRaises, SharesRaise, SearchRaises, Raise
    <3> QED
      BY <1>2, <3>1, SharesElsewhere DEF Shared, Searching, ShareInv
  <2>3. CASE FixedShares
    BY <1>2, <2>3, FixedSharesFollow
  <2>4. CASE PriorWeights
    BY <1>2, <2>4, PriorWeightsFollow
  <2>5. CASE StartReasoning \/ AskLevels
    BY <1>2, <2>5, ReasoningFollows
  <2>6. CASE Weigh
    BY <1>2, <2>6, WeighFollows
  <2>7. CASE RoundShares
    BY <1>2, <2>7, RoundSharesFollow
  <2>8. CASE Adjust
    BY <1>2, <2>8, AdjustFollows
  <2>9. CASE Adjusted
    BY <1>2, <2>9, AdjustedFollows
  <2>10. CASE SearchLevel \/ Paths \/ Refine \/ Select
    <3>1. /\ phase \in Searching /\ phase' \in Searching \cup {"raised"} /\ UNCHANGED <<q, weights, k>>
          /\ level' \in {level, level + 1}
      BY <2>10 DEF SearchLevel, Paths, Refine, Select, Searching
    <3>2. level' \in Nat
      BY <1>2, <3>1 DEF ShareInv, Shared
    <3>3. CASE phase' = "raised"
      BY <1>2, <3>1, <3>3, SharesElsewhere DEF Shared, Searching, ShareInv
    <3> QED
      BY <1>2, <3>1, <3>2, <3>3, SearchingFollows
  <2>11. CASE Collect
    <3>1. phase' = "retrieved" /\ q' = q
      BY <2>11 DEF Collect
    <3> QED
      BY <1>2, <3>1, SharesElsewhere DEF Shared, Searching, ShareInv
  <2>12. CASE Inference
    <3>1. q' = q /\ phase' \notin {"strategy", "reason"} \cup Shared
      BY <2>12 DEF Inference, AskFirst, PackRelation, RelationsPacked, PackCommunity,
            CommunitiesPacked, PackChunk, ChunksPacked, TakeFirst, CallRaises, MapCall, Reduce,
            ReduceRaises, Answer, Caught, Begin, Raise, Shared, Searching
    <3> QED
      BY <1>2, <3>1, SharesElsewhere DEF ShareInv
  <2> QED
    BY <1>2, <2>1, <2>2, <2>3, <2>4, <2>5, <2>6, <2>7, <2>8, <2>9, <2>10, <2>11, <2>12
       DEF Next, Retrieve, RetrievalNext
<1> QED
  BY <1>1, <1>2, PTL DEF Spec

\* The budget is spent to the last result, and no level is further from its exact
\* share than one and a half, for any weights, budget and number of levels.
THEOREM SharesAreExact == Spec => []SharesFollowWeights
<1>1. ShareInv => SharesFollowWeights
  BY DEF ShareInv, SharesFollowWeights, Searching, Balanced, Close, Near
<1> QED
  BY <1>1, ShareInvariant, PTL

\* Priors are percentages, of which all levels from the third up share the last.
LEMMA PriorsAreShares ==
    ASSUME q \in QueryParas
    PROVE  Total(Priors) \in Nat /\ Total(Priors) <= 100 * Sharing
<1> DEFINE B == BasePriors[q.type]
           S == Sharing
           P == Priors
           low == {0, 1, 2} \cap Levels
           high == Levels \ low
<1>1. /\ B \in {<<60, 30, 10, 0>>, <<35, 30, 20, 15>>, <<10, 20, 35, 35>>}
      /\ S \in Nat \ {0} /\ TopLevel \in Nat \ {0} /\ S = IF TopLevel < 4 THEN 1 ELSE TopLevel - 2
  <2>1. q.type \in {"single_hop", "multi_hop", "global"}
    BY DEF QueryParas
  <2>2. B \in {<<60, 30, 10, 0>>, <<35, 30, 20, 15>>, <<10, 20, 35, 35>>}
    BY <2>1 DEF BasePriors
  <2> QED
    BY <2>2, IndexAssumption DEF Sharing
<1>2. /\ B[1] \in Nat /\ B[2] \in Nat /\ B[3] \in Nat /\ B[4] \in Nat
      /\ B[1] + B[2] + B[3] + B[4] = 100
  BY <1>1
<1>3. P \in [Levels -> Nat] /\ \A l \in Levels : P[l] = IF l < 3 THEN B[l + 1] * S ELSE B[4]
  BY PriorsType DEF Priors
<1>4. IsFiniteSet(low) /\ IsFiniteSet(high) /\ low \cap high = {} /\ low \cup high = Levels
  BY LevelsFinite, FS_Subset
<1>5. Total(P) = SumOn(P, Levels) /\ Total(P) \in Nat
  BY <1>3, TotalOfLevels, LevelsFinite, TotalIsNat
<1>6. SumOn(P, Levels) = SumOn(P, low) + SumOn(P, high) /\ SumOn(P, low) \in Int /\ SumOn(P, high) \in Int
  <2>1. \A l \in low \cup high : P[l] \in Int
    BY <1>3, <1>4
  <2> HIDE DEF P, low, high
  <2> QED
    BY <1>4, <2>1, SumOfBoth, SumTerm
<1>7. SumOn(P, low) <= B[1] * S + B[2] * S + B[3] * S
  <2>a. B[1] * S \in Nat /\ B[2] * S \in Nat /\ B[3] * S \in Nat
    <3> DEFINE b1 == B[1]
               b2 == B[2]
               b3 == B[3]
    <3>1. b1 \in Nat /\ b2 \in Nat /\ b3 \in Nat /\ S \in Nat
      BY <1>1, <1>2
    <3> HIDE DEF b1, b2, b3, S
    <3>2. b1 * S \in Nat /\ b2 * S \in Nat /\ b3 * S \in Nat
      BY <3>1
    <3> QED
      BY <3>2 DEF b1, b2, b3
  <2> DEFINE x == B[1] * S
             y == B[2] * S
             z == B[3] * S
  <2>b. x \in Nat /\ y \in Nat /\ z \in Nat
    BY <2>a
  <2>1. 0 \in Levels /\ 1 \in Levels /\ P[0] = x /\ P[1] = y /\ (2 \in Levels => P[2] = z)
    BY <1>1, <1>3, LevelsFinite
  <2>2. low = {0, 1} \/ (low = {0, 1} \cup {2} /\ 2 \in Levels)
    BY <2>1
  <2> HIDE DEF P, low, x, y, z, B, S
  <2>3. SumOn(P, {0} \cup {1}) = x + y
    <3>1. IsFiniteSet({0}) /\ SumOn(P, {0}) = x /\ x \in Int /\ y \in Int
      <4>1. P[0] \in Int
        BY <2>1, <2>b
      <4>2. IsFiniteSet({0})
        BY FS_Singleton
      <4>3. SumOn(P, {0}) = P[0]
        BY <4>1, SumOfOne
      <4> QED
        BY <2>1, <2>b, <4>2, <4>3
    <3>2. 1 \notin {0} /\ \A l \in {0} \cup {1} : P[l] \in Int
      BY <2>1, <3>1
    <3>3. SumOn(P, {0} \cup {1}) = P[1] + SumOn(P, {0})
      BY <3>1, <3>2, SumOfMore
    <3> QED
      BY <2>1, <3>1, <3>3
  <2>4. 2 \in Levels => SumOn(P, {0, 1} \cup {2}) = x + y + z
    <3> SUFFICES ASSUME 2 \in Levels PROVE SumOn(P, {0, 1} \cup {2}) = x + y + z
      OBVIOUS
    <3>1. IsFiniteSet({0, 1}) /\ 2 \notin {0, 1} /\ \A l \in {0, 1} \cup {2} : P[l] \in Int
      BY <2>1, <2>b, LevelsFinite, FS_Subset
    <3>2. SumOn(P, {0, 1} \cup {2}) = P[2] + SumOn(P, {0, 1})
      BY <3>1, SumOfMore
    <3>3. {0, 1} = {0} \cup {1}
      OBVIOUS
    <3> QED
      <4>1. SumOn(P, {0, 1}) = x + y
        BY <2>3, <3>3
      <4>2. P[2] = z
        BY <2>1
      <4>3. SumOn(P, {0, 1} \cup {2}) = z + (x + y)
        BY <3>2, <4>1, <4>2
      <4> QED
        BY <2>b, <4>3
  <2>5. {0, 1} = {0} \cup {1}
    OBVIOUS
  <2>6. SumOn(P, low) <= x + y + z
    <3>1. CASE low = {0, 1}
      <4>1. SumOn(P, low) = x + y
        BY <2>3, <2>5, <3>1
      <4> QED
        BY <2>b, <4>1
    <3>2. CASE low = {0, 1} \cup {2} /\ 2 \in Levels
      <4>1. SumOn(P, low) = x + y + z
        BY <2>4, <3>2
      <4> QED
        BY <2>b, <4>1
    <3> QED
      BY <2>2, <3>1, <3>2
  <2> QED
    BY <2>6 DEF x, y, z
<1>8. SumOn(P, high) <= B[4] * S
  <2>1. \A l \in high : P[l] \in Int /\ P[l] <= B[4]
    <3>1. \A l \in high : P[l] = B[4]
      BY <1>3, LevelsFinite
    <3> QED
      BY <1>2, <3>1
  <2>2. Cardinality(high) \in Nat /\ Cardinality(high) <= S
    <3>1. CASE TopLevel < 3
      <4>1. high = {}
        BY <1>1, <3>1, LevelsFinite
      <4> HIDE DEF high
      <4>2. Cardinality(high) = 0
        BY <4>1, FS_EmptySet
      <4> QED
        BY <1>1, <4>2
    <3>2. CASE TopLevel >= 3
      <4>1. high = 3 .. TopLevel
        BY <1>1, <3>2, LevelsFinite
      <4>2. Cardinality(3 .. TopLevel) = TopLevel - 3 + 1
        BY <1>1, <3>2, FS_Interval
      <4> HIDE DEF high, S
      <4>3. Cardinality(high) = TopLevel - 2
        BY <1>1, <4>1, <4>2
      <4> QED
        BY <1>1, <3>2, <4>3
    <3> QED
      BY <1>1, <3>1, <3>2
  <2>3. SumOn(P, high) <= B[4] * Cardinality(high)
    <3>1. B[4] \in Int
      BY <1>2
    <3> HIDE DEF P, high, B
    <3> QED
      BY <1>4, <2>1, <3>1, SumAtMost
  <2> DEFINE b == B[4]
             n == Cardinality(high)
  <2>4. b \in Nat /\ n \in Nat /\ n <= S /\ S \in Nat
    BY <1>1, <1>2, <2>2
  <2> HIDE DEF b, n, S
  <2>5. b * n <= b * S /\ b * n \in Nat /\ b * S \in Nat
    BY <2>4
  <2>6. SumOn(P, high) <= b * n
    BY <2>3 DEF b, n
  <2> HIDE DEF P, high
  <2>7. SumOn(P, high) <= b * S
    BY <1>6, <2>5, <2>6
  <2> QED
    BY <2>7 DEF b
<1>9. SumOn(P, Levels) <= 100 * S
  <2> DEFINE a == B[1]
             b == B[2]
             c == B[3]
             d == B[4]
             s1 == SumOn(P, low)
             s2 == SumOn(P, high)
             s0 == SumOn(P, Levels)
  <2>1. a \in Nat /\ b \in Nat /\ c \in Nat /\ d \in Nat /\ S \in Nat /\ a + b + c + d = 100
    BY <1>1, <1>2
  <2>2. s0 = s1 + s2 /\ s1 \in Int /\ s2 \in Int /\ s1 <= a * S + b * S + c * S /\ s2 <= d * S
    BY <1>6, <1>7, <1>8
  <2> HIDE DEF a, b, c, d, S, s0, s1, s2
  <2>3. /\ a * S \in Nat /\ b * S \in Nat /\ c * S \in Nat /\ d * S \in Nat
        /\ (a + b + c + d) * S = a * S + b * S + c * S + d * S
    BY <2>1
  <2>4. a * S + b * S + c * S + d * S = 100 * S
    BY <2>1, <2>3
  <2>5. s0 <= 100 * S
    BY <2>2, <2>3, <2>4
  <2> QED
    BY <2>5 DEF s0
<1> QED
  BY <1>5, <1>9

\* A share that is more than one and a half has a result.
LEMMA ShareHasResult ==
    ASSUME NEW W \in Nat, NEW S \in Nat, W <= 100 * S, NEW w \in Nat, NEW A \in Nat, NEW c \in Nat,
           2 * Apart(c * W, w * A) <= 3 * W, 2 * (w * A) > 300 * S
    PROVE  c > 0
<1> SUFFICES ASSUME c = 0 PROVE FALSE
  OBVIOUS
<1> DEFINE p == w * A
<1>1. p \in Nat /\ 2 * p > 300 * S
  OBVIOUS
<1>2. c * W = 0
  OBVIOUS
<1>3. 2 * Apart(0, p) <= 3 * W
  BY <1>2
<1> HIDE DEF p
<1> QED
  BY <1>1, <1>3 DEF Apart

\* The levels that are searched have priors that are large enough.
LEMMA SearchedPriors ==
    ASSUME q \in QueryParas, q.strategy = "adaptive", NEW l \in Nat, l < QueryMaxLevel,
           AllKAdaptive > 15, AllKAdaptive > 10 * Sharing
    PROVE  /\ l \in Levels /\ Sharing \in Nat \ {0}
           /\ Priors[l] \in Nat /\ 2 * (Priors[l] * AllKAdaptive) > 300 * Sharing
<1> DEFINE A == AllKAdaptive
           S == Sharing
<1>1. /\ TopLevel \in Nat \ {0} /\ S \in Nat \ {0} /\ A \in Nat /\ A > 15 /\ A > 10 * S
      /\ TopLevel < 4 => S = 1
  BY IndexAssumption, ParasAssumption DEF Sharing
<1>2. q.type \in {"single_hop", "multi_hop", "global"}
      /\ q.onlyEntity \in BOOLEAN /\ q.woHierarchical \in BOOLEAN
  BY DEF QueryParas
<1>3. /\ QueryMaxLevel \in {1, 2, TopLevel, TopLevel + 1}
      /\ q.type = "single_hop" => QueryMaxLevel \in {1, 2}
  BY <1>1, <1>2 DEF QueryMaxLevel
<1>4. l \in Levels /\ (q.type = "single_hop" => l < 2)
  BY <1>1, <1>3 DEF Levels
<1> DEFINE B == BasePriors[q.type]
<1>5. /\ Priors[l] = IF l < 3 THEN B[l + 1] * S ELSE B[4]
      /\ l < 3 => l + 1 \in 1 .. 4
  BY <1>4 DEF Priors
<1>6. /\ \A i \in 1 .. 3 : B[i] \in Nat /\ B[i] >= 10
      /\ B[4] \in Nat /\ (q.type # "single_hop" => B[4] >= 15)
  BY <1>2 DEF BasePriors
<1>7. CASE l < 3
  <2> DEFINE b == B[l + 1]
             v == S * A
  <2>1. l + 1 \in 1 .. 3
    BY <1>7
  <2>2. b \in Nat /\ b >= 10 /\ Priors[l] = b * S
    BY <1>5, <1>6, <1>7, <2>1
  <2> HIDE DEF b, A, S, B
  <2>3. v \in Nat /\ v >= 16 * S /\ b * S \in Nat
    <3>1. S * A >= S * 16 /\ S * A \in Nat
      BY <1>1
    <3> QED
      BY <1>1, <2>2, <3>1
  <2>4. (b * S) * A = b * v
    BY <1>1, <2>2
  <2> HIDE DEF v
  <2>5. b * v >= 10 * v /\ b * v \in Nat
    BY <2>2, <2>3
  <2>6. 2 * ((b * S) * A) > 300 * S
    BY <1>1, <2>3, <2>4, <2>5
  <2> QED
    BY <1>1, <1>4, <2>2, <2>3, <2>6 DEF A, S
<1>8. CASE ~ (l < 3)
  <2> DEFINE b == B[4]
  <2>1. b \in Nat /\ b >= 15 /\ Priors[l] = b
    BY <1>4, <1>5, <1>6, <1>8
  <2> HIDE DEF b, A, S, B
  <2>2. b * A >= 15 * A /\ b * A \in Nat
    BY <1>1, <2>1
  <2>3. 2 * (b * A) > 300 * S
    BY <1>1, <2>2
  <2> QED
    BY <1>1, <1>4, <2>1, <2>3 DEF A, S
<1> QED
  BY <1>7, <1>8

\* With a budget that gives each percent of the priors its due (the default, 50, does up to
\* six levels above the entities) no question without ratings is refused by the index.
THEOREM PriorsAreEnough ==
    ASSUME AllKAdaptive > 15, AllKAdaptive > 10 * Sharing
    PROVE  Spec => []PriorsNeverStarve
<1>1. ASSUME ShareInv, phase = "search", level < QueryMaxLevel, ~AsksLevels PROVE k[level] > 0
  <2>1. q \in QueryParas /\ level \in Nat /\ q.strategy \in {"global", "all", "adaptive"}
        /\ (q.strategy = "adaptive" => ~q.llmScoring)
    <3>1. q \in QueryParas /\ level \in Nat
      BY <1>1 DEF ShareInv, Shared, Searching
    <3> QED
      BY <1>1, <3>1 DEF AsksLevels, QueryParas
  <2>2. /\ TopLevel \in Nat \ {0} /\ RangeLevel \in 1 .. TopLevel /\ KEachLevel \in Nat \ {0}
    BY IndexAssumption, ParasAssumption
  <2>3. CASE q.strategy = "global"
    <3>1. k = [l \in Levels |-> KEachLevel]
      BY <1>1, <2>3 DEF ShareInv, Searching
    <3>2. QueryMaxLevel \in {1, 2, TopLevel + 1}
      BY <2>1, <2>3 DEF QueryMaxLevel, QueryParas
    <3>3. level \in Levels
      BY <1>1, <2>1, <2>2, <3>2 DEF Levels
    <3> QED
      BY <2>2, <3>1, <3>3
  <2>4. CASE q.strategy = "all"
    <3>1. k = [l \in 0 .. RangeLevel |-> IF l = 0 THEN KEachLevel ELSE 200]
      BY <1>1, <2>4 DEF ShareInv, Searching
    <3>2. QueryMaxLevel \in {1, 2, RangeLevel + 1}
      BY <2>1, <2>4 DEF QueryMaxLevel, QueryParas
    <3>3. level \in 0 .. RangeLevel
      BY <1>1, <2>1, <2>2, <3>2
    <3> QED
      BY <2>2, <3>1, <3>3
  <2>5. CASE q.strategy = "adaptive"
    <3>1. /\ weights = Priors /\ level \in Levels
          /\ Sharing \in Nat \ {0} /\ Priors[level] \in Nat
          /\ 2 * (Priors[level] * AllKAdaptive) > 300 * Sharing
      BY <1>1, <2>1, <2>5, SearchedPriors DEF ShareInv, Shared, Searching
    <3>2. weights # <<>>
      <4>1. DOMAIN Priors = Levels /\ DOMAIN <<>> = {}
        BY DEF Priors
      <4> QED
        BY <3>1, <4>1
    <3>3. Balanced /\ k \in [Levels -> Nat]
      BY <1>1, <3>2 DEF ShareInv, Searching
    <3>4. AllK = AllKAdaptive /\ AllKAdaptive \in Nat
      BY <2>5, AllKType DEF AllK
    <3> DEFINE W == Total(Priors)
               w == Priors[level]
               c == k[level]
    <3>5. 2 * Apart(c * W, w * AllKAdaptive) <= 3 * W
      BY <3>1, <3>3, <3>4 DEF Balanced, Close, Near
    <3>6. W \in Nat /\ W <= 100 * Sharing
      BY <2>1, PriorsAreShares
    <3>7. c \in Nat /\ w \in Nat /\ Sharing \in Nat /\ 2 * (w * AllKAdaptive) > 300 * Sharing
      BY <3>1, <3>3
    <3> HIDE DEF W, w, c
    <3>8. c > 0
      BY <3>4, <3>5, <3>6, <3>7, ShareHasResult
    <3> QED
      BY <3>8 DEF c
  <2> QED
    BY <2>1, <2>3, <2>4, <2>5
<1>2. ShareInv => PriorsNeverStarve
  BY <1>1 DEF PriorsNeverStarve
<1> QED
  BY <1>2, ShareInvariant, PTL

--------------------------------------------------------------------------------
(***************************************************************************)
(* How much is packed.                                                     *)
(***************************************************************************)
\* The context holds the rows after the last one that was done with, or is too long; the
\* rows before it are in one prompt or in none, and together they were too long.
RelationsSent ==
    phase = "relations" =>
        /\ start \in 0 .. at
        /\ at = 0 => current = {}
        /\ start < at => current = start + 1 .. at - 1
        /\ start = at /\ at # 0 => ~ (SizeOf(current) <= MaxTokens)
        /\ start # 0 => SizeOf(1 .. start - 1) > MaxTokens
        /\ \A n \in DOMAIN prompts : prompts[n][1] = "relations" => prompts[n][2] \subseteq 1 .. start
        /\ \A m, n \in DOMAIN prompts :
              prompts[m][1] = "relations" /\ prompts[n][1] = "relations"
                /\ prompts[m][2] \cap prompts[n][2] # {} => m = n

\* What is in hand is short enough, or will be sent as one of the exceptions.
HandFits ==
    /\ phase = "relations" =>
          /\ Len(rows) = Cardinality(retrieved.relations)
          /\ start < at \/ at = 0 => SizeOf(current) <= MaxTokens
          /\ SizeOf(current) <= MaxTokens \/ at - 1 \in current
    /\ phase = "communities" => SizeOf(current) <= MaxTokens \/ Cardinality(current) = 1
    /\ phase = "chunks" => Heading + SizeOf(current) <= q.room \/ current = {}

\* a prompt is short enough, or one of the exceptions
Short(made) ==
    /\ made[1] = "relations" =>
          made[3] <= MaxTokens \/ Cardinality(retrieved.relations) - 1 \in made[2]
    /\ made[1] = "communities" => made[3] <= MaxTokens \/ Cardinality(made[2]) = 1
    /\ made[1] = "chunks" => made[3] <= q.room \/ made[2] = {}

ShortInv == prompts \in Seq(Prompt) /\ HandFits /\ PromptsFit

SizeInv == RelationsSent /\ ShortInv

--------------------------------------------------------------------------------
\* The context is dropped only when its rows were too long, and then those in hand are sent.
LEMMA PackRelationSends ==
    ASSUME PackInv, RowsTyped, RelationsSent, PackRelation PROVE RelationsSent'
<1> DEFINE selected == start + 1 .. at
<1>1. /\ phase = "relations" /\ phase' = "relations" /\ at < Len(rows) /\ at' = at + 1
      /\ rows' = rows /\ current' = selected
      /\ IF SizeOf(selected) > MaxTokens
         THEN prompts' = Append(prompts, <<"relations", current, SizeOf(current)>>) /\ start' = at + 1
         ELSE UNCHANGED <<prompts, start>>
  BY DEF PackRelation, Holding
<1>2. /\ rows \in Seq(Nat) /\ at \in Nat /\ at <= Len(rows) /\ Len(rows) \in Nat
      /\ start \in Nat /\ start <= at /\ current \in SUBSET Nat /\ prompts \in Seq(Prompt)
      /\ MaxTokens \in Nat
  <2>1. at \in Nat /\ start \in Nat /\ current \in SUBSET Nat /\ prompts \in Seq(Prompt)
    BY <1>1 DEF PackInv, PackTyped, Packing
  <2>2. rows \in Seq(Nat) /\ at \in 0 .. Len(rows) /\ start \in 0 .. at
    BY <1>1 DEF RowsTyped, RelationsSent, Packing
  <2> QED
    BY <2>1, <2>2, PromptAssumption
<1>3. /\ at = 0 => current = {}
      /\ start < at => current = start + 1 .. at - 1
      /\ start # 0 => SizeOf(1 .. start - 1) > MaxTokens
      /\ \A n \in DOMAIN prompts : prompts[n][1] = "relations" => prompts[n][2] \subseteq 1 .. start
      /\ \A m, n \in DOMAIN prompts :
            prompts[m][1] = "relations" /\ prompts[n][1] = "relations"
              /\ prompts[m][2] \cap prompts[n][2] # {} => m = n
  BY <1>1 DEF RelationsSent
<1>6. CASE SizeOf(selected) > MaxTokens
  <2>1. start < at
    <3> SUFFICES ASSUME start = at PROVE FALSE
      BY <1>2
    <3>1. selected = {}
      BY <1>2
    <3> QED
      BY <1>2, <1>6, <3>1, NoRowsNoSize
  <2>2. current = start + 1 .. at - 1 /\ start' = at + 1 /\ prompts' = Append(prompts, <<"relations", current, SizeOf(current)>>)
    BY <1>1, <1>3, <1>6, <2>1
  <2>3. SizeOf(1 .. start' - 1) > MaxTokens
    <3>1. start' - 1 = at /\ 1 .. at \in SUBSET (1 .. Len(rows)) /\ selected \in SUBSET (1 .. at)
      BY <1>2, <2>2
    <3>2. SizeOf(selected) \in Nat /\ SizeOf(1 .. at) \in Nat /\ SizeOf(selected) <= SizeOf(1 .. at)
      BY <1>2, <3>1, SizeGrows
    <3> HIDE DEF selected
    <3> QED
      BY <1>2, <1>6, <3>1, <3>2
  <2>4. (SizeOf(1 .. start - 1) > MaxTokens)'
    <3>1. SizeOf(1 .. start - 1)' = SumOn(rows', 1 .. start' - 1)
      BY SizeIsSumNext
    <3> QED
      BY <1>1, <2>3, <3>1, SizeIsSum
  <2> DEFINE p == <<"relations", current, SizeOf(current)>>
  <2>5. p \in Prompt /\ p[1] = "relations" /\ p[2] = current
    <3>1. current \in SUBSET (1 .. Len(rows))
      BY <1>1 DEF RowsTyped, Packing
    <3>2. SizeOf(current) \in Int
      BY <1>2, <3>1, SizeGrows
    <3> QED
      BY <1>2, <3>2, MadePrompt
  <2>6. /\ DOMAIN prompts' = DOMAIN prompts \cup {Len(prompts) + 1}
        /\ \A n \in DOMAIN prompts : prompts'[n] = prompts[n]
        /\ prompts'[Len(prompts) + 1] = p
    <3> HIDE DEF p
    <3> QED
      BY <1>2, <2>2, <2>5, OneMorePrompt DEF p
  <2> HIDE DEF p
  <2>7. 1 .. start \subseteq 1 .. start' /\ current \subseteq 1 .. start' /\ current \cap (1 .. start) = {}
    BY <1>2, <2>1, <2>2
  <2>8. \A n \in DOMAIN prompts' : prompts'[n][1] = "relations" => prompts'[n][2] \subseteq 1 .. start'
    BY <1>3, <2>5, <2>6, <2>7
  <2>9. ASSUME NEW m \in DOMAIN prompts', NEW n \in DOMAIN prompts',
               prompts'[m][1] = "relations", prompts'[n][1] = "relations",
               prompts'[m][2] \cap prompts'[n][2] # {}
        PROVE  m = n
    <3>1. CASE m \in DOMAIN prompts /\ n \in DOMAIN prompts
      BY <1>3, <2>6, <2>9, <3>1
    <3>2. ASSUME NEW i \in DOMAIN prompts, prompts[i][1] = "relations", prompts[i][2] \cap current # {}
          PROVE  FALSE
      BY <1>3, <2>7, <3>2
    <3> QED
      BY <2>5, <2>6, <2>9, <3>1, <3>2
  <2>10. start' \in 0 .. at' /\ at' # 0 /\ ~ (start' < at')
    BY <1>1, <1>2, <2>2
  <2>11. ~ (SizeOf(current)' <= MaxTokens)
    <3>1. SizeOf(current)' = SumOn(rows', current')
      BY SizeIsSumNext
    <3>2. SizeOf(current)' = SizeOf(selected)
      BY <1>1, <3>1, SizeIsSum
    <3>3. selected \in SUBSET (1 .. Len(rows))
      BY <1>1, <1>2
    <3>4. SizeOf(selected) \in Nat
      BY <1>2, <3>3, SizeGrows
    <3> HIDE DEF selected
    <3> QED
      BY <1>2, <1>6, <3>2, <3>4
  <2>12. RelationsSent'
    BY <1>1, <2>4, <2>8, <2>9, <2>10, <2>11 DEF RelationsSent
  <2> QED
    BY <2>12
<1>7. CASE ~ (SizeOf(selected) > MaxTokens)
  <2>1. prompts' = prompts /\ start' = start
    BY <1>1, <1>7
  <2>2. start' < at' /\ start' \in 0 .. at' /\ at' # 0 /\ current' = start' + 1 .. at' - 1
    BY <1>1, <1>2, <2>1
  <2>3. start' # 0 => (SizeOf(1 .. start - 1) > MaxTokens)'
    <3>1. SizeOf(1 .. start - 1)' = SumOn(rows', 1 .. start' - 1)
      BY SizeIsSumNext
    <3> QED
      BY <1>1, <1>3, <2>1, <3>1, SizeIsSum
  <2>4. RelationsSent'
    BY <1>1, <1>3, <2>1, <2>2, <2>3 DEF RelationsSent
  <2> QED
    BY <2>4
<1> QED
  BY <1>6, <1>7

--------------------------------------------------------------------------------
(***************************************************************************)
(* No prompt is too long.                                                  *)
(***************************************************************************)
LEMMA FitIsShort == PromptsFit <=> \A n \in DOMAIN prompts : Short(prompts[n])
  BY DEF PromptsFit, Short

LEMMA FitIsShortNext == PromptsFit' <=> (\A n \in DOMAIN prompts : Short(prompts[n]))'
  BY FitIsShort, PTL

\* What is in hand makes a short prompt.
LEMMA ShortMade ==
    ASSUME NEW what \in {"relations", "communities", "chunks"}, NEW some \in SUBSET Nat, NEW z \in Int,
           what = "relations" => z <= MaxTokens \/ Cardinality(retrieved.relations) - 1 \in some,
           what = "communities" => z <= MaxTokens \/ Cardinality(some) = 1,
           what = "chunks" => z <= q.room \/ some = {}
    PROVE  <<what, some, z>> \in Prompt /\ Short(<<what, some, z>>)
<1> DEFINE made == <<what, some, z>>
<1>1. made \in Prompt /\ made[1] = what /\ made[2] = some /\ made[3] = z
  BY MadePrompt
<1> HIDE DEF made
<1>2. made \in Prompt /\ Short(made)
  BY <1>1 DEF Short
<1> QED
  BY <1>2 DEF made

\* a prompt of relations
LEMMA RelationsMade ==
    ASSUME NEW some \in SUBSET Nat, NEW z \in Int,
           z <= MaxTokens \/ Cardinality(retrieved.relations) - 1 \in some
    PROVE  <<"relations", some, z>> \in Prompt /\ Short(<<"relations", some, z>>)
<1> DEFINE what == "relations"
<1>1. what \in {"relations", "communities", "chunks"} /\ what # "communities" /\ what # "chunks"
  OBVIOUS
<1>2. <<what, some, z>> \in Prompt /\ Short(<<what, some, z>>)
  <2> HIDE DEF what
  <2> QED
    BY <1>1, ShortMade
<1> QED
  BY <1>2

\* ... of communities
LEMMA CommunitiesMade ==
    ASSUME NEW some \in SUBSET Nat, NEW z \in Int,
           z <= MaxTokens \/ Cardinality(some) = 1
    PROVE  <<"communities", some, z>> \in Prompt /\ Short(<<"communities", some, z>>)
<1> DEFINE what == "communities"
<1>1. what \in {"relations", "communities", "chunks"} /\ what # "relations" /\ what # "chunks"
  OBVIOUS
<1>2. <<what, some, z>> \in Prompt /\ Short(<<what, some, z>>)
  <2> HIDE DEF what
  <2> QED
    BY <1>1, ShortMade
<1> QED
  BY <1>2

\* ... and of text chunks
LEMMA ChunksMade ==
    ASSUME NEW some \in SUBSET Nat, NEW z \in Int,
           z <= q.room \/ some = {}
    PROVE  <<"chunks", some, z>> \in Prompt /\ Short(<<"chunks", some, z>>)
<1> DEFINE what == "chunks"
<1>1. what \in {"relations", "communities", "chunks"} /\ what # "relations" /\ what # "communities"
  OBVIOUS
<1>2. <<what, some, z>> \in Prompt /\ Short(<<what, some, z>>)
  <2> HIDE DEF what
  <2> QED
    BY <1>1, ShortMade
<1> QED
  BY <1>2

\* A prompt that is short stays so as long as the question and what is retrieved do.
LEMMA AllShort ==
    ASSUME UNCHANGED <<q, retrieved>>, prompts' \in Seq(Prompt), \A n \in DOMAIN prompts' : Short(prompts'[n])
    PROVE  PromptsFit'
  BY DEF PromptsFit, Short

\* One more short prompt.
LEMMA OneMoreShort ==
    ASSUME ShortInv, UNCHANGED <<q, retrieved>>, NEW made \in Prompt, Short(made),
           prompts' = Append(prompts, made)
    PROVE  prompts' \in Seq(Prompt) /\ PromptsFit'
<1>1. prompts \in Seq(Prompt) /\ \A n \in DOMAIN prompts : Short(prompts[n])
  BY FitIsShort DEF ShortInv
<1>2. /\ prompts' \in Seq(Prompt)
      /\ DOMAIN prompts' = DOMAIN prompts \cup {Len(prompts) + 1}
      /\ \A n \in DOMAIN prompts : prompts'[n] = prompts[n]
      /\ prompts'[Len(prompts) + 1] = made
  BY <1>1, OneMorePrompt
<1>3. \A n \in DOMAIN prompts' : Short(prompts'[n])
  BY <1>1, <1>2
<1> QED
  BY <1>2, <1>3, AllShort

LEMMA SameShort ==
    ASSUME ShortInv, UNCHANGED <<q, retrieved, prompts>> PROVE prompts' \in Seq(Prompt) /\ PromptsFit'
  BY FitIsShort, AllShort DEF ShortInv

\* The prompts of the language model alone are not about rows.
LEMMA LlmFirstIsShort == \A n \in DOMAIN LlmFirst : Short(LlmFirst[n])
  BY LlmFirstIsPrompts DEF Short

\* A table is begun: nothing is in hand.
LEMMA BegunFits ==
    ASSUME NEW what \in Packing \cup {"direct", "map"}, Begin(what),
           what = "relations" => Len(rows') = Cardinality(retrieved'.relations)
    PROVE  HandFits'
<1>1. phase' = what /\ at' = 0 /\ start' = 0 /\ current' = {}
  BY DEF Begin
<1>2. SizeOf(current)' = 0
  BY <1>1, SizeIsSumNext, SumOfNothing
<1> QED
  BY <1>1, <1>2, PromptAssumption DEF HandFits, Packing

LEMMA NotPackedFits == ASSUME phase' \notin Packing PROVE HandFits'
  BY DEF HandFits, Packing

LEMMA SizesAreAsMany ==
    ASSUME NEW ids, ids \subseteq Relations, NEW s \in Sizes(ids) PROVE Len(s) = Cardinality(ids)
<1>1. Cardinality(ids) \in Nat
  BY IndexAssumption, FS_Subset, FS_CardinalityType
<1>2. s \in [1 .. Cardinality(ids) -> {RowSize[v] : v \in ids}]
  BY DEF Sizes
<1> QED
  BY <1>1, <1>2

\* A row more is in hand.
LEMMA OneMoreRow ==
    ASSUME RowsTyped, phase \in Packing, at < Len(rows), rows' = rows, current' = current \cup {at + 1}
    PROVE  /\ SizeOf(current)' = rows[at + 1] + SizeOf(current)
           /\ rows[at + 1] \in Nat /\ SizeOf(current) \in Nat
<1>1. rows \in Seq(Nat) /\ at \in Nat /\ at + 1 \in 1 .. Len(rows) /\ current \in SUBSET (1 .. Len(rows))
      /\ current \subseteq 1 .. at
  BY DEF RowsTyped
<1>2. rows[at + 1] \in Nat /\ SizeOf(current) \in Nat
  BY <1>1, SizeGrows
<1>3. IsFiniteSet(current)
  <2>1. at \in Nat /\ current \subseteq 1 .. at /\ 1 \in Int /\ at \in Int
    BY <1>1
  <2>2. IsFiniteSet(1 .. at)
    BY <2>1, FS_Interval
  <2> QED
    BY <2>1, <2>2, FS_Subset
<1>4. at + 1 \notin current /\ \A i \in current \cup {at + 1} : rows[i] \in Int
  BY <1>1
<1> DEFINE c == current
           i == at + 1
<1>5. SumOn(rows, c \cup {i}) = rows[i] + SumOn(rows, c)
  <2>1. IsFiniteSet(c) /\ i \notin c /\ \A x \in c \cup {i} : rows[x] \in Int
    BY <1>3, <1>4
  <2> HIDE DEF c, i
  <2> QED
    BY <2>1, SumOfMore
<1> QED
  BY <1>2, <1>5, SizeIsSum, SizeIsSumNext

\* The rows in hand stay as long.
LEMMA SizeStays == ASSUME rows' = rows, current' = current PROVE SizeOf(current)' = SizeOf(current)
  BY SizeIsSum, SizeIsSumNext

LEMMA AskFirstFits == ASSUME FromIndex, ShortInv, AskFirst PROVE ShortInv'
<1>1. rows' \in Sizes(retrieved.relations) /\ prompts' = LlmFirst /\ Begin("relations")
      /\ UNCHANGED <<q, retrieved>>
  BY DEF AskFirst
<1>2. HandFits'
  BY <1>1, SizesAreAsMany, BegunFits DEF FromIndex, Packing
<1>3. prompts' \in Seq(Prompt) /\ PromptsFit'
  BY <1>1, LlmFirstIsPrompts, LlmFirstIsShort, AllShort
<1> QED
  BY <1>2, <1>3 DEF ShortInv

LEMMA PackRelationFits ==
    ASSUME FromIndex, RowsTyped, RelationsSent, ShortInv, PackRelation PROVE ShortInv'
<1> DEFINE selected == start + 1 .. at
<1>1. /\ phase = "relations" /\ phase' = "relations" /\ at < Len(rows) /\ at' = at + 1
      /\ rows' = rows /\ current' = selected /\ UNCHANGED <<q, retrieved>>
      /\ IF SizeOf(selected) > MaxTokens
         THEN prompts' = Append(prompts, <<"relations", current, SizeOf(current)>>) /\ start' = at + 1
         ELSE UNCHANGED <<prompts, start>>
  BY DEF PackRelation, Holding
<1>2. /\ rows \in Seq(Nat) /\ at \in Nat /\ start \in 0 .. at /\ MaxTokens \in Nat
      /\ selected \in SUBSET (1 .. Len(rows)) /\ SizeOf(selected) \in Nat /\ SizeOf(current) \in Nat
      /\ current \in SUBSET Nat
  <2>1. rows \in Seq(Nat) /\ at \in 0 .. Len(rows) /\ current \subseteq 1 .. at /\ start \in 0 .. at
    BY <1>1 DEF RowsTyped, RelationsSent, Packing
  <2>2. selected \in SUBSET (1 .. Len(rows)) /\ current \in SUBSET (1 .. Len(rows))
    BY <2>1
  <2>3. SizeOf(selected) \in Nat /\ SizeOf(current) \in Nat
    BY <2>1, <2>2, SizeGrows
  <2> QED
    BY <2>1, <2>2, <2>3, PromptAssumption
<1>3. SizeOf(current)' = SizeOf(selected)
  BY <1>1, SizeIsSum, SizeIsSumNext
<1>4. SizeOf(selected) > MaxTokens => start < at /\ at \in selected
  <2> SUFFICES ASSUME start = at PROVE ~ (SizeOf(selected) > MaxTokens)
    BY <1>2
  <2>1. selected = {}
    BY <1>2
  <2> QED
    BY <1>2, <2>1, NoRowsNoSize
<1>5. HandFits'
  <2>1. Len(rows') = Cardinality(retrieved'.relations)
    BY <1>1 DEF ShortInv, HandFits
  <2>2. at' - 1 = at /\ at' # 0 /\ (SizeOf(selected) > MaxTokens => ~ (start' < at'))
    BY <1>1, <1>2
  <2> HIDE DEF selected
  <2>3. start' < at' \/ at' = 0 => SizeOf(current)' <= MaxTokens
    BY <1>2, <1>3, <2>2
  <2>4. SizeOf(current)' <= MaxTokens \/ at' - 1 \in current'
    BY <1>1, <1>2, <1>3, <1>4, <2>2
  <2> QED
    BY <1>1, <2>1, <2>3, <2>4 DEF HandFits
<1>6. prompts' \in Seq(Prompt) /\ PromptsFit'
  <2>1. CASE SizeOf(selected) > MaxTokens
    <3> DEFINE made == <<"relations", current, SizeOf(current)>>
    <3>1. SizeOf(current) <= MaxTokens
      BY <1>1, <1>4, <2>1 DEF ShortInv, HandFits
    <3>2. made \in Prompt /\ Short(made)
      <4>1. SizeOf(current) \in Int /\ current \in SUBSET Nat
        BY <1>2
      <4>2. SizeOf(current) <= MaxTokens \/ Cardinality(retrieved.relations) - 1 \in current
        BY <3>1
      <4> QED
        BY <4>1, <4>2, RelationsMade
    <3>3. prompts' = Append(prompts, made)
      BY <1>1, <2>1
    <3> HIDE DEF made, selected
    <3> QED
      BY <1>1, <3>2, <3>3, OneMoreShort
  <2>2. CASE ~ (SizeOf(selected) > MaxTokens)
    BY <1>1, <2>2, SameShort
  <2> QED
    BY <2>1, <2>2
<1> QED
  BY <1>5, <1>6 DEF ShortInv

LEMMA RelationsPackedFits == ASSUME FromIndex, RowsTyped, ShortInv, RelationsPacked PROVE ShortInv'
<1>1. /\ phase = "relations" /\ at = Len(rows) /\ Begin("communities") /\ UNCHANGED <<q, retrieved>>
      /\ prompts' \in {LlmFirst, Append(prompts, <<"relations", current, SizeOf(current)>>)}
  BY DEF RelationsPacked, Holding
<1>2. HandFits'
  BY <1>1, BegunFits DEF Packing
<1> DEFINE made == <<"relations", current, SizeOf(current)>>
<1>3. made \in Prompt /\ Short(made)
  <2>1. SizeOf(current) \in Int /\ current \in SUBSET Nat
    <3>1. phase \in Packing
      BY <1>1 DEF Packing
    <3> QED
      BY <3>1, HandSize DEF RowsTyped
  <2>2. SizeOf(current) <= MaxTokens \/ Cardinality(retrieved.relations) - 1 \in current
    BY <1>1 DEF ShortInv, HandFits
  <2> QED
    BY <2>1, <2>2, RelationsMade
<1>4. CASE prompts' = LlmFirst
  BY <1>1, <1>2, <1>4, LlmFirstIsPrompts, LlmFirstIsShort, AllShort DEF ShortInv
<1>5. CASE prompts' = Append(prompts, made)
  <2> HIDE DEF made
  <2> QED
    BY <1>1, <1>2, <1>3, <1>5, OneMoreShort DEF ShortInv
<1> QED
  BY <1>1, <1>4, <1>5

LEMMA PackCommunityFits == ASSUME FromIndex, RowsTyped, ShortInv, PackCommunity PROVE ShortInv'
<1>1. /\ phase = "communities" /\ phase' = "communities" /\ at < Len(rows) /\ at' = at + 1
      /\ rows' = rows /\ UNCHANGED <<q, retrieved>>
      /\ IF SizeOf(current) + rows[at + 1] > MaxTokens
         THEN prompts' = Append(prompts, <<"communities", current, SizeOf(current)>>) /\ current' = {at + 1}
         ELSE prompts' = prompts /\ current' = current \cup {at + 1}
  BY DEF PackCommunity, Holding
<1>2. phase \in Packing /\ MaxTokens \in Nat /\ SizeOf(current) \in Nat /\ current \in SUBSET Nat
  <2>1. phase \in Packing
    BY <1>1 DEF Packing
  <2> QED
    BY <2>1, HandSize DEF RowsTyped
<1>3. CASE SizeOf(current) + rows[at + 1] > MaxTokens
  <2> DEFINE made == <<"communities", current, SizeOf(current)>>
  <2>1. made \in Prompt /\ Short(made)
    <3>1. SizeOf(current) <= MaxTokens \/ Cardinality(current) = 1
      BY <1>1 DEF ShortInv, HandFits
    <3>2. SizeOf(current) \in Int /\ current \in SUBSET Nat
      BY <1>2
    <3> QED
      BY <3>1, <3>2, CommunitiesMade
  <2>2. prompts' = Append(prompts, made) /\ current' = {at + 1}
    BY <1>1, <1>3
  <2>3. HandFits'
    <3>1. Cardinality({at + 1}) = 1
      BY FS_Singleton
    <3> QED
      BY <1>1, <2>2, <3>1 DEF HandFits
  <2> HIDE DEF made
  <2> QED
    BY <1>1, <2>1, <2>2, <2>3, OneMoreShort DEF ShortInv
<1>4. CASE ~ (SizeOf(current) + rows[at + 1] > MaxTokens)
  <2>1. prompts' = prompts /\ current' = current \cup {at + 1}
    BY <1>1, <1>4
  <2>2. SizeOf(current)' = rows[at + 1] + SizeOf(current) /\ rows[at + 1] \in Nat
    BY <1>1, <1>2, <2>1, OneMoreRow
  <2>3. SizeOf(current)' <= MaxTokens
    BY <1>2, <1>4, <2>2
  <2>4. HandFits'
    BY <1>1, <2>3 DEF HandFits
  <2> QED
    BY <1>1, <2>1, <2>4, SameShort DEF ShortInv
<1> QED
  BY <1>3, <1>4

LEMMA CommunitiesPackedFits ==
    ASSUME FromIndex, RowsTyped, ShortInv, CommunitiesPacked PROVE ShortInv'
<1>1. /\ phase = "communities" /\ UNCHANGED <<q, retrieved>>
      /\ Begin(IF q.direct THEN "direct" ELSE "chunks")
      /\ prompts' \in {prompts, Append(prompts, <<"communities", current, SizeOf(current)>>)}
  BY DEF CommunitiesPacked, Holding
<1>2. HandFits'
  BY <1>1, BegunFits DEF Packing
<1> DEFINE made == <<"communities", current, SizeOf(current)>>
<1>3. made \in Prompt /\ Short(made)
  <2>1. SizeOf(current) \in Int /\ current \in SUBSET Nat
    <3>1. phase \in Packing
      BY <1>1 DEF Packing
    <3> QED
      BY <3>1, HandSize DEF RowsTyped
  <2>2. SizeOf(current) <= MaxTokens \/ Cardinality(current) = 1
    BY <1>1 DEF ShortInv, HandFits
  <2> QED
    BY <2>1, <2>2, CommunitiesMade
<1>4. CASE prompts' = prompts
  BY <1>1, <1>2, <1>4, SameShort DEF ShortInv
<1>5. CASE prompts' = Append(prompts, made)
  <2> HIDE DEF made
  <2> QED
    BY <1>1, <1>2, <1>3, <1>5, OneMoreShort DEF ShortInv
<1> QED
  BY <1>1, <1>4, <1>5

LEMMA PackChunkFits == ASSUME FromIndex, RowsTyped, ShortInv, PackChunk PROVE ShortInv'
<1>1. /\ phase = "chunks" /\ phase' = "chunks" /\ at < Len(rows) /\ rows' = rows
      /\ UNCHANGED <<q, retrieved>>
      /\ \/ /\ Heading + SizeOf(current) + rows[at + 1] <= q.room
            /\ current' = current \cup {at + 1} /\ prompts' = prompts
         \/ /\ prompts' = Append(prompts, <<"chunks", {at + 1}, q.room>>) /\ current' = {}
         \/ /\ prompts' = Append(prompts, <<"chunks", current, Heading + SizeOf(current)>>)
            /\ current' = {}
  BY DEF PackChunk, Chunks
<1>2. /\ phase \in Packing /\ Heading \in Nat /\ SizeOf(current) \in Nat /\ current \in SUBSET Nat
      /\ q.room \in Int /\ Heading + SizeOf(current) \in Int /\ at + 1 \in Nat
  <2>1. phase \in Packing
    BY <1>1 DEF Packing
  <2> QED
    BY <2>1, HandSize DEF RowsTyped
<1>3. CASE /\ Heading + SizeOf(current) + rows[at + 1] <= q.room
           /\ current' = current \cup {at + 1} /\ prompts' = prompts
  <2>1. SizeOf(current)' = rows[at + 1] + SizeOf(current) /\ rows[at + 1] \in Nat
    BY <1>1, <1>2, <1>3, OneMoreRow
  <2>2. Heading + SizeOf(current)' <= q.room
    BY <1>2, <1>3, <2>1
  <2>3. HandFits'
    BY <1>1, <2>2 DEF HandFits
  <2> QED
    BY <1>1, <1>3, <2>3, SameShort DEF ShortInv
<1>4. current' = {} => HandFits'
  BY <1>1 DEF HandFits
<1>5. CASE prompts' = Append(prompts, <<"chunks", {at + 1}, q.room>>) /\ current' = {}
  <2> DEFINE made == <<"chunks", {at + 1}, q.room>>
  <2>1. made \in Prompt /\ Short(made)
    <3>1. q.room \in Int /\ {at + 1} \in SUBSET Nat
      BY <1>2
    <3>2. q.room <= q.room \/ {at + 1} = {}
      BY <1>2
    <3> QED
      BY <3>1, <3>2, ChunksMade
  <2>2. prompts' = Append(prompts, made)
    BY <1>5
  <2> HIDE DEF made
  <2> QED
    BY <1>1, <1>4, <1>5, <2>1, <2>2, OneMoreShort DEF ShortInv
<1>6. CASE prompts' = Append(prompts, <<"chunks", current, Heading + SizeOf(current)>>) /\ current' = {}
  <2> DEFINE made == <<"chunks", current, Heading + SizeOf(current)>>
  <2>1. made \in Prompt /\ Short(made)
    <3>1. Heading + SizeOf(current) <= q.room \/ current = {}
      BY <1>1 DEF ShortInv, HandFits
    <3>2. Heading + SizeOf(current) \in Int /\ current \in SUBSET Nat
      BY <1>2
    <3> QED
      BY <3>1, <3>2, ChunksMade
  <2>2. prompts' = Append(prompts, made)
    BY <1>6
  <2> HIDE DEF made
  <2> QED
    BY <1>1, <1>4, <1>6, <2>1, <2>2, OneMoreShort DEF ShortInv
<1> QED
  BY <1>1, <1>3, <1>5, <1>6

\* A piece of a sequence holds some of it.
LEMMA PieceOf ==
    ASSUME NEW S, NEW ps \in Seq(S), NEW a \in 1 .. Len(ps) + 1, NEW b \in 0 .. Len(ps)
    PROVE  /\ SubSeq(ps, a, b) \in Seq(S)
           /\ \A n \in DOMAIN SubSeq(ps, a, b) : \E m \in DOMAIN ps : SubSeq(ps, a, b)[n] = ps[m]
<1>1. a \in Int /\ b \in Int /\ Len(ps) \in Nat /\ DOMAIN ps = 1 .. Len(ps) /\ \A m \in DOMAIN ps : ps[m] \in S
  OBVIOUS
<1>2. CASE a <= b
  <2>1. SubSeq(ps, a, b) = [n \in 1 .. b - a + 1 |-> ps[a + n - 1]]
    BY <1>1, <1>2
  <2>2. \A n \in 1 .. b - a + 1 : a + n - 1 \in DOMAIN ps
    BY <1>1, <1>2
  <2>3. b - a + 1 \in Nat
    BY <1>1, <1>2
  <2> QED
    BY <1>1, <2>1, <2>2, <2>3
<1>3. CASE b < a
  <2>1. SubSeq(ps, a, b) = <<>>
    BY <1>1, <1>3
  <2> QED
    BY <2>1
<1> QED
  BY <1>1, <1>2, <1>3

\* What two sequences hold, one of them put behind the other.
LEMMA BothOf ==
    ASSUME NEW S, NEW xs \in Seq(S), NEW ys \in Seq(S)
    PROVE  /\ xs \o ys \in Seq(S)
           /\ \A n \in DOMAIN (xs \o ys) :
                 \/ \E m \in DOMAIN xs : (xs \o ys)[n] = xs[m]
                 \/ \E m \in DOMAIN ys : (xs \o ys)[n] = ys[m]
<1>1. Len(xs) \in Nat /\ Len(ys) \in Nat /\ Len(xs \o ys) = Len(xs) + Len(ys) /\ xs \o ys \in Seq(S)
  OBVIOUS
<1> SUFFICES ASSUME NEW n \in 1 .. Len(xs) + Len(ys)
             PROVE  \/ \E m \in DOMAIN xs : (xs \o ys)[n] = xs[m]
                    \/ \E m \in DOMAIN ys : (xs \o ys)[n] = ys[m]
  BY <1>1
<1>2. CASE n <= Len(xs)
  BY <1>1, <1>2
<1>3. CASE n > Len(xs)
  <2>1. (xs \o ys)[n] = ys[n - Len(xs)] /\ n - Len(xs) \in 1 .. Len(ys)
    BY <1>1, <1>3
  <2> QED
    BY <2>1
<1> QED
  BY <1>1, <1>2, <1>3

\* Pieces of the prompts, one behind the other, are as short.
LEMMA PiecesAreShort ==
    ASSUME NEW ps \in Seq(Prompt), \A n \in DOMAIN ps : Short(ps[n]),
           NEW a \in 1 .. Len(ps) + 1, NEW b \in 0 .. Len(ps),
           NEW c \in 1 .. Len(ps) + 1, NEW d \in 0 .. Len(ps)
    PROVE  LET cs == SubSeq(ps, a, b) \o SubSeq(ps, c, d) IN
           cs \in Seq(Prompt) /\ \A n \in DOMAIN cs : Short(cs[n])
<1> DEFINE xs == SubSeq(ps, a, b)
           ys == SubSeq(ps, c, d)
<1>1. xs \in Seq(Prompt) /\ \A n \in DOMAIN xs : \E m \in DOMAIN ps : xs[n] = ps[m]
  BY PieceOf
<1>2. ys \in Seq(Prompt) /\ \A n \in DOMAIN ys : \E m \in DOMAIN ps : ys[n] = ps[m]
  BY PieceOf
<1> HIDE DEF xs, ys
<1> DEFINE cs == xs \o ys
<1>3. cs \in Seq(Prompt)
      /\ \A n \in DOMAIN cs :
            (\E m \in DOMAIN xs : cs[n] = xs[m]) \/ (\E m \in DOMAIN ys : cs[n] = ys[m])
  BY <1>1, <1>2, BothOf
<1> HIDE DEF cs
<1>4. ASSUME NEW n \in DOMAIN cs PROVE Short(cs[n])
  <2>1. PICK m \in DOMAIN ps : cs[n] = ps[m]
    BY <1>1, <1>2, <1>3
  <2> QED
    BY <2>1
<1> QED
  BY <1>3, <1>4 DEF cs, xs, ys

LEMMA HowManyType ==
    ASSUME prompts \in Seq(Prompt), NEW what PROVE HowMany(what) \in 0 .. Len(prompts)
<1>1. Len(prompts) \in Nat /\ DOMAIN prompts = 1 .. Len(prompts)
  OBVIOUS
<1> DEFINE l == Len(prompts)
<1>2. IsFiniteSet(1 .. l) /\ Cardinality(1 .. l) = l
  <2>1. l \in Nat
    BY <1>1
  <2> HIDE DEF l
  <2> QED
    BY <2>1, FS_Interval
<1>3. {n \in DOMAIN prompts : prompts[n][1] = what} \in SUBSET (1 .. l)
  BY <1>1
<1>4. HowMany(what) \in Nat /\ HowMany(what) <= l
  BY <1>2, <1>3, FS_Subset, FS_CardinalityType DEF HowMany
<1> QED
  BY <1>1, <1>4

LEMMA ChunksPackedFits == ASSUME FromIndex, RowsTyped, ShortInv, ChunksPacked PROVE ShortInv'
<1> DEFINE made == <<"chunks", current, Heading + SizeOf(current)>>
           all == IF q.topkChunk = 0 THEN prompts ELSE Append(prompts, made)
           others == Len(prompts) - HowMany("chunks")
<1>1. /\ phase = "chunks" /\ UNCHANGED <<q, retrieved>> /\ Begin("map")
      /\ prompts' = SubSeq(all, others + 1, Len(all)) \o SubSeq(all, 1, others)
  BY DEF ChunksPacked, Chunks
<1>2. HandFits'
  BY <1>1, BegunFits DEF Packing
<1>3. made \in Prompt /\ Short(made)
  <2>1. phase \in Packing
    BY <1>1 DEF Packing
  <2>2. Heading + SizeOf(current) \in Int /\ current \in SUBSET Nat
    BY <2>1, HandSize DEF RowsTyped
  <2>3. Heading + SizeOf(current) <= q.room \/ current = {}
    BY <1>1 DEF ShortInv, HandFits
  <2> QED
    BY <2>2, <2>3, ChunksMade
<1>4. prompts \in Seq(Prompt) /\ \A n \in DOMAIN prompts : Short(prompts[n])
  BY FitIsShort DEF ShortInv
<1> HIDE DEF made
<1>5. all \in Seq(Prompt) /\ (\A n \in DOMAIN all : Short(all[n])) /\ Len(all) >= Len(prompts)
  BY <1>3, <1>4, OneMorePrompt
<1>6. others \in 0 .. Len(prompts)
  <2>1. HowMany("chunks") \in 0 .. Len(prompts)
    BY <1>4, HowManyType
  <2> QED
    BY <2>1, <1>4
<1>7. others + 1 \in 1 .. Len(all) + 1 /\ Len(all) \in 0 .. Len(all) /\ others \in 0 .. Len(all)
  <2>1. Len(all) \in Nat /\ Len(prompts) \in Nat
    BY <1>4, <1>5
  <2> HIDE DEF all, others
  <2> QED
    BY <1>5, <1>6, <2>1
<1> HIDE DEF all, others
<1>8. 1 \in 1 .. Len(all) + 1
  BY <1>7
<1>9. prompts' \in Seq(Prompt) /\ \A n \in DOMAIN prompts' : Short(prompts'[n])
  BY <1>1, <1>5, <1>7, <1>8, PiecesAreShort
<1> QED
  BY <1>1, <1>2, <1>9, AllShort DEF ShortInv

LEMMA TakeFirstFits == ASSUME ShortInv, TakeFirst PROVE ShortInv'
<1> DEFINE some == HowMany("relations")
           one == SmallerOf(1, some)
           next == SmallerOf(some + 1, Len(prompts))
<1>1. /\ phase' = "answer" /\ UNCHANGED <<q, retrieved>>
      /\ prompts' = SubSeq(prompts, 1, one) \o SubSeq(prompts, some + 1, next)
  BY DEF TakeFirst
<1>2. HandFits'
  BY <1>1, NotPackedFits DEF Packing
<1>3. prompts \in Seq(Prompt) /\ \A n \in DOMAIN prompts : Short(prompts[n])
  BY FitIsShort DEF ShortInv
<1>4. Len(prompts) \in Nat /\ some \in 0 .. Len(prompts)
  BY <1>3, HowManyType
<1>5. one \in 0 .. Len(prompts) /\ next \in 0 .. Len(prompts) /\ some + 1 \in 1 .. Len(prompts) + 1
  BY <1>4 DEF SmallerOf
<1> HIDE DEF some, one, next
<1>6. 1 \in 1 .. Len(prompts) + 1
  BY <1>4
<1>7. prompts' \in Seq(Prompt) /\ \A n \in DOMAIN prompts' : Short(prompts'[n])
  BY <1>1, <1>3, <1>5, <1>6, PiecesAreShort
<1> QED
  BY <1>1, <1>2, <1>7, AllShort DEF ShortInv

--------------------------------------------------------------------------------
\* The inductive invariant: of the relations only a last context may be too long, and what
\* is sent and what is in hand are as long as the code takes them to be.
Retrieving ==
    {"strategy", "reason", "share", "adjust", "search", "select", "refine", "collect", "retrieved"}
NotAskedYet == phase \in Retrieving => prompts = <<>>

LEMMA RetrievalOnly == ASSUME RetrievalNext PROVE phase \in Retrieving
  BY DEF RetrievalNext, EmbeddingRaises, FixedShares, PriorWeights, StartReasoning, AskLevels, Weigh,
         ReasoningRaises, RoundShares, SharesRaise, Adjust, Adjusted, SearchLevel, SearchRaises,
         Paths, Select, Refine, Collect, Retrieving

LEMMA InferenceOnly == ASSUME Inference PROVE phase' \notin Retrieving
<1>1. CASE AskFirst \/ PackRelation \/ RelationsPacked \/ PackCommunity
  BY <1>1 DEF AskFirst, PackRelation, RelationsPacked, PackCommunity, Begin, Retrieving
<1>2. CASE CommunitiesPacked
  BY <1>2 DEF CommunitiesPacked, Begin, Retrieving
<1>3. CASE PackChunk \/ ChunksPacked \/ TakeFirst
  BY <1>3 DEF PackChunk, ChunksPacked, TakeFirst, Begin, Retrieving
<1>4. CASE CallRaises \/ ReduceRaises
  BY <1>4 DEF CallRaises, ReduceRaises, Raise, Retrieving
<1>5. CASE MapCall \/ Reduce \/ Caught
  BY <1>5 DEF MapCall, Reduce, Caught, Retrieving
<1>6. CASE Answer
  BY <1>6 DEF Answer, Retrieving
<1> QED
  BY <1>1, <1>2, <1>3, <1>4, <1>5, <1>6 DEF Inference

LEMMA NoPromptsFit == ASSUME prompts' = <<>>, phase' \notin Packing PROVE ShortInv'
<1>1. prompts' \in Seq(Prompt) /\ PromptsFit'
  BY DEF PromptsFit
<1> QED
  BY <1>1, NotPackedFits DEF ShortInv

LEMMA OnlyRelationsSend == ASSUME phase' # "relations" PROVE RelationsSent'
  BY DEF RelationsSent

LEMMA AskFirstSends == ASSUME AskFirst PROVE RelationsSent'
<1>1. phase' = "relations" /\ at' = 0 /\ start' = 0 /\ current' = {} /\ prompts' = LlmFirst
  BY DEF AskFirst, Begin
<1>2. \A n \in DOMAIN prompts' : prompts'[n][1] # "relations"
  BY <1>1, LlmFirstIsPrompts
<1> QED
  BY <1>1, <1>2 DEF RelationsSent

\* Nothing that a step leaves alone changes.
LEMMA SizeInvStays == ASSUME SizeInv, UNCHANGED vars PROVE SizeInv'
<1>1. UNCHANGED <<phase, q, retrieved, rows, at, start, current, prompts>>
  BY DEF vars, retrieval, packing
<1>2. /\ SizeOf(1 .. start - 1)' = SizeOf(1 .. start - 1)
      /\ SizeOf(current)' = SizeOf(current)
  BY <1>1, SizeIsSum, SizeIsSumNext
<1>3. RelationsSent'
  BY <1>1, <1>2 DEF SizeInv, RelationsSent
<1>4. HandFits'
  BY <1>1, <1>2 DEF SizeInv, ShortInv, HandFits
<1>5. prompts' \in Seq(Prompt) /\ PromptsFit'
  BY <1>1, SameShort DEF SizeInv
<1> QED
  BY <1>3, <1>4, <1>5 DEF SizeInv, ShortInv

THEOREM SizeInvariant == Spec => []SizeInv
<1>1. ASSUME Init PROVE SizeInv /\ NotAskedYet
  <2>1. phase = "strategy" /\ prompts = <<>>
    BY <1>1 DEF Init, RetrievalInit
  <2>2. prompts \in Seq(Prompt) /\ PromptsFit
    BY <2>1 DEF PromptsFit
  <2> QED
    BY <2>1, <2>2 DEF SizeInv, ShortInv, RelationsSent, HandFits, NotAskedYet
<1>2. ASSUME FromIndex, RowsTyped, PackInv, SizeInv, NotAskedYet, [Next]_vars
      PROVE  SizeInv' /\ NotAskedYet'
  <2>0. RelationsSent /\ ShortInv
    BY <1>2 DEF SizeInv
  <2>1. CASE UNCHANGED vars
    BY <1>2, <2>1, SizeInvStays DEF NotAskedYet, vars, retrieval
  <2>2. CASE Retrieve
    <3>1. prompts' = <<>> /\ phase' \notin Packing
      BY <1>2, <2>2, RetrievalOnly, RetrievalElsewhere DEF Retrieve, NotAskedYet
    <3> QED
      BY <3>1, NoPromptsFit, OnlyRelationsSend DEF SizeInv, NotAskedYet, Packing
  <2>3. CASE Inference
    <3>1. NotAskedYet'
      BY <2>3, InferenceOnly DEF NotAskedYet
    <3>2. CASE AskFirst
      BY <1>2, <2>0, <3>1, <3>2, AskFirstFits, AskFirstSends DEF SizeInv
    <3>3. CASE PackRelation
      BY <1>2, <2>0, <3>1, <3>3, PackRelationFits, PackRelationSends DEF SizeInv
    <3>4. CASE RelationsPacked
      <4>1. phase' # "relations"
        BY <3>4 DEF RelationsPacked, Begin
      <4> QED
        BY <1>2, <2>0, <3>1, <3>4, <4>1, RelationsPackedFits, OnlyRelationsSend DEF SizeInv
    <3>5. CASE PackCommunity
      <4>1. phase' # "relations"
        BY <3>5 DEF PackCommunity
      <4> QED
        BY <1>2, <2>0, <3>1, <3>5, <4>1, PackCommunityFits, OnlyRelationsSend DEF SizeInv
    <3>6. CASE CommunitiesPacked
      <4>1. phase' # "relations"
        BY <3>6 DEF CommunitiesPacked, Begin
      <4> QED
        BY <1>2, <2>0, <3>1, <3>6, <4>1, CommunitiesPackedFits, OnlyRelationsSend DEF SizeInv
    <3>7. CASE PackChunk
      <4>1. phase' # "relations"
        BY <3>7 DEF PackChunk
      <4> QED
        BY <1>2, <2>0, <3>1, <3>7, <4>1, PackChunkFits, OnlyRelationsSend DEF SizeInv
    <3>8. CASE ChunksPacked \/ TakeFirst
      <4>1. phase' # "relations"
        BY <3>8, LaterElsewhere DEF Packing
      <4> QED
        BY <1>2, <2>0, <3>1, <3>8, <4>1, ChunksPackedFits, TakeFirstFits, OnlyRelationsSend DEF SizeInv
    <3>9. CASE CallRaises \/ MapCall \/ Reduce \/ ReduceRaises \/ Answer \/ Caught
      <4>1. phase' \notin Packing /\ phase' # "relations"
        BY <3>9, LaterElsewhere DEF Packing
      <4>2. UNCHANGED <<q, retrieved, prompts>>
        BY <3>9 DEF CallRaises, MapCall, Reduce, ReduceRaises, Answer, Caught
      <4> QED
        BY <2>0, <3>1, <4>1, <4>2, SameShort, NotPackedFits, OnlyRelationsSend DEF SizeInv, ShortInv
    <3> QED
      BY <2>3, <3>2, <3>3, <3>4, <3>5, <3>6, <3>7, <3>8, <3>9 DEF Inference
  <2> QED
    BY <1>2, <2>1, <2>2, <2>3 DEF Next
<1> QED
  BY <1>1, <1>2, RowsInvariant, PackingInvariant, PTL DEF Spec

\* Only a last prompt that is too long may repeat relations, and the only way to lose more
\* than the last relation is a context that was too long.
THEOREM RelationsSentOnce == Spec => []RelationsAtMostOnce
<1>1. ASSUME PackInv, RowsTyped, SizeInv, phase = "relations", NEW row \in 1 .. at
      PROVE  Cardinality(HeldBy("relations", row)) <= 1
  <2>1. \A m, n \in HeldBy("relations", row) : m = n
    BY <1>1 DEF SizeInv, RelationsSent, HeldBy
  <2>2. HeldBy("relations", row) = {} \/ \E n : HeldBy("relations", row) = {n}
    BY <2>1
  <2> QED
    BY <2>2, FS_EmptySet, FS_Singleton
<1>2. ASSUME PackInv, RowsTyped, SizeInv, phase = "relations", at = Len(rows), SizeOf(1 .. at - 1) <= MaxTokens
      PROVE  current = 1 .. at - 1
  <2>1. /\ rows \in Seq(Nat) /\ at \in Nat /\ start \in Nat /\ start <= at /\ MaxTokens \in Nat
        /\ at = 0 => current = {}
        /\ start < at => current = start + 1 .. at - 1
        /\ start # 0 => SizeOf(1 .. start - 1) > MaxTokens
    BY <1>2, PromptAssumption DEF SizeInv, RelationsSent, RowsTyped, Packing
  <2>2. start = 0
    <3>1. 1 .. at - 1 \in SUBSET (1 .. Len(rows)) /\ 1 .. start - 1 \in SUBSET (1 .. at - 1)
      BY <1>2, <2>1
    <3>2. SizeOf(1 .. start - 1) \in Nat /\ SizeOf(1 .. at - 1) \in Nat
          /\ SizeOf(1 .. start - 1) <= SizeOf(1 .. at - 1)
      BY <2>1, <3>1, SizeGrows
    <3> QED
      BY <1>2, <2>1, <3>2
  <2>3. CASE at = 0
    <3>1. 1 .. at - 1 = {}
      BY <2>3
    <3> QED
      BY <2>1, <2>3, <3>1
  <2>4. CASE at # 0
    <3>1. start + 1 = 1 /\ start < at
      BY <2>1, <2>2, <2>4
    <3> QED
      BY <2>1, <3>1
  <2> QED
    BY <2>3, <2>4
<1>3. ASSUME PackInv, RowsTyped, SizeInv, phase = "relations", SizeOf(current) <= MaxTokens, NEW row \in current
      PROVE  HeldBy("relations", row) = {}
  <2>1. /\ start \in 0 .. at
        /\ at = 0 => current = {}
        /\ start < at => current = start + 1 .. at - 1
        /\ start = at /\ at # 0 => ~ (SizeOf(current) <= MaxTokens)
        /\ \A n \in DOMAIN prompts : prompts[n][1] = "relations" => prompts[n][2] \subseteq 1 .. start
    BY <1>3 DEF SizeInv, RelationsSent
  <2>2. at \in Nat /\ start \in Nat /\ start <= at
    BY <1>3, <2>1 DEF PackInv, PackTyped, Packing
  <2>3. start < at
    BY <1>3, <2>1, <2>2
  <2>4. row \notin 1 .. start
    BY <1>3, <2>1, <2>3
  <2> QED
    BY <2>1, <2>4 DEF HeldBy
<1>4. PackInv /\ RowsTyped /\ SizeInv => RelationsAtMostOnce
  BY <1>1, <1>2, <1>3 DEF RelationsAtMostOnce
<1> QED
  BY <1>4, RowsInvariant, PackingInvariant, SizeInvariant, PTL

\* No prompt is too long, of whatever kind and for any sizes of rows and prompts, but for
\* the exceptions.
THEOREM EveryPromptFits == Spec => []PromptsFit
<1>1. SizeInv => PromptsFit
  BY DEF SizeInv, ShortInv
<1> QED
  BY <1>1, SizeInvariant, PTL
================================================================================
