------------------------------ MODULE AnswerQuery ------------------------------
(***************************************************************************)
(* hcarag() (src/src/inference.py): a question from the retrieval to the   *)
(* answer.  What was retrieved is packed row by row into prompts of a      *)
(* limited size; then either one call answers (direct), or each prompt is  *)
(* mapped to scored points, and one call reduces the best of them to an    *)
(* answer (client_reasoning.py).  process_question() of test_qa.py turns   *)
(* every exception into the answer "None".                                 *)
(*                                                                         *)
(* A row is its position in the table that is packed, and a text its size. *)
(***************************************************************************)
EXTENDS Retrieval, FiniteSetsExt

CONSTANTS
    MaxTokens,      \* args.max_tokens, less the heading of a table
    Heading,        \* tokens of the heading of the text chunks
    RowSize,        \* tokens of a community's or a relation's row, by its id
    ChunkSize,      \* tokens of the text chunks of the corpus
    ReduceRows,     \* points that fit into the reduce prompt
    InvolveLlm,     \* query_paras["involve_llm_res"]
    Scores,         \* scores of points that are numbers
    NoNumber,       \* any other score
    NoAnswer,       \* a point without an answer, whatever its score
    MaxPoints       \* bound: points all map calls of a question give

ASSUME PromptAssumption ==
    /\ {MaxTokens, Heading, ReduceRows, MaxPoints} \subseteq Nat
    /\ RowSize \in [Ids \cup Relations -> Nat] /\ ChunkSize \in Seq(Nat)
    /\ Scores \subseteq Nat /\ {NoNumber, NoAnswer} \cap Nat = {} /\ NoNumber # NoAnswer
    /\ InvolveLlm \in BOOLEAN

VARIABLES
    rows,      \* sizes of the rows being packed
    at,        \* rows packed so far
    start,     \* prep_e_r_content: rows before are done with
    current,   \* rows of the prompt being packed
    prompts,   \* all_chunks: <<what it holds, its rows, their tokens>>
    mapped,    \* prompts whose map call has returned
    tries,     \* retries of the call being made
    points,    \* points_data of all map calls: <<prompt, score>>
    context,   \* points in the reduce prompt
    pred       \* response_report["pred"]

packing == <<rows, at, start, current>>
calling == <<mapped, tries, points, context, pred>>
vars == <<retrieval, packing, prompts, calling>>

Init ==
    /\ RetrievalInit
    /\ rows = <<>> /\ at = 0 /\ start = 0 /\ current = {}
    /\ prompts = <<>>
    /\ mapped = 0 /\ tries = 0 /\ points = <<>> /\ context = {}
    /\ pred = "none yet"

Retrieve == RetrievalNext /\ UNCHANGED <<packing, prompts, calling>>

--------------------------------------------------------------------------------
(***************************************************************************)
(* Packing.  A table is packed from its first row to its last.             *)
(***************************************************************************)
SizeOf(some) == MapThenSumSet(LAMBDA i : rows[i], some)

Holding(what, some) == <<what, some, SizeOf(some)>>

\* the sizes of the rows of a set of ids, in the order of the ids
InOrder(ids, sizes) ==
    /\ DOMAIN sizes = 1 .. Cardinality(ids)
    /\ \E f \in [DOMAIN sizes -> ids] :
          /\ \A i, j \in DOMAIN sizes : i < j => f[i] < f[j]
          /\ sizes = [i \in DOMAIN sizes |-> RowSize[f[i]]]

Begin(what) == phase' = what /\ at' = 0 /\ start' = 0 /\ current' = {}
Sizes(ids) == {s \in [1 .. Cardinality(ids) -> {RowSize[v] : v \in ids}] : InOrder(ids, s)}

\* the answer of the language model alone, before anything else
LlmFirst == IF ~q.direct /\ InvolveLlm THEN << <<"llm", {}, 0>> >> ELSE <<>>

\* hcarag_inference_mr asks for it first
AskFirst ==
    /\ phase = "retrieved"
    /\ Begin("relations")
    /\ rows' \in Sizes(retrieved.relations)
    /\ prompts' = LlmFirst
    /\ UNCHANGED <<q, locals, retrieved, calling>>

\* faulty: the rows that overflowed stay in the context
PackRelationKeepsStart ==
    /\ phase = "relations"
    /\ at < Len(rows)
    /\ LET selected == start + 1 .. at IN
       /\ current' = selected
       /\ prompts' = IF SizeOf(selected) > MaxTokens
                     THEN Append(prompts, Holding("relations", current)) ELSE prompts
       /\ start' = start
    /\ at' = at + 1
    /\ UNCHANGED <<phase, q, locals, retrieved, rows, calling>>

\* prep_e_r_content: the row at hand is not selected yet; after an overflow the next
\* row drops the context that was too long, and with it the row that did not fit
PackRelation ==
    /\ phase = "relations"
    /\ at < Len(rows)
    /\ LET selected == start + 1 .. at IN
       /\ current' = selected
       /\ IF SizeOf(selected) > MaxTokens
          THEN prompts' = Append(prompts, Holding("relations", current)) /\ start' = at + 1
          ELSE UNCHANGED <<prompts, start>>
    /\ at' = at + 1
    /\ UNCHANGED <<phase, q, locals, retrieved, rows, calling>>

\* without an entity there is no such prompt, without a relation there is one
RelationsPacked ==
    /\ phase = "relations"
    /\ at = Len(rows)
    /\ prompts' = IF retrieved.entities = {} THEN LlmFirst
                  ELSE Append(prompts, Holding("relations", current))
    /\ Begin("communities")
    /\ rows' \in Sizes(retrieved.communities)
    /\ UNCHANGED <<q, locals, retrieved, calling>>

\* faulty: the row that does not fit any more is left out
PackCommunityDrops ==
    /\ phase = "communities"
    /\ at < Len(rows)
    /\ IF SizeOf(current) + rows[at + 1] > MaxTokens
       THEN prompts' = Append(prompts, Holding("communities", current)) /\ current' = {}
       ELSE prompts' = prompts /\ current' = current \cup {at + 1}
    /\ at' = at + 1
    /\ UNCHANGED <<phase, q, locals, retrieved, rows, start, calling>>

\* faulty: the size of the row itself is not counted
PackCommunityLate ==
    /\ phase = "communities"
    /\ at < Len(rows)
    /\ IF SizeOf(current) > MaxTokens
       THEN prompts' = Append(prompts, Holding("communities", current)) /\ current' = {at + 1}
       ELSE prompts' = prompts /\ current' = current \cup {at + 1}
    /\ at' = at + 1
    /\ UNCHANGED <<phase, q, locals, retrieved, rows, start, calling>>

\* prep_community_content; a first row that is too long leaves an empty prompt behind
PackCommunity ==
    /\ phase = "communities"
    /\ at < Len(rows)
    /\ IF SizeOf(current) + rows[at + 1] > MaxTokens
       THEN prompts' = Append(prompts, Holding("communities", current)) /\ current' = {at + 1}
       ELSE prompts' = prompts /\ current' = current \cup {at + 1}
    /\ at' = at + 1
    /\ UNCHANGED <<phase, q, locals, retrieved, rows, start, calling>>

CommunitiesPacked ==
    /\ phase = "communities"
    /\ at = Len(rows)
    /\ prompts' = IF current = {} THEN prompts ELSE Append(prompts, Holding("communities", current))
    /\ Begin(IF q.direct THEN "direct" ELSE "chunks")
    /\ rows' = IF q.direct THEN <<>>
               ELSE SubSeq(ChunkSize, 1, SmallerOf(q.topkChunk, Len(ChunkSize)))
    /\ UNCHANGED <<q, locals, retrieved, calling>>

Chunks(some) == <<"chunks", some, Heading + SizeOf(some)>>

\* prep_df_prompt_content: a row that does not fit waits for the next prompt; alone
\* in a prompt it is cut to what there is room for.  If the frame alone is too long
\* nothing is short enough, and the loop that cuts (line 469) never ends: no step.
PackChunk ==
    /\ phase = "chunks"
    /\ at < Len(rows)
    /\ IF Heading + SizeOf(current) + rows[at + 1] <= q.room
       THEN current' = current \cup {at + 1} /\ at' = at + 1 /\ prompts' = prompts
       ELSE /\ current' = {}
            /\ IF current = {}
               THEN /\ q.room >= 0
                    /\ prompts' = Append(prompts, <<"chunks", {at + 1}, q.room>>)
                    /\ at' = at + 1
               ELSE prompts' = Append(prompts, Chunks(current)) /\ at' = at
    /\ UNCHANGED <<phase, q, locals, retrieved, rows, start, calling>>

HowMany(what) == Cardinality({n \in DOMAIN prompts : prompts[n][1] = what})

\* the last prompt is there even if it is empty; those with chunks go first
ChunksPacked ==
    /\ phase = "chunks"
    /\ at = Len(rows)
    /\ LET all == IF q.topkChunk = 0 THEN prompts ELSE Append(prompts, Chunks(current))
           others == Len(prompts) - HowMany("chunks")
       IN prompts' = SubSeq(all, others + 1, Len(all)) \o SubSeq(all, 1, others)
    /\ Begin("map")
    /\ rows' = <<>>
    /\ UNCHANGED <<q, locals, retrieved, calling>>

\* prep_infer_content: the first prompt of relations and the first of communities
TakeFirst ==
    /\ phase = "direct"
    /\ LET some == HowMany("relations") IN
       prompts' = SubSeq(prompts, 1, SmallerOf(1, some))
                      \o SubSeq(prompts, some + 1, SmallerOf(some + 1, Len(prompts)))
    /\ phase' = "answer"
    /\ UNCHANGED <<q, locals, retrieved, packing, calling>>

--------------------------------------------------------------------------------
(***************************************************************************)
(* Asking the language model.                                              *)
(***************************************************************************)
\* llm_invoker gives up, or an answer is nothing that can be taken apart
CallRaises ==
    /\ phase \in {"map", "answer"} \/ (phase = "retrieved" /\ ~q.direct)
    /\ Raise
    /\ UNCHANGED <<q, locals, retrieved, packing, prompts, calling>>

\* map_llm_worker: valid points are kept, also those of an answer that is given up
\* at a later point
MapCall ==
    /\ phase = "map"
    /\ mapped < Len(prompts)
    /\ \E new \in {<<>>} \cup {<<s>> : s \in Scores \cup {NoNumber, NoAnswer}}, valid \in BOOLEAN :
          /\ Len(points) + Len(new) <= MaxPoints
          /\ points' = points \o [i \in DOMAIN new |-> <<mapped + 1, new[i]>>]
          /\ LET some == \E i \in DOMAIN points' : points'[i][1] = mapped + 1
             IN  IF (valid /\ some) \/ tries + 1 = MaxRetries
                 THEN mapped' = mapped + 1 /\ tries' = 0
                 ELSE mapped' = mapped /\ tries' = tries + 1
    /\ UNCHANGED <<phase, q, locals, retrieved, packing, prompts, context, pred>>

\* prep_reduce_content: points with an answer and a positive score, the best first,
\* equal ones in the order of their prompts, as many as fit
Before(i, j) ==
    \/ points[i][2] > points[j][2]
    \/ points[i][2] = points[j][2] /\ i < j
Positive == {i \in DOMAIN points : points[i][2] \in Scores \ {0}}

Reduce ==
    /\ phase = "map"
    /\ mapped = Len(prompts)
    /\ \A i \in DOMAIN points : points[i][2] # NoNumber
    /\ context' = {i \in Positive : Cardinality({j \in Positive : Before(j, i)}) < ReduceRows}
    /\ phase' = "answer"
    /\ UNCHANGED <<q, locals, retrieved, packing, prompts, mapped, tries, points, pred>>

\* float() of a score that is no number, at a point that has an answer
ReduceRaises ==
    /\ phase = "map"
    /\ mapped = Len(prompts)
    /\ \E i \in DOMAIN points : points[i][2] = NoNumber
    /\ Raise
    /\ UNCHANGED <<q, locals, retrieved, packing, prompts, calling>>

\* reduce_inference, hcarag_inference_direct: until an answer can be extracted
Answer ==
    /\ phase = "answer"
    /\ \E found \in BOOLEAN :
          /\ tries' = tries + 1
          /\ pred' = IF found THEN "answer" ELSE "No answer found."
          /\ phase' = IF found \/ tries' = MaxRetries THEN "done" ELSE "answer"
    /\ UNCHANGED <<q, locals, retrieved, packing, prompts, mapped, points, context>>

\* faulty: process_question lets the exception through
CaughtNot == FALSE

\* process_question
Caught ==
    /\ phase = "raised"
    /\ pred' = "None"
    /\ phase' = "done"
    /\ UNCHANGED <<q, locals, retrieved, packing, prompts, mapped, tries, points, context>>

--------------------------------------------------------------------------------
Inference ==
    \/ AskFirst \/ PackRelation \/ RelationsPacked \/ PackCommunity \/ CommunitiesPacked
    \/ PackChunk \/ ChunksPacked \/ TakeFirst
    \/ CallRaises \/ MapCall \/ Reduce \/ ReduceRaises \/ Answer \/ Caught

Next == Retrieve \/ Inference

Spec == Init /\ [][Next]_vars

\* a question is answered by a process that goes on
FairSpec == Spec /\ WF_vars(Next)
--------------------------------------------------------------------------------
(***************************************************************************)
(* Properties.                                                             *)
(***************************************************************************)
HeldBy(what, row) == {n \in DOMAIN prompts : prompts[n][1] = what /\ row \in prompts[n][2]}

\* Communities and text chunks are packed without loss: of the rows done so far each
\* is in exactly one prompt, the one being packed included (a long row included).
PromptsCarryAll ==
    phase \in {"communities", "chunks"} =>
        \A row \in 1 .. at :
            IF row \in current THEN HeldBy(phase, row) = {}
            ELSE \E n \in DOMAIN prompts : HeldBy(phase, row) = {n}

\* prep_e_r_content loses relations, and its last prompt repeats them if the context
\* overflows at the last row, where nothing replaces it any more; but no other prompt
\* repeats any; and if all but the last relation fit into one prompt together, that one
\* is the only one that is lost.
RelationsAtMostOnce ==
    phase = "relations" =>
        /\ \A row \in 1 .. at : Cardinality(HeldBy("relations", row)) <= 1
        /\ SizeOf(current) <= MaxTokens => \A row \in current : HeldBy("relations", row) = {}
        /\ at = Len(rows) /\ SizeOf(1 .. at - 1) <= MaxTokens => current = 1 .. at - 1

\* What goes into a prompt is within args.max_tokens, in every prompt that is made:
\* relations, except for the context prep_e_r_content has in hand at its last relation;
\* communities, except for one that is too long alone; text chunks, for which the text
\* around them is counted too, except for a heading without a chunk.  (The text around
\* relations and communities is not counted by the code, and direct generation sends a
\* prompt of each in one.)
PromptsFit ==
    \A n \in DOMAIN prompts :
        LET made == prompts[n] IN
        /\ made[1] = "relations" =>
              made[3] <= MaxTokens \/ Cardinality(retrieved.relations) - 1 \in made[2]
        /\ made[1] = "communities" => made[3] <= MaxTokens \/ Cardinality(made[2]) = 1
        /\ made[1] = "chunks" => made[3] <= q.room \/ made[2] = {}

\* Every question ends, with an answer, with "No answer found." or with "None"; unless
\* it is so long that it leaves no room for text chunks (client_reasoning.py:529).
QuestionEnds ==
    (q.topkChunk > 0 /\ ~q.direct => q.room >= 0) => <>(phase = "done" /\ pred # "none yet")
================================================================================
