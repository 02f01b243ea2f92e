-------------------------- MODULE CapturePipeline --------------------------
(* One run of the capture graph (graphs/capture_graph.py): extract, pii,     *)
(* evaluate, embed, dedup, write, each reached only if the one before it     *)
(* left something. The language model, the embedding provider, Presidio and  *)
(* the database are external: their answers are chosen from everything the   *)
(* node handles. Scores and vectors carry the text they were computed for.   *)
EXTENDS Lists, SequencesExt

CONSTANTS
    Facts,              \* what a turn can state
    Recognised,         \* those in whose wording Presidio finds an entity (an SSN, a
                        \* phone number, ...) scored above the threshold
    Hedged,             \* those the heuristic score puts below the floor
    MaxProposed,        \* bound on the items a completion lists
    MaxCandidates,      \* CAPTURE_MAX_CANDIDATES_PER_TURN
    Attempts            \* 1 + the number of EMBED_RETRY_DELAYS

ASSUME PipelineAssumption ==
    /\ Recognised \subseteq Facts /\ Hedged \subseteq Facts
    /\ MaxProposed \in Nat /\ MaxCandidates \in Nat \ {0} /\ Attempts \in Nat \ {0}

Junk == "junk"                  \* an item that is neither text nor an object, or blank
Unscannable == <<"none", "unscannable">>    \* "[REDACTED_UNSCANNABLE]"

Raw(f) == <<f, "raw">>
Texts == (Facts \X {"raw", "redacted"}) \union {Unscannable}
Secret(text) == text \in Recognised \X {"raw"}

VARIABLES
    node,       \* the node about to run, or "end"
    cands,      \* Candidate list under the node's input key
    attempt,    \* embedding calls made
    answer,     \* history: how the last of them ended
    sent,       \* texts handed to a provider after extraction
    written,    \* candidates committed by write
    outcome     \* how the job ended

pipelineVars == <<node, cands, attempt, answer, sent, written, outcome>>

\* An answer is "gapped" when it has a vector but not the one of an earlier text.
Answers == {"none", "error", "list", "gapped"}

NODE_ORDER == <<"extract", "pii", "evaluate", "embed", "dedup", "write">>

Candidate == [text : Texts, confidence : {"none", "low", "high"},
              scoredFor : Texts \union {"nobody"}, vectorFor : Texts \union {"nobody"}]

NewCandidate(f) == [text |-> Raw(f), confidence |-> "none",
                    scoredFor |-> "nobody", vectorFor |-> "nobody"]

PipelineTypeOK ==
    /\ node \in Range(NODE_ORDER) \union {"end"}
    /\ cands \in Seq(Candidate) /\ Len(cands) <= MaxCandidates
    /\ attempt \in 0 .. Attempts /\ answer \in Answers
    /\ sent \subseteq Texts
    /\ written \in Seq(Candidate)
    /\ outcome \in {"running", "completed", "failed", "timeout"}

PipelineInit ==
    /\ node = "extract" /\ cands = <<>> /\ attempt = 0 /\ answer = "none"
    /\ sent = {} /\ written = <<>> /\ outcome = "running"

\* The conditional edges: the next node, or END with whatever there is.
Leave(output) ==
    /\ cands' = output
    /\ IF output = <<>>
       THEN node' = "end" /\ outcome' = "completed"
       ELSE /\ node' = NODE_ORDER[1 + CHOOSE k \in 1 .. 5 : NODE_ORDER[k] = node]
            /\ UNCHANGED outcome

\* A node raised, and run_capture with it.
Fail(how) == node' = "end" /\ outcome' = how /\ UNCHANGED cands

-----------------------------------------------------------------------------
Capped(n) == IF n < MaxCandidates THEN n ELSE MaxCandidates

\* extract_candidates: an empty turn, an error or an unreadable completion gives
\* no candidates; junk items are skipped; the rest is cut at the cap.
Extract ==
    /\ node = "extract"
    /\ \E items \in SeqOf(Facts \union {Junk}, MaxProposed) :
          \E pick \in Picks({k \in 1 .. Len(items) : items[k] # Junk}) :
             Leave([j \in 1 .. Capped(Len(pick)) |-> NewCandidate(items[pick[j]])])
    /\ UNCHANGED <<attempt, answer, sent, written>>

\* Mutant of Redactions: text passes when Presidio breaks.
RedactionsOpen(text) ==
    {text} \union (IF Secret(text) THEN {<<text[1], "redacted">>} ELSE {})

\* redact: text in which the analyzer finds nothing is kept as it is, recognised
\* entities are replaced, and a failure of the analyzer or of the anonymizer
\* replaces the whole text.
Redactions(text) ==
    {Unscannable, IF Secret(text) THEN <<text[1], "redacted">> ELSE text}

Pii ==
    /\ node = "pii"
    /\ \E texts \in [1 .. Len(cands) -> UNION {Redactions(c.text) : c \in Range(cands)}] :
          /\ \A k \in 1 .. Len(cands) : texts[k] \in Redactions(cands[k].text)
          /\ Leave([k \in 1 .. Len(cands) |-> [cands[k] EXCEPT !.text = texts[k]]])
    /\ UNCHANGED <<attempt, answer, sent, written>>

Heuristic(c) == IF c.text[1] \in Hedged THEN "low" ELSE "high"

\* score_candidates: the k-th score of a list of the right length, the heuristic
\* for a missing or unusable one or when there is no such list.
Scored(scores, k) ==
    IF scores = <<>> \/ scores[k].level = "missing"
    THEN [cands[k] EXCEPT !.confidence = Heuristic(cands[k]), !.scoredFor = cands[k].text]
    ELSE [cands[k] EXCEPT !.confidence = scores[k].level, !.scoredFor = scores[k].of]

\* evaluate_node: parse_scores accepts only a list as long as its input, so an
\* answer is either no list or one score per text sent; apply_confidence_floor.
Evaluate ==
    /\ node = "evaluate"
    /\ sent' = sent \union {c.text : c \in Range(cands)}
    /\ \E levels \in {<<>>} \union [1 .. Len(cands) -> {"low", "high", "missing"}] :
          LET scores == [k \in DOMAIN levels |-> [of |-> cands[k].text, level |-> levels[k]]]
          IN  \E pick \in Picks({k \in 1 .. Len(cands) : Scored(scores, k).confidence = "high"}) :
                 Leave([j \in DOMAIN pick |-> Scored(scores, pick[j])])
    /\ UNCHANGED <<attempt, answer, written>>

\* Mutant of Embedded: the surviving candidates are paired with the good vectors
\* in order.
EmbeddedInOrder(order, pick) ==
    [j \in DOMAIN pick |-> [cands[j] EXCEPT !.vectorFor = cands[order[pick[j]]].text]]

\* embed_candidates pairs by position: the k-th candidate gets the k-th vector, which
\* is that of the text order[k]. One whose vector is missing or of the wrong width is
\* not picked.
Embedded(order, pick) ==
    [j \in DOMAIN pick |->
        [cands[pick[j]] EXCEPT !.vectorFor = cands[order[pick[j]]].text]]

\* One call for the whole batch. The provider may leave out any of its entries;
\* llm.config.embed sorts what there is by `index` and drops the indexes.
EmbedOk ==
    /\ node = "embed" /\ attempt < Attempts
    /\ attempt' = attempt + 1
    /\ sent' = sent \union {c.text : c \in Range(cands)}
    /\ \E present \in SUBSET (1 .. Len(cands)) :
          /\ answer' = IF present = 1 .. Cardinality(present) THEN "list" ELSE "gapped"
          /\ \E order \in Picks(present), good \in SUBSET (1 .. Cardinality(present)) :
                \E pick \in Picks(good) : Leave(Embedded(order, pick))
    /\ UNCHANGED written

\* Mutant of EmbedError: giving up looks like having nothing to embed.
EmbedErrorSilent ==
    /\ node = "embed" /\ attempt < Attempts
    /\ attempt' = attempt + 1 /\ answer' = "error"
    /\ sent' = sent \union {c.text : c \in Range(cands)}
    /\ \/ attempt' < Attempts /\ UNCHANGED <<node, cands, outcome>>
       \/ Leave(<<>>)
    /\ UNCHANGED written

\* A throttled or transient error waits and tries again while there are delays
\* left; any other error, or the last, raises EmbeddingUnavailable.
EmbedError ==
    /\ node = "embed" /\ attempt < Attempts
    /\ attempt' = attempt + 1 /\ answer' = "error"
    /\ sent' = sent \union {c.text : c \in Range(cands)}
    /\ \/ attempt' < Attempts /\ UNCHANGED <<node, cands, outcome>>
       \/ Fail("failed")
    /\ UNCHANGED written

\* dedup_node only annotates; the verdict that counts is taken by write.
Dedup ==
    /\ node = "dedup"
    /\ Leave(cands) \/ Fail("failed")
    /\ UNCHANGED <<attempt, answer, sent, written>>

\* persist_candidates is one transaction (modules Capture and MemoryStore).
Write ==
    /\ node = "write"
    /\ \/ written' = cands /\ node' = "end" /\ outcome' = "completed" /\ UNCHANGED cands
       \/ Fail("failed") /\ UNCHANGED written
    /\ UNCHANGED <<attempt, answer, sent>>

\* asyncio.wait_for cancels the graph at whatever await it is; a COMMIT that is
\* already on its way may or may not go through.
Timeout ==
    /\ node # "end"
    /\ Fail("timeout")
    /\ \/ UNCHANGED written
       \/ node = "write" /\ written' = cands
    /\ UNCHANGED <<attempt, answer, sent>>

PipelineNext == Extract \/ Pii \/ Evaluate \/ EmbedOk \/ EmbedError \/ Dedup \/ Write \/ Timeout

PipelineSpec == PipelineInit /\ [][PipelineNext]_pipelineVars

-----------------------------------------------------------------------------
(* Properties. *)

\* After extraction no wording in which Presidio recognises an entity reaches a
\* provider or the `content` column unredacted, though the analyzer or the
\* anonymizer fail at any candidate (capture/pii.py fails closed; the order of the
\* graph is what keeps raw text from the database). What the recognizers miss is
\* kept as it is and is not what this says anything about.
RawNeverLeaves ==
    \A text \in sent \union {c.text : c \in Range(written)} : ~Secret(text)

\* What is written was scored and embedded as itself, though candidates drop out
\* at every node and providers answer with lists that are too short or hold
\* unusable entries (evaluate.py and embed.py pair by position). Only an answer
\* that skips an entry before its last shifts the vectors of those behind it.
WrittenAsItself ==
    \A c \in Range(written) :
        /\ c.scoredFor = c.text /\ c.confidence = "high"
        /\ answer # "gapped" => c.vectorFor = c.text

\* A job that ends as completed with nothing written had nothing left to write:
\* an embedding provider that gave up never looks like an empty turn (embed.py,
\* EmbeddingUnavailable), and a failed job wrote nothing.
OutcomeHonest ==
    /\ outcome = "completed" => written = cands /\ answer # "error"
    /\ outcome = "failed" => written = <<>>
=============================================================================
