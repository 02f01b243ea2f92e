------------------------------ MODULE Composer -----------------------------
(* From a query to the profile block: hybrid_search with its two concurrent  *)
(* paths (retrieve/hybrid.py), rank (retrieve/ranking.py) and the composer's *)
(* drop loop (context/composer.py). What the two SQL queries find is chosen  *)
(* at the start; a path may lose it to a timeout or an error. The tokenizer  *)
(* is external: a line of a memory costs its length, the header Overhead.    *)
EXTENDS Ranking, Lists, SequencesExt

CONSTANTS
    Ids,            \* memory ids, as integers: their order breaks ties
    SemanticRaw,    \* raw cosine similarities, possibly negative
    KeywordRaw,     \* raw ts_rank scores
    Signals,        \* [created, accessed, count, importance] of a row, length 0
    Lengths,        \* tokens of a memory's line; 0 is a blank content
    Overhead,       \* tokens of BLOCK_HEADER
    Budgets,        \* TOKEN_BUDGET, possibly negative or 0
    TopK            \* RANKING_TOP_K

ASSUME ComposerAssumption ==
    /\ Ids \subseteq Nat /\ IsFiniteSet(Ids) /\ SemanticRaw \subseteq Int
    /\ KeywordRaw \subseteq Nat /\ Budgets \subseteq Int
    /\ Lengths \subseteq Nat /\ Overhead \in Nat /\ TopK \in Nat
    /\ LET Column == Int \union {Null}
       IN  Signals \subseteq [created : Column, accessed : Column, count : Column,
                             importance : Column, length : {0}]

VARIABLES
    blank,      \* query.is_blank
    rows,       \* id |-> its signals and the length of its line
    index,      \* path |-> what its query finds: id |-> raw score
    got,        \* path |-> what hybrid_search received from it
    running,    \* paths not yet finished
    phase,      \* "search", "fit" or "done"
    score,      \* id |-> its total, once ranked
    ranked,     \* the ranking after top-k, blank contents removed
    selected,   \* the memories still in the block
    dropped,    \* the ones removed for the budget, in that order
    budget

composeVars == <<blank, rows, index, got, running, phase, score, ranked, selected, dropped,
          budget>>

Nothing == [id \in {} |-> 0]

\* compose_profile_block: limit = max(0, limit)
Limit == IF budget < 0 THEN 0 ELSE budget

\* Tokens of the header and the first n lines of a block.
Cost(items, n) == Overhead + Sums([k \in 1 .. Len(items) |-> rows[items[k]].length])[n]

\* render_block and count_tokens: no items, no header.
CountTokens(items) == IF items = <<>> THEN 0 ELSE Cost(items, Len(items))

Rows == {[s EXCEPT !.length = n] : s \in Signals, n \in Lengths}

Hits(raw) == UNION {[found -> raw] : found \in SUBSET Ids}

ComposeTypeOK ==
    /\ running \subseteq Path /\ phase \in {"search", "fit", "done"}
    /\ \A p \in Path : DOMAIN got[p] \subseteq DOMAIN index[p]
    /\ DOMAIN score \subseteq Ids
    /\ \A id \in DOMAIN score : score[id] \in 0 .. 100 * Unit
    /\ ToSet(ranked) \subseteq DOMAIN score /\ Len(ranked) <= TopK
    /\ ToSet(selected) \union ToSet(dropped) = ToSet(ranked)
    /\ Len(selected) + Len(dropped) = Len(ranked)

ComposeInit ==
    /\ blank \in BOOLEAN /\ rows \in [Ids -> Rows] /\ budget \in Budgets
    /\ index \in [semantic : Hits(SemanticRaw), keyword : Hits(KeywordRaw)]
    /\ got = [p \in Path |-> Nothing]
    /\ running = IF blank THEN {} ELSE Path
    /\ phase = "search" /\ score = Nothing
    /\ ranked = <<>> /\ selected = <<>> /\ dropped = <<>>

\* _run_path: the path's rows arrive within the time limit.
PathReturns(p) ==
    /\ p \in running
    /\ running' = running \ {p}
    /\ got' = [got EXCEPT ![p] = index[p]]
    /\ UNCHANGED <<blank, rows, index, phase, score, ranked, selected, dropped, budget>>

\* _run_path: a timeout or an exception becomes an empty, degraded path.
PathDegrades(p) ==
    /\ p \in running
    /\ running' = running \ {p}
    /\ UNCHANGED <<blank, rows, index, got, phase, score, ranked, selected, dropped, budget>>

\* rank: the positions that ranked[:limit] keeps
Top(order) == 1 .. (IF TopK < Len(order) THEN TopK ELSE Len(order))

\* hybrid_search after the gather, rank, and the head of compose_profile_block:
\* the top-k is cut before blank contents are removed.
Rank ==
    /\ phase = "search" /\ running = {}
    /\ score' = [id \in Found(got) |-> Total(got, rows[id], id)]
    /\ \E order \in Sorted(score') :
          \E pick \in Picks({k \in Top(order) : rows[order[k]].length > 0}) :
             ranked' = [j \in 1 .. Len(pick) |-> order[pick[j]]]
    /\ selected' = ranked' /\ dropped' = <<>>
    /\ phase' = "fit"
    /\ UNCHANGED <<blank, rows, index, got, running, budget>>

\* Mutant of Worse: the place in the ranking decides.
WorseByPosition(a, b) == Before(score, b, a)

\* _lowest_scored_index: the raw score decides, and among equals the largest id.
Worse(a, b) == score[a] < score[b] \/ (score[a] = score[b] /\ a > b)

\* One round of _fit's loop.
Drop ==
    /\ phase = "fit" /\ selected # <<>> /\ CountTokens(selected) > Limit
    /\ \E k \in 1 .. Len(selected) :
          /\ \A j \in 1 .. Len(selected) \ {k} : Worse(selected[k], selected[j])
          /\ selected' = RemoveAt(selected, k)
          /\ dropped' = Append(dropped, selected[k])
    /\ UNCHANGED <<blank, rows, index, got, running, phase, score, ranked, budget>>

\* The block fits.
Compose ==
    /\ phase = "fit" /\ ~(selected # <<>> /\ CountTokens(selected) > Limit)
    /\ phase' = "done"
    /\ UNCHANGED <<blank, rows, index, got, running, score, ranked, selected, dropped,
                   budget>>

ComposeNext == (\E p \in Path : PathReturns(p) \/ PathDegrades(p)) \/ Rank \/ Drop \/ Compose

ComposeSpec == ComposeInit /\ [][ComposeNext]_composeVars

-----------------------------------------------------------------------------
(* Properties. *)

\* a has the higher total, exactly, or the same one and the smaller id.
Better(a, b) == score[a] > score[b] \/ (score[a] = score[b] /\ a < b)

\* The budget costs the worst memories and no more of them than it must: every
\* one in the block is better than every one dropped, the worst went first, the
\* block fits, and would not with the last one dropped in it. The block keeps the
\* order of the ranking, although the ranking compares rounded totals and the drop
\* loop exact ones (_fit: "drop lowest-scored memories until the rendered block
\* fits"; _lowest_scored_index: "Score, never position").
BestKept ==
    LET n == Len(selected)
        m == Len(dropped)
    IN  phase = "done" =>
          /\ \A i, j \in 1 .. n : i < j => Before(score, selected[i], selected[j])
          /\ \A i \in 1 .. n, j \in 1 .. m : Better(selected[i], dropped[j])
          /\ \A i, j \in 1 .. m : i < j => Better(dropped[j], dropped[i])
          /\ n > 0 => Cost(selected, n) <= budget
          /\ m > 0 => Cost(selected, n) + rows[dropped[m]].length > budget

\* a is found by every path that found b, with no smaller raw score, and is
\* nowhere behind b on the other signals.
Dominates(a, b) ==
    /\ \A p \in Path : b \in DOMAIN got[p] =>
          a \in DOMAIN got[p] /\ got[p][a] >= got[p][b]
    /\ Halved(rows[a].created) >= Halved(rows[b].created)
    /\ Halved(rows[a].accessed) >= Halved(rows[b].accessed)
    /\ Frequency(rows[a].count) >= Frequency(rows[b].count)
    /\ Importance(rows[a].importance) >= Importance(rows[b].importance)

\* Retrieval rewards agreement between the paths: a memory that is at least as
\* good as another on every path and every signal is not left out of the prompt
\* in favour of it, whichever path degraded and however scarce the budget
\* (_merge, zero-filled mean). A blank content is not put into a prompt.
AgreementRewarded ==
    phase = "done" =>
        \A a, b \in Ids :
            (a < b /\ b \in ToSet(selected) /\ Dominates(a, b) /\ rows[a].length > 0)
                => a \in ToSet(selected)

-----------------------------------------------------------------------------
(* What the repository's comments say and the code does not do. *)

\* context/composer.py, _lowest_scored_index: "Ties break on `memory_id`, matching
\* `rank()`'s `(-score, memory_id)` sort": the block is a prefix of the ranking, and
\* what was dropped is the rest of it from the end.
PrefixKept ==
    LET n == Len(selected)
    IN  phase = "done" =>
          /\ selected = SubSeq(ranked, 1, n)
          /\ dropped = Reverse(SubSeq(ranked, n + 1, Len(ranked)))
=============================================================================
