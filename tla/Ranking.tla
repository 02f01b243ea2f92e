------------------------------ MODULE Ranking ------------------------------
(* The arithmetic of retrieval: per-path normalisation and the merge         *)
(* (retrieve/hybrid.py), the five signals (retrieve/features.py) and the     *)
(* weighted total (retrieve/ranking.py). A score in [0, 1] is an integer in  *)
(* 0 .. Unit, a total one in 0 .. 100 * Unit; ages are counted in half-lives *)
(* and are negative for a timestamp in the future.                           *)
EXTENDS Integers, FiniteSets, Sequences

CONSTANTS
    Unit,           \* the integer that stands for a score of 1.0
    TsRankReference,    \* TS_RANK_REFERENCE, in the units of a raw keyword score
    FrequencyReference, \* FREQUENCY_REFERENCE
    Grain,          \* scores this close are equal after round(score, 12)
    Null            \* SQL NULL

ASSUME RankingAssumption ==
    /\ Unit \in Nat \ {0} /\ TsRankReference \in Nat \ {0}
    /\ FrequencyReference \in Nat \ {0} /\ Grain \in Nat \ {0}

Path == {"semantic", "keyword"}

\* _clamp01
Clamp(v) == IF v < 0 THEN 0 ELSE IF v > Unit THEN Unit ELSE v

\* _normalize
Normalized(path, raw) ==
    IF path = "semantic" THEN Clamp(raw)
    ELSE IF raw > 0 THEN (Unit * raw) \div (raw + TsRankReference) ELSE 0

\* A path's result is a function from the ids it found to their raw scores.
Found(got) == UNION {DOMAIN got[p] : p \in Path}

PathScore(got, p, id) == IF id \in DOMAIN got[p] THEN Normalized(p, got[p][id]) ELSE 0

\* Mutant of Merged: the mean is taken over the paths that found this memory.
MergedOverOwnPaths(got, id) ==
    (PathScore(got, "semantic", id) + PathScore(got, "keyword", id))
        \div Cardinality({p \in Path : id \in DOMAIN got[p]})

\* _merge: the zero-filled mean over the paths that returned anything at all.
Merged(got, id) ==
    LET contributing == {p \in Path : DOMAIN got[p] # {}}
    IN  (PathScore(got, "semantic", id) + PathScore(got, "keyword", id))
            \div (IF contributing = {} THEN 1 ELSE Cardinality(contributing))

\* recency_score and activation_score: halved once per half-life; a missing
\* timestamp scores RECENCY_DEFAULT = ACTIVATION_DEFAULT = 0.
Halved(age) ==
    CASE age = Null -> 0
      [] age # Null -> IF age <= 0 THEN Unit ELSE Unit \div (2^age)

\* frequency_score
Frequency(count) ==
    CASE count = Null -> 0
      [] count # Null -> IF count <= 0 THEN 0
                         ELSE (Unit * count) \div (count + FrequencyReference)

\* importance_score, with IMPORTANCE_DEFAULT = 0.5
Importance(value) ==
    CASE value = Null -> Unit \div 2 [] value # Null -> Clamp(value)

\* score_breakdown(...).total, in hundredths of the weights
\* 0.35, 0.25, 0.10, 0.10 and 0.20.
Total(got, row, id) ==
    35 * Clamp(Merged(got, id)) + 25 * Halved(row.created) + 10 * Halved(row.accessed)
      + 10 * Frequency(row.count) + 20 * Importance(row.importance)

\* round(score, 12)
Rounded(total) == (2 * total + Grain) \div (2 * Grain)

\* _sort_key: the rounded score descending, then the id ascending.
Before(total, a, b) ==
    \/ Rounded(total[a]) > Rounded(total[b])
    \/ Rounded(total[a]) = Rounded(total[b]) /\ a < b

\* ranked.sort(key=_sort_key). There is one such sequence.
Sorted(total) ==
    {order \in [1 .. Cardinality(DOMAIN total) -> DOMAIN total] :
        \A a, b \in DOMAIN order : a < b => Before(total, order[a], order[b])}
=============================================================================
