--------------------------- MODULE ServicesProofs ---------------------------
(* Proofs about the five pieces of module MCServices, which share no variable: *)
(* one run of the capture graph (CapturePipeline), the retry loops around its  *)
(* embedding call (RateLimit), retrieval and composition (Ranking, Composer),  *)
(* the migration runner (Migrate) and the export (Export). Each has its own    *)
(* inductive invariant.                                                        *)
EXTENDS MCServices, FiniteSetTheorems, SequenceTheorems, WellFoundedInduction, TLAPS

(* Numbers and lists. *)

\* Induction over the natural numbers, from the library's well-founded relations.
\* A set of numbers that is not empty has a least one.
LEMMA LeastNumber ==
    ASSUME NEW T \in SUBSET Nat, T # {}
    PROVE  \E m \in T : \A k \in T : m <= k
<1> DEFINE R == OpToRel(<, Nat)
<1>1. IsWellFoundedOn(R, Nat)
  BY NatLessThanWellFounded
<1>2. \A a, b \in Nat : a < b => <<a, b>> \in R
  BY DEF OpToRel
<1> HIDE DEF R
<1>3. \E x \in T : \A y \in T : ~(<<y, x>> \in R)
  BY <1>1, WFMin
<1>4. PICK x \in T : \A y \in T : ~(<<y, x>> \in R)
  BY <1>3
<1>5. \A y \in T : ~(y < x)
  BY <1>2, <1>4
<1> QED BY <1>5

\* A set that holds 0 and, with a number, the next one, holds every number.
LEMMA SetInduction ==
    ASSUME NEW S, 0 \in S, \A n \in Nat : n \in S => n + 1 \in S
    PROVE  Nat \subseteq S
<1> DEFINE T == {n \in Nat : n \notin S}
<1> SUFFICES ASSUME T # {} PROVE FALSE
  OBVIOUS
<1>1. PICK m \in T : \A k \in T : m <= k
  BY LeastNumber
<1>2. m # 0 /\ m \in Nat
  OBVIOUS
<1>3. m - 1 \in Nat /\ m - 1 \notin T
  BY <1>1, <1>2
<1> QED BY <1>2, <1>3

\* What Sums computes.
LEMMA SumsDef ==
    ASSUME NEW d \in Seq(Nat)
    PROVE  /\ Sums(d) \in [0 .. Len(d) -> Nat]
           /\ Sums(d)[0] = 0
           /\ \A k \in 1 .. Len(d) : Sums(d)[k] = Sums(d)[k - 1] + d[k]
<1> DEFINE Is(f, n) == /\ f \in [0 .. n -> Nat] /\ f[0] = 0
                       /\ \A k \in 1 .. n : f[k] = f[k - 1] + d[k]
           S == {n \in Nat : n <= Len(d) => \E f \in [0 .. n -> Nat] : Is(f, n)}
<1>0. Len(d) \in Nat /\ \A k \in 1 .. Len(d) : d[k] \in Nat
  OBVIOUS
<1>1. 0 \in S
  <2> DEFINE f == [k \in 0 .. 0 |-> 0]
  <2>1. Is(f, 0)
    OBVIOUS
  <2> QED BY <2>1
<1>2. ASSUME NEW n \in Nat, n \in S PROVE n + 1 \in S
  <2> SUFFICES ASSUME n + 1 <= Len(d) PROVE \E f \in [0 .. n + 1 -> Nat] : Is(f, n + 1)
    <3> HIDE DEF Is
    <3> QED OBVIOUS
  <2>0. n <= Len(d)
    BY <1>0
  <2>1. PICK f \in [0 .. n -> Nat] : Is(f, n)
    <3> HIDE DEF Is
    <3> QED BY <1>2, <2>0
  <2> DEFINE g == [k \in 0 .. n + 1 |-> IF k = n + 1 THEN f[n] + d[n + 1] ELSE f[k]]
  <2>2. g \in [0 .. n + 1 -> Nat]
    BY <1>0, <2>1
  <2>3. g[0] = 0 /\ \A k \in 1 .. n + 1 : g[k] = g[k - 1] + d[k]
    BY <1>0, <2>1
  <2> HIDE DEF g
  <2> QED BY <2>2, <2>3
<1>3. PICK f \in [0 .. Len(d) -> Nat] : Is(f, Len(d))
  <2>1. Len(d) \in S
    BY <1>0, <1>1, <1>2, SetInduction
  <2> QED BY <1>0, <2>1
<1>4. f = [k \in 0 .. Len(d) |-> IF k = 0 THEN 0 ELSE f[k - 1] + d[k]]
  BY <1>0, <1>3
<1> DEFINE u == Sums(d)
<1>5. u = [k \in 0 .. Len(d) |-> IF k = 0 THEN 0 ELSE u[k - 1] + d[k]]
  BY <1>4 DEF Sums
<1> HIDE DEF u
<1>6. u[0] = 0 /\ \A k \in 1 .. Len(d) : u[k] = u[k - 1] + d[k]
  <2>1. 0 \in 0 .. Len(d) /\ \A k \in 1 .. Len(d) : k \in 0 .. Len(d) /\ k # 0
    BY <1>0
  <2>2. \A k \in 0 .. Len(d) : u[k] = IF k = 0 THEN 0 ELSE u[k - 1] + d[k]
    BY <1>5
  <2> QED BY <2>1, <2>2
<1> DEFINE N == {n \in Nat : n <= Len(d) => u[n] \in Nat}
<1>7. Nat \subseteq N
  <2>1. 0 \in N
    BY <1>6
  <2>2. ASSUME NEW n \in Nat, n \in N PROVE n + 1 \in N
    <3> SUFFICES ASSUME n + 1 <= Len(d) PROVE u[n + 1] \in Nat
      OBVIOUS
    <3>1. n + 1 \in 1 .. Len(d) /\ n <= Len(d) /\ (n + 1) - 1 = n
      BY <1>0
    <3>2. u[n + 1] = u[n] + d[n + 1] /\ d[n + 1] \in Nat
      BY <1>0, <1>6, <3>1
    <3>3. u[n] \in Nat
      BY <2>2, <3>1
    <3> QED BY <3>2, <3>3
  <2> HIDE DEF N
  <2> QED BY <2>1, <2>2, SetInduction
<1>8. u \in [0 .. Len(d) -> Nat]
  <2>1. \A k \in 0 .. Len(d) : u[k] \in Nat
    BY <1>0, <1>7
  <2>2. u = [k \in 0 .. Len(d) |-> u[k]]
    BY <1>5
  <2> QED BY <2>1, <2>2
<1> QED BY <1>6, <1>8 DEF u

\* A power of two counts the subsets of a finite set, so it is positive.
LEMMA PowerPositive ==
    ASSUME NEW n \in Nat
    PROVE  2 ^ n \in Nat \ {0}
<1>1. IsFiniteSet(1 .. n) /\ Cardinality(1 .. n) = n
  BY FS_Interval
<1>2. IsFiniteSet(SUBSET (1 .. n)) /\ Cardinality(SUBSET (1 .. n)) = 2 ^ n
  BY <1>1, FS_SUBSET
<1>3. SUBSET (1 .. n) # {}
  OBVIOUS
<1>4. Cardinality(SUBSET (1 .. n)) \in Nat /\ Cardinality(SUBSET (1 .. n)) # 0
  BY <1>2, <1>3, FS_CardinalityType, FS_EmptySet
<1> QED BY <1>2, <1>4

\* What integer division computes.
LEMMA Division ==
    ASSUME NEW a \in Int, NEW b \in Nat \ {0}
    PROVE  /\ a \div b \in Int
           /\ (a \div b) * b <= a /\ a < (a \div b) * b + b
  OBVIOUS

\* The quotient is the largest factor that fits.
LEMMA LargestQuotient ==
    ASSUME NEW a \in Int, NEW b \in Nat \ {0}, NEW q \in Int, q * b <= a
    PROVE  q <= a \div b
<1> DEFINE d == a \div b
<1>1. d \in Int /\ a < d * b + b
  BY Division
<1> HIDE DEF d
<1> SUFFICES ASSUME d < q PROVE FALSE
  BY <1>1 DEF d
<1>2. d + 1 <= q
  BY <1>1
<1>3. (d + 1) * b <= q * b
  BY <1>1, <1>2
<1>4. (d + 1) * b = d * b + b
  BY <1>1
<1>5. d * b \in Int /\ q * b \in Int
  BY <1>1
<1> QED BY <1>1, <1>3, <1>4, <1>5

\* A larger dividend has no smaller quotient.
LEMMA DivMonotone ==
    ASSUME NEW a \in Int, NEW c \in Int, a <= c, NEW b \in Nat \ {0}
    PROVE  a \div b <= c \div b
<1>1. a \div b \in Int /\ (a \div b) * b <= a
  BY Division
<1>2. (a \div b) * b \in Int
  BY <1>1
<1>3. (a \div b) * b <= c
  BY <1>1, <1>2
<1> QED BY <1>1, <1>3, LargestQuotient

\* u * r / (r + t): a share of u that grows with r, as in _normalize and
\* frequency_score.
LEMMA SaturationGrows ==
    ASSUME NEW u \in Nat \ {0}, NEW t \in Nat \ {0},
           NEW r \in Nat \ {0}, NEW s \in Nat \ {0}, r <= s
    PROVE  /\ (u * r) \div (r + t) \in 0 .. u
           /\ (u * r) \div (r + t) <= (u * s) \div (s + t)
<1> DEFINE q == (u * r) \div (r + t)
<1>0. u * r \in Nat /\ r + t \in Nat \ {0} /\ u * s \in Nat /\ s + t \in Nat \ {0}
  OBVIOUS
<1>1. q \in Int /\ q * (r + t) <= u * r
  <2> DEFINE a == u * r
             b == r + t
  <2> HIDE DEF a, b
  <2>1. a \in Int /\ b \in Nat \ {0}
    BY <1>0 DEF a, b
  <2>2. a \div b \in Int /\ (a \div b) * b <= a
    BY <2>1, Division
  <2> QED BY <2>2 DEF a, b
<1>2. 0 <= q
  <2>1. 0 * (r + t) <= u * r
    BY <1>0
  <2> QED BY <1>0, <2>1, LargestQuotient
<1> HIDE DEF q
<1>3. q <= u
  <2> SUFFICES ASSUME u < q PROVE FALSE
    BY <1>1
  <2>1. u * (r + t) <= q * (r + t)
    BY <1>0, <1>1
  <2>2. u * (r + t) = u * r + u * t /\ u * t > 0 /\ u * t \in Int
    OBVIOUS
  <2> HIDE DEF q
  <2>3. q * (r + t) \in Int
    BY <1>1
  <2> QED BY <1>0, <1>1, <2>1, <2>2, <2>3
<1>4. q * (s + t) <= u * s
  <2>1. q * (r + t) = q * r + q * t /\ q * (s + t) = q * s + q * t
    BY <1>1
  <2>2. (u - q) * r <= (u - q) * s
    BY <1>1, <1>3
  <2>3. (u - q) * r = u * r - q * r /\ (u - q) * s = u * s - q * s
    BY <1>1
  <2>4. q * r \in Int /\ q * s \in Int /\ q * t \in Int
    BY <1>1
  <2> QED BY <1>0, <1>1, <2>1, <2>2, <2>3, <2>4
<1>5. q <= (u * s) \div (s + t)
  BY <1>0, <1>1, <1>4, LargestQuotient
<1> QED BY <1>1, <1>2, <1>3, <1>5 DEF q

-----------------------------------------------------------------------------
(* The capture graph. *)

\* What a candidate has been through by the time a node gets it, the last answer of
\* the embedding provider being a.
Vetted(a, n, c) ==
    /\ n \notin {"extract", "pii"} => ~Secret(c.text)
    /\ n \in {"embed", "dedup", "write"} => c.scoredFor = c.text /\ c.confidence = "high"
    /\ n \in {"dedup", "write"} /\ a # "gapped" => c.vectorFor = c.text

\* While the graph runs, the list under the current node's key is vetted for it
\* and nothing is written.
RunningInv ==
    node # "end" =>
        /\ cands \in Seq(Candidate)
        /\ \A k \in 1 .. Len(cands) : Vetted(answer, node, cands[k])
        /\ written = <<>> /\ outcome = "running"
        /\ answer = "error" => node = "embed"

\* Everything sent was clean, and an ended job tells what it did.
EndedInv ==
    node = "end" =>
        /\ written \in Seq(Candidate)
        /\ \A k \in 1 .. Len(written) : Vetted(answer, "write", written[k])
        /\ outcome # "running"
        /\ OutcomeHonest

SentInv == \A text \in sent : ~Secret(text)

PipelineInv ==
    /\ PipelineTypeOK
    /\ RunningInv /\ EndedInv /\ SentInv

\* Where the edge of each node leads.
LEMMA Successor ==
    ASSUME NEW k \in 1 .. 5
    PROVE  (CHOOSE j \in 1 .. 5 : NODE_ORDER[j] = NODE_ORDER[k]) = k
<1>1. \A i, j \in 1 .. 5 : NODE_ORDER[i] = NODE_ORDER[j] => i = j
  BY DEF NODE_ORDER
<1> DEFINE c == CHOOSE j \in 1 .. 5 : NODE_ORDER[j] = NODE_ORDER[k]
<1>2. c \in 1 .. 5 /\ NODE_ORDER[c] = NODE_ORDER[k]
  OBVIOUS
<1> QED BY <1>1, <1>2

\* Leaving a node with a list that is vetted for the next one.
LEMMA LeaveVetted ==
    ASSUME PipelineInv, NEW k \in 1 .. 5, node = NODE_ORDER[k],
           NEW output \in Seq(Candidate), Leave(output),
           \A j \in 1 .. Len(output) : Vetted(answer', NODE_ORDER[k + 1], output[j]),
           written' = written, answer' \in Answers,
           answer' # "error",
           Len(output) <= MaxCandidates, attempt' \in 0 .. Attempts,
           sent' \subseteq Texts, \A text \in sent' : ~Secret(text)
    PROVE  PipelineInv'
<1>1. /\ node \in {"extract", "pii", "evaluate", "embed", "dedup"}
      /\ NODE_ORDER[k + 1] \in {"pii", "evaluate", "embed", "dedup", "write"}
      /\ NODE_ORDER[1 + k] = NODE_ORDER[k + 1]
  BY DEF NODE_ORDER
<1>2. {"pii", "evaluate", "embed", "dedup", "write"} \subseteq Range(NODE_ORDER)
  BY DEF NODE_ORDER, Range
<1>3. written = <<>> /\ outcome = "running"
  BY <1>1 DEF PipelineInv, RunningInv
<1>4. CASE output = <<>>
  <2>1. node' = "end" /\ outcome' = "completed" /\ cands' = <<>> /\ written' = <<>> /\ answer' # "error"
    BY <1>3, <1>4 DEF Leave
  <2>2. RunningInv' /\ SentInv'
    BY <2>1 DEF RunningInv, SentInv
  <2>3. EndedInv'
    BY <2>1 DEF EndedInv, OutcomeHonest
  <2>4. PipelineTypeOK'
    <3>1. cands' = output /\ written \in Seq(Candidate)
      BY <1>4, <2>1 DEF PipelineInv, PipelineTypeOK
    <3> QED BY <2>1, <3>1 DEF PipelineTypeOK
  <2> QED BY <2>2, <2>3, <2>4 DEF PipelineInv
<1>5. CASE output # <<>>
  <2>1. node' = NODE_ORDER[k + 1] /\ outcome' = "running" /\ cands' = output
    <3>1. (CHOOSE j \in 1 .. 5 : NODE_ORDER[j] = node) = k
      BY Successor
    <3>2. node' = NODE_ORDER[1 + CHOOSE j \in 1 .. 5 : NODE_ORDER[j] = node]
      BY <1>5 DEF Leave
    <3>3. outcome' = outcome /\ cands' = output
      BY <1>5 DEF Leave
    <3> QED BY <1>1, <1>3, <3>1, <3>2, <3>3
  <2>2. RunningInv'
    BY <1>1, <1>3, <2>1 DEF RunningInv
  <2>3. EndedInv' /\ SentInv'
    BY <1>1, <2>1 DEF EndedInv, SentInv
  <2>4. PipelineTypeOK'
    BY <1>1, <1>2, <2>1 DEF PipelineInv, PipelineTypeOK
  <2> QED BY <2>2, <2>3, <2>4 DEF PipelineInv
<1> QED BY <1>4, <1>5

\* A node that raises ends the job with nothing written.
LEMMA FailHonest ==
    ASSUME PipelineInv, node # "end", NEW how \in {"failed", "timeout"}, Fail(how),
           written' = written, answer' \in Answers, attempt' \in 0 .. Attempts,
           sent' \subseteq Texts, \A text \in sent' : ~Secret(text)
    PROVE  PipelineInv'
<1>1. written' = <<>> /\ node' = "end" /\ outcome' = how /\ cands' = cands
  BY DEF PipelineInv, RunningInv, Fail
<1>2. PipelineTypeOK'
  BY <1>1 DEF PipelineInv, PipelineTypeOK
<1> QED BY <1>1, <1>2 DEF PipelineInv, RunningInv, EndedInv, OutcomeHonest, SentInv

\* The fields of a candidate.
LEMMA CandidateFields ==
    ASSUME NEW list \in Seq(Candidate), NEW k \in 1 .. Len(list)
    PROVE  list[k] \in Candidate /\ list[k].text \in Texts
<1>1. list[k] \in Candidate
  OBVIOUS
<1> QED BY <1>1 DEF Candidate

\* What a node that scores or embeds hands to its provider is clean.
LEMMA SentClean ==
    ASSUME PipelineInv, node \in {"evaluate", "embed"},
           sent' = sent \union {c.text : c \in Range(cands)}
    PROVE  sent' \subseteq Texts /\ \A text \in sent' : ~Secret(text)
<1>1. cands \in Seq(Candidate) /\ \A k \in 1 .. Len(cands) : Vetted(answer, node, cands[k])
  BY DEF PipelineInv, RunningInv
<1>2. \A k \in 1 .. Len(cands) : ~Secret(cands[k].text)
  BY <1>1 DEF Vetted
<1>3. \A c \in Range(cands) : ~Secret(c.text)
  BY <1>1, <1>2 DEF Range
<1>4. \A c \in Range(cands) : c.text \in Texts
  BY <1>1, CandidateFields DEF Range
<1> QED BY <1>3, <1>4 DEF PipelineInv, PipelineTypeOK, SentInv

\* A filter's positions are positions of the list, and there are finitely many.
LEMMA PicksWithin ==
    ASSUME NEW n \in Nat, NEW K \in SUBSET (1 .. n), NEW pick \in Picks(K)
    PROVE  /\ Cardinality(K) \in Nat /\ Cardinality(K) <= n
           /\ DOMAIN pick = 1 .. Cardinality(K)
           /\ \A j \in DOMAIN pick : pick[j] \in K
<1>1. IsFiniteSet(1 .. n) /\ Cardinality(1 .. n) = n
  BY FS_Interval
<1>2. IsFiniteSet(K) /\ Cardinality(K) <= n
  BY <1>1, FS_Subset
<1> QED BY <1>2, FS_CardinalityType DEF Picks

\* Nothing is in an empty list.
LEMMA EmptyVetted ==
    ASSUME NEW a, NEW n
    PROVE  <<>> \in Seq(Candidate) /\ \A k \in 1 .. Len(<<>>) : Vetted(a, n, <<>>[k])
  OBVIOUS

\* An item of a completion gives an unscored candidate.
LEMMA ExtractInv ==
    ASSUME PipelineAssumption, PipelineInv, Extract
    PROVE  PipelineInv'
<1>1. node = NODE_ORDER[1] /\ NODE_ORDER[2] = "pii" /\ answer # "error" /\ answer \in Answers
  BY DEF Extract, NODE_ORDER, PipelineInv, RunningInv, PipelineTypeOK
<1>2. PICK items \in Seq(Facts \union {Junk}) :
         \E pick \in Picks({k \in 1 .. Len(items) : items[k] # Junk}) :
            Leave([j \in 1 .. Capped(Len(pick)) |-> NewCandidate(items[pick[j]])])
  <2>1. SeqOf(Facts \union {Junk}, MaxProposed) \subseteq Seq(Facts \union {Junk})
    BY DEF SeqOf, PipelineAssumption
  <2> QED BY <2>1 DEF Extract
<1> DEFINE K == {k \in 1 .. Len(items) : items[k] # Junk}
<1>3. PICK pick \in Picks(K) :
         Leave([j \in 1 .. Capped(Len(pick)) |-> NewCandidate(items[pick[j]])])
  BY <1>2
<1>4. Len(items) \in Nat
  OBVIOUS
<1>5. /\ Cardinality(K) \in Nat
      /\ DOMAIN pick = 1 .. Cardinality(K)
      /\ \A j \in DOMAIN pick : pick[j] \in K
  BY <1>4, PicksWithin
<1>6. pick \in [1 .. Cardinality(K) -> K]
  BY DEF Picks
<1> HIDE DEF K
<1>7. Len(pick) = Cardinality(K)
  BY <1>5, <1>6
<1>8. Capped(Len(pick)) \in Nat /\ Capped(Len(pick)) <= Len(pick)
  BY <1>5, <1>7 DEF Capped, PipelineAssumption
<1>9. \A j \in 1 .. Capped(Len(pick)) : items[pick[j]] \in Facts
  BY <1>4, <1>5, <1>7, <1>8 DEF K
<1>10. \A f \in Facts : NewCandidate(f) \in Candidate
  BY DEF NewCandidate, Candidate, Raw, Texts
<1> DEFINE output == [j \in 1 .. Capped(Len(pick)) |-> NewCandidate(items[pick[j]])]
<1>11. output \in Seq(Candidate)
  BY <1>8, <1>9, <1>10
<1>12. \A j \in 1 .. Len(output) : Vetted(answer', NODE_ORDER[2], output[j])
  BY <1>1 DEF Vetted
<1>13. Leave(output)
  BY <1>3
<1>14. sent' \subseteq Texts /\ attempt' \in 0 .. Attempts /\ \A text \in sent' : ~Secret(text)
  BY DEF Extract, PipelineInv, PipelineTypeOK, SentInv
<1>15. written' = written /\ answer' = answer
  BY <1>1 DEF Extract
<1>16. Len(output) <= MaxCandidates
  BY <1>5, <1>7, <1>8 DEF Capped, PipelineAssumption
<1> HIDE DEF output
<1> QED BY <1>1, <1>11, <1>12, <1>13, <1>14, <1>15, <1>16, LeaveVetted, 1 + 1 = 2, 1 \in 1 .. 5

\* Whether Presidio works or fails, the text that comes back has no entity that it
\* recognises left.
LEMMA RedactionClean ==
    ASSUME PipelineAssumption, NEW text \in Texts, NEW out \in Redactions(text)
    PROVE  out \in Texts /\ ~Secret(out)
  BY DEF Redactions, Secret, Texts, Unscannable, PipelineAssumption

\* The pii node leaves no secret.
LEMMA PiiInv ==
    ASSUME PipelineAssumption, PipelineInv, Pii
    PROVE  PipelineInv'
<1>1. /\ node = NODE_ORDER[2] /\ NODE_ORDER[3] = "evaluate"
      /\ answer # "error" /\ answer \in Answers /\ cands \in Seq(Candidate)
  BY DEF Pii, NODE_ORDER, PipelineInv, RunningInv, PipelineTypeOK
<1>2. PICK texts \in [1 .. Len(cands) -> UNION {Redactions(c.text) : c \in Range(cands)}] :
          /\ \A k \in 1 .. Len(cands) : texts[k] \in Redactions(cands[k].text)
          /\ Leave([k \in 1 .. Len(cands) |-> [cands[k] EXCEPT !.text = texts[k]]])
  BY DEF Pii
<1>3. \A k \in 1 .. Len(cands) : cands[k] \in Candidate /\ cands[k].text \in Texts
  BY <1>1, CandidateFields
<1>4. \A k \in 1 .. Len(cands) : texts[k] \in Texts /\ ~Secret(texts[k])
  BY <1>2, <1>3, RedactionClean
<1> DEFINE output == [k \in 1 .. Len(cands) |-> [cands[k] EXCEPT !.text = texts[k]]]
<1>5. \A k \in 1 .. Len(cands) : output[k] \in Candidate /\ output[k].text = texts[k]
  BY <1>3, <1>4 DEF Candidate
<1>6. output \in Seq(Candidate) /\ Len(output) = Len(cands)
  BY <1>1, <1>5
<1> HIDE DEF output
<1>7. \A j \in 1 .. Len(output) : Vetted(answer', NODE_ORDER[3], output[j])
  BY <1>1, <1>4, <1>5, <1>6 DEF Vetted
<1>8. sent' \subseteq Texts /\ attempt' \in 0 .. Attempts /\ \A text \in sent' : ~Secret(text)
  BY DEF Pii, PipelineInv, PipelineTypeOK, SentInv
<1>9. written' = written /\ answer' = answer /\ Len(output) <= MaxCandidates
  BY <1>1, <1>6 DEF Pii, PipelineInv, PipelineTypeOK
<1>10. Leave(output)
  BY <1>2 DEF output
<1> QED BY <1>1, <1>6, <1>7, <1>8, <1>9, <1>10, LeaveVetted, 2 + 1 = 3, 2 \in 1 .. 5

\* A score belongs to the candidate at its own index, and what passes the floor is
\* as clean as before.
LEMMA EvaluateInv ==
    ASSUME PipelineAssumption, PipelineInv, Evaluate
    PROVE  PipelineInv'
<1>1. /\ node = NODE_ORDER[3] /\ NODE_ORDER[4] = "embed"
      /\ answer # "error" /\ answer \in Answers /\ cands \in Seq(Candidate)
  BY DEF Evaluate, NODE_ORDER, PipelineInv, RunningInv, PipelineTypeOK
<1>2. sent' \subseteq Texts /\ attempt' \in 0 .. Attempts /\ \A text \in sent' : ~Secret(text)
  <2>1. node = "evaluate" /\ sent' = sent \union {c.text : c \in Range(cands)}
    BY DEF Evaluate
  <2>2. attempt' \in 0 .. Attempts
    BY DEF Evaluate, PipelineInv, PipelineTypeOK
  <2> QED BY <2>1, <2>2, SentClean
<1>3. PICK levels \in {<<>>} \union [1 .. Len(cands) -> {"low", "high", "missing"}] :
          LET scores == [k \in DOMAIN levels |-> [of |-> cands[k].text, level |-> levels[k]]]
          IN  \E pick \in Picks({k \in 1 .. Len(cands) : Scored(scores, k).confidence = "high"}) :
                 Leave([j \in DOMAIN pick |-> Scored(scores, pick[j])])
  BY DEF Evaluate
<1> DEFINE scores == [k \in DOMAIN levels |-> [of |-> cands[k].text, level |-> levels[k]]]
           K == {k \in 1 .. Len(cands) : Scored(scores, k).confidence = "high"}
<1>4. PICK pick \in Picks(K) : Leave([j \in DOMAIN pick |-> Scored(scores, pick[j])])
  BY <1>3
<1>5. \A k \in 1 .. Len(cands) :
         /\ Scored(scores, k) \in Candidate
         /\ Scored(scores, k).text = cands[k].text
         /\ Scored(scores, k).scoredFor = cands[k].text
  <2> TAKE k \in 1 .. Len(cands)
  <2>1. cands[k] \in Candidate /\ cands[k].text \in Texts
    BY <1>1, CandidateFields
  <2>2. CASE scores = <<>> \/ scores[k].level = "missing"
    BY <2>1, <2>2 DEF Scored, Heuristic, Candidate
  <2>3. CASE ~(scores = <<>> \/ scores[k].level = "missing")
    <3>1. levels \in [1 .. Len(cands) -> {"low", "high", "missing"}]
      <4>1. levels # <<>>
        BY <2>3
      <4> QED BY <4>1
    <3>2. scores[k].of = cands[k].text /\ scores[k].level \in {"low", "high"}
      BY <2>3, <3>1
    <3> QED BY <2>1, <2>3, <3>2 DEF Scored, Candidate
  <2> QED BY <2>2, <2>3
<1>6. /\ Cardinality(K) \in Nat /\ Cardinality(K) <= Len(cands)
      /\ DOMAIN pick = 1 .. Cardinality(K)
      /\ \A j \in DOMAIN pick : pick[j] \in K
  <2>1. K \in SUBSET (1 .. Len(cands)) /\ Len(cands) \in Nat
    BY <1>1
  <2> HIDE DEF K
  <2> QED BY <2>1, PicksWithin
<1>7. \A j \in DOMAIN pick : pick[j] \in 1 .. Len(cands) /\ Scored(scores, pick[j]).confidence = "high"
  BY <1>6
<1> HIDE DEF scores, K
<1> DEFINE output == [j \in DOMAIN pick |-> Scored(scores, pick[j])]
<1>8. output \in Seq(Candidate) /\ Len(output) = Cardinality(K)
  BY <1>5, <1>6, <1>7
<1>9. \A k \in 1 .. Len(cands) : ~Secret(cands[k].text)
  BY <1>1 DEF PipelineInv, RunningInv, Vetted, NODE_ORDER
<1>10. \A j \in 1 .. Len(output) : Vetted(answer', NODE_ORDER[4], output[j])
  BY <1>1, <1>5, <1>6, <1>7, <1>8, <1>9 DEF Vetted
<1>11. written' = written /\ answer' = answer
  BY <1>1 DEF Evaluate
<1>12. Leave(output)
  BY <1>4
<1> HIDE DEF output
<1>13. Len(output) <= MaxCandidates
  <2>1. Len(cands) \in Nat /\ Len(cands) <= MaxCandidates /\ MaxCandidates \in Nat
    BY <1>1 DEF PipelineInv, PipelineTypeOK, PipelineAssumption
  <2> QED BY <1>6, <1>8, <2>1
<1> QED BY <1>1, <1>2, <1>8, <1>10, <1>11, <1>12, <1>13, LeaveVetted, 3 + 1 = 4, 3 \in 1 .. 5

\* The increasing list of the first n positions is that of each position itself.
LEMMA PicksInitial ==
    ASSUME NEW n \in Nat, NEW order \in Picks(1 .. n)
    PROVE  \A k \in 1 .. n : order[k] = k
<1>1. /\ order \in [1 .. n -> 1 .. n]
      /\ \A a, b \in 1 .. n : a < b => order[a] < order[b]
  <2>1. Cardinality(1 .. n) = n
    BY FS_Interval
  <2> QED BY <2>1 DEF Picks
<1> DEFINE Low == {k \in Nat : k \in 1 .. n => k <= order[k]}
           High == {k \in Nat : k \in 0 .. n - 1 => order[n - k] <= n - k}
<1>2. Nat \subseteq Low
  <2>1. 0 \in Low
    OBVIOUS
  <2>2. ASSUME NEW k \in Nat, k \in Low PROVE k + 1 \in Low
    <3> SUFFICES ASSUME k + 1 \in 1 .. n PROVE k + 1 <= order[k + 1]
      OBVIOUS
    <3>1. order[k + 1] \in 1 .. n
      BY <1>1
    <3>2. CASE k = 0
      BY <3>1, <3>2
    <3>3. CASE k # 0
      <4>1. k \in 1 .. n /\ k < k + 1
        BY <3>3
      <4>2. order[k] < order[k + 1] /\ k <= order[k] /\ order[k] \in 1 .. n
        BY <1>1, <2>2, <4>1
      <4> QED BY <3>1, <4>2
    <3> QED BY <3>2, <3>3
  <2> HIDE DEF Low
  <2> QED BY <2>1, <2>2, SetInduction
<1>3. Nat \subseteq High
  <2>1. 0 \in High
    <3> SUFFICES ASSUME 0 \in 0 .. n - 1 PROVE order[n - 0] <= n - 0
      OBVIOUS
    <3>1. n - 0 = n /\ n \in 1 .. n
      OBVIOUS
    <3> QED BY <1>1, <3>1
  <2>2. ASSUME NEW k \in Nat, k \in High PROVE k + 1 \in High
    <3> SUFFICES ASSUME k + 1 \in 0 .. n - 1 PROVE order[n - (k + 1)] <= n - (k + 1)
      OBVIOUS
    <3> DEFINE b == n - k
               a == n - (k + 1)
    <3>1. a \in 1 .. n /\ b \in 1 .. n /\ a < b /\ k \in 0 .. n - 1 /\ b = a + 1
      OBVIOUS
    <3>2. order[b] <= b
      BY <2>2, <3>1
    <3> HIDE DEF a, b
    <3>3. order[a] < order[b] /\ order[a] \in 1 .. n /\ order[b] \in 1 .. n
      BY <1>1, <3>1
    <3>4. order[a] <= a
      BY <3>1, <3>2, <3>3
    <3> QED BY <3>4 DEF a
  <2> HIDE DEF High
  <2> QED BY <2>1, <2>2, SetInduction
<1> TAKE k \in 1 .. n
<1>4. k <= order[k]
  BY <1>2
<1>5. order[k] <= k
  <2>1. n - k \in Nat /\ n - k \in 0 .. n - 1 /\ n - (n - k) = k
    OBVIOUS
  <2> QED BY <1>3, <2>1
<1>6. order[k] \in 1 .. n
  BY <1>1
<1> QED BY <1>4, <1>5, <1>6

\* A vector goes to the candidate it was asked for, unless the answer has a gap.
LEMMA EmbedOkInv ==
    ASSUME PipelineAssumption, PipelineInv, EmbedOk
    PROVE  PipelineInv'
<1>1. node = NODE_ORDER[4] /\ NODE_ORDER[5] = "dedup" /\ cands \in Seq(Candidate) /\ Len(cands) \in Nat
  BY DEF EmbedOk, NODE_ORDER, PipelineInv, RunningInv
<1>2. sent' \subseteq Texts /\ attempt' \in 0 .. Attempts /\ \A text \in sent' : ~Secret(text)
  <2>1. node = "embed" /\ sent' = sent \union {c.text : c \in Range(cands)}
    BY DEF EmbedOk
  <2>2. attempt' \in 0 .. Attempts
    BY DEF EmbedOk, PipelineInv, PipelineTypeOK, PipelineAssumption
  <2> QED BY <2>1, <2>2, SentClean
<1>3. PICK present \in SUBSET (1 .. Len(cands)) :
         /\ answer' = IF present = 1 .. Cardinality(present) THEN "list" ELSE "gapped"
         /\ \E order \in Picks(present), good \in SUBSET (1 .. Cardinality(present)) :
               \E pick \in Picks(good) : Leave(Embedded(order, pick))
  BY DEF EmbedOk
<1> DEFINE m == Cardinality(present)
<1>4. PICK order \in Picks(present), good \in SUBSET (1 .. m) :
         \E pick \in Picks(good) : Leave(Embedded(order, pick))
  BY <1>3
<1>5. PICK pick \in Picks(good) : Leave(Embedded(order, pick))
  BY <1>4
<1>6. /\ m \in Nat /\ m <= Len(cands) /\ DOMAIN order = 1 .. m
      /\ \A k \in 1 .. m : order[k] \in 1 .. Len(cands)
  <2>1. /\ Cardinality(present) \in Nat /\ Cardinality(present) <= Len(cands)
        /\ DOMAIN order = 1 .. Cardinality(present)
        /\ \A k \in DOMAIN order : order[k] \in present
    BY <1>1, PicksWithin
  <2>2. \A k \in present : k \in 1 .. Len(cands)
    OBVIOUS
  <2> QED BY <2>1, <2>2
<1>7. /\ answer' \in {"list", "gapped"}
      /\ answer' # "gapped" => present = 1 .. m
  BY <1>3
<1> HIDE DEF m
<1>8. /\ Cardinality(good) \in Nat /\ Cardinality(good) <= m
      /\ DOMAIN pick = 1 .. Cardinality(good)
      /\ \A j \in DOMAIN pick : pick[j] \in 1 .. m /\ pick[j] \in 1 .. Len(cands)
  <2>1. /\ Cardinality(good) \in Nat /\ Cardinality(good) <= m
        /\ DOMAIN pick = 1 .. Cardinality(good)
        /\ \A j \in DOMAIN pick : pick[j] \in good
    BY <1>6, PicksWithin
  <2>2. \A k \in good : k \in 1 .. m /\ k \in 1 .. Len(cands)
    BY <1>1, <1>6
  <2> QED BY <2>1, <2>2
<1>9. answer' # "gapped" => \A k \in 1 .. m : order[k] = k
  BY <1>6, <1>7, PicksInitial
<1>10. \A k \in 1 .. Len(cands) :
         /\ cands[k] \in Candidate /\ cands[k].text \in Texts
         /\ ~Secret(cands[k].text)
         /\ cands[k].scoredFor = cands[k].text /\ cands[k].confidence = "high"
  <2>1. \A k \in 1 .. Len(cands) : Vetted(answer, "embed", cands[k])
    BY <1>1 DEF PipelineInv, RunningInv, NODE_ORDER
  <2> QED BY <1>1, <2>1, CandidateFields DEF Vetted
<1> DEFINE output == Embedded(order, pick)
<1>11. \A j \in DOMAIN pick :
         /\ output[j] \in Candidate
         /\ output[j].text = cands[pick[j]].text /\ ~Secret(output[j].text)
         /\ output[j].vectorFor = cands[order[pick[j]]].text
         /\ output[j].scoredFor = output[j].text /\ output[j].confidence = "high"
  <2> TAKE j \in DOMAIN pick
  <2>1. output[j] = [cands[pick[j]] EXCEPT !.vectorFor = cands[order[pick[j]]].text]
    BY DEF Embedded
  <2>2. pick[j] \in 1 .. Len(cands) /\ order[pick[j]] \in 1 .. Len(cands)
    BY <1>6, <1>8
  <2> HIDE DEF output
  <2>3. PICK c \in Candidate : /\ c = cands[pick[j]] /\ c.text \in Texts /\ ~Secret(c.text)
                              /\ c.scoredFor = c.text /\ c.confidence = "high"
    BY <1>10, <2>2
  <2>4. PICK v \in Texts : v = cands[order[pick[j]]].text
    BY <1>10, <2>2
  <2>5. output[j] = [c EXCEPT !.vectorFor = v]
    BY <2>1, <2>3, <2>4
  <2>6. /\ output[j] \in Candidate /\ output[j].vectorFor = v /\ output[j].text = c.text
        /\ output[j].scoredFor = c.scoredFor /\ output[j].confidence = c.confidence
    BY <2>5 DEF Candidate
  <2> QED BY <2>3, <2>4, <2>6
<1>12. output \in Seq(Candidate) /\ Len(output) = Cardinality(good)
  <2>1. DOMAIN output = DOMAIN pick /\ output = [j \in DOMAIN pick |-> output[j]]
    BY DEF Embedded
  <2> HIDE DEF output
  <2>2. output \in [1 .. Cardinality(good) -> Candidate]
    BY <1>8, <1>11, <2>1
  <2> QED BY <1>8, <2>2
<1>13. Leave(output)
  BY <1>5
<1> HIDE DEF output
<1>14. \A j \in 1 .. Len(output) : Vetted(answer', NODE_ORDER[5], output[j])
  <2> TAKE j \in 1 .. Len(output)
  <2>1. j \in DOMAIN pick /\ pick[j] \in 1 .. m
    BY <1>8, <1>12
  <2>2. answer' # "gapped" => output[j].vectorFor = output[j].text
    BY <1>9, <1>11, <2>1
  <2> QED BY <1>1, <1>11, <2>1, <2>2 DEF Vetted
<1>15. written' = written /\ answer' \in Answers /\ answer' # "error"
  BY <1>7 DEF EmbedOk, Answers
<1>16. Len(output) <= MaxCandidates
  <2>1. Len(cands) <= MaxCandidates /\ MaxCandidates \in Nat
    BY DEF PipelineInv, PipelineTypeOK, PipelineAssumption
  <2> QED BY <1>1, <1>6, <1>8, <1>12, <2>1
<1> QED BY <1>1, <1>2, <1>12, <1>13, <1>14, <1>15, <1>16, LeaveVetted, 4 + 1 = 5, 4 \in 1 .. 5

\* A refused call is tried again with the same list, or ends the job as failed.
LEMMA EmbedErrorInv ==
    ASSUME PipelineAssumption, PipelineInv, EmbedError
    PROVE  PipelineInv'
<1>1. node = "embed" /\ sent' = sent \union {c.text : c \in Range(cands)} /\ written' = written /\ answer' = "error"
  BY DEF EmbedError
<1>2. sent' \subseteq Texts /\ attempt' \in 0 .. Attempts /\ \A text \in sent' : ~Secret(text)
  <2>1. attempt' \in 0 .. Attempts
    BY DEF EmbedError, PipelineInv, PipelineTypeOK, PipelineAssumption
  <2> QED BY <1>1, <2>1, SentClean
<1>3. CASE UNCHANGED <<node, cands, outcome>>
  <2>1. PipelineTypeOK'
    BY <1>1, <1>2, <1>3 DEF PipelineInv, PipelineTypeOK, Answers
  <2> QED BY <1>1, <1>2, <1>3, <2>1 DEF PipelineInv, RunningInv, EndedInv, SentInv, Vetted
<1>4. CASE Fail("failed")
  BY <1>1, <1>2, <1>4, FailHonest DEF Answers
<1> QED BY <1>3, <1>4 DEF EmbedError

\* dedup hands its list on unchanged.
LEMMA DedupInv ==
    ASSUME PipelineInv, Dedup
    PROVE  PipelineInv'
<1>1. /\ node = NODE_ORDER[5] /\ node = "dedup" /\ NODE_ORDER[6] = "write" /\ cands \in Seq(Candidate)
      /\ answer # "error" /\ answer \in Answers /\ written' = written /\ answer' = answer
      /\ \A j \in 1 .. Len(cands) : Vetted(answer, "dedup", cands[j])
  BY DEF Dedup, NODE_ORDER, PipelineInv, RunningInv, PipelineTypeOK
<1>2. /\ sent' \subseteq Texts /\ attempt' \in 0 .. Attempts /\ Len(cands) <= MaxCandidates
      /\ \A text \in sent' : ~Secret(text)
  BY DEF Dedup, PipelineInv, PipelineTypeOK, SentInv
<1>3. \A j \in 1 .. Len(cands) : Vetted(answer', NODE_ORDER[6], cands[j])
  BY <1>1 DEF Vetted
<1>4. CASE Leave(cands)
  BY <1>1, <1>2, <1>3, <1>4, LeaveVetted, 5 + 1 = 6, 5 \in 1 .. 5
<1>5. CASE Fail("failed")
  BY <1>1, <1>2, <1>5, FailHonest
<1> QED BY <1>4, <1>5 DEF Dedup

\* What write commits is the vetted list, whether or not the job is told so.
LEMMA WriteInv ==
    ASSUME PipelineInv, Write \/ Timeout
    PROVE  PipelineInv'
<1>1. node # "end" /\ sent' = sent /\ answer' = answer /\ answer \in Answers /\ attempt' = attempt
  BY DEF Write, Timeout, PipelineInv, PipelineTypeOK
<1>2. sent' \subseteq Texts /\ attempt' \in 0 .. Attempts /\ \A text \in sent' : ~Secret(text)
  BY <1>1 DEF PipelineInv, PipelineTypeOK, SentInv
<1>3. CASE node = "write" /\ written' = cands /\ cands' = cands /\ node' = "end" /\ outcome' \in {"completed", "timeout"}
  <2>1. cands \in Seq(Candidate) /\ (\A j \in 1 .. Len(cands) : Vetted(answer, "write", cands[j])) /\ answer # "error"
    BY <1>3 DEF PipelineInv, RunningInv
  <2>2. PipelineTypeOK'
    BY <1>1, <1>2, <1>3, <2>1 DEF PipelineInv, PipelineTypeOK
  <2> QED BY <1>1, <1>2, <1>3, <2>1, <2>2 DEF PipelineInv, RunningInv, EndedInv, OutcomeHonest, SentInv
<1>4. CASE Fail("failed") /\ UNCHANGED written
  BY <1>1, <1>2, <1>4, FailHonest
<1>5. CASE Fail("timeout") /\ UNCHANGED written
  BY <1>1, <1>2, <1>5, FailHonest
<1> QED BY <1>3, <1>4, <1>5 DEF Write, Timeout, Fail

\* Every node, retry and timeout preserves the invariant.
LEMMA PipelineNextInv ==
    ASSUME PipelineAssumption, PipelineInv, [PipelineNext]_pipelineVars
    PROVE  PipelineInv'
<1>1. CASE UNCHANGED pipelineVars
  BY <1>1 DEF PipelineInv, PipelineTypeOK, RunningInv, EndedInv, OutcomeHonest, SentInv, Vetted, pipelineVars
<1> QED BY <1>1, ExtractInv, PiiInv, EvaluateInv, EmbedOkInv, EmbedErrorInv, DedupInv, WriteInv
       DEF PipelineNext

\* A job starts with nothing.
LEMMA PipelineInitInv == PipelineInit => PipelineInv
<1> SUFFICES ASSUME PipelineInit PROVE PipelineInv
  OBVIOUS
<1>1. "extract" \in Range(NODE_ORDER)
  BY DEF NODE_ORDER, Range
<1>2. PipelineTypeOK
  <2>1. <<>> \in Seq(Candidate) /\ Len(<<>>) <= MaxCandidates /\ 0 \in 0 .. Attempts
    BY PipelineAssumption
  <2> QED BY <1>1, <2>1 DEF PipelineInit, PipelineTypeOK, Answers
<1> QED BY <1>1, <1>2, EmptyVetted DEF PipelineInit, PipelineInv, RunningInv, EndedInv, SentInv, Vetted

\* The invariant of a capture job.
LEMMA PipelineAlways == PipelineSpec => []PipelineInv
  BY PipelineAssumption, PipelineInitInv, PipelineNextInv, PTL DEF PipelineSpec

\* What is written was vetted for the write node.
LEMMA VettedWritten ==
    ASSUME PipelineInv
    PROVE  written \in Seq(Candidate) /\ \A k \in 1 .. Len(written) : Vetted(answer, "write", written[k])
<1>1. CASE node = "end"
  BY <1>1 DEF PipelineInv, EndedInv
<1>2. CASE node # "end"
  <2>1. written = <<>>
    BY <1>2 DEF PipelineInv, RunningInv
  <2> QED BY <2>1, EmptyVetted
<1> QED BY <1>1, <1>2

\* Whichever scans fail, whatever the model and the embedding provider answer, and
\* wherever the job is cut off, no wording that Presidio recognises leaves
\* unredacted after extraction.
THEOREM RawStaysInside == PipelineSpec => []RawNeverLeaves
<1>1. ASSUME PipelineInv PROVE RawNeverLeaves
  <2>1. written \in Seq(Candidate) /\ \A k \in 1 .. Len(written) : ~Secret(written[k].text)
    BY <1>1, VettedWritten DEF Vetted
  <2>2. \A c \in Range(written) : ~Secret(c.text)
    BY <2>1 DEF Range
  <2> QED BY <1>1, <2>2 DEF RawNeverLeaves, PipelineInv, SentInv
<1> QED BY <1>1, PipelineAlways, PTL

\* Every row written was scored above the floor as its own text, and embedded as
\* its own text unless the provider's answer skipped an entry before its last;
\* whatever candidates dropped out and however short the answers were.
THEOREM WrittenIsVetted == PipelineSpec => []WrittenAsItself
<1>1. ASSUME PipelineInv PROVE WrittenAsItself
  <2>1. written \in Seq(Candidate) /\ \A k \in 1 .. Len(written) : Vetted(answer, "write", written[k])
    BY <1>1, VettedWritten
  <2> QED BY <2>1 DEF WrittenAsItself, Range, Vetted
<1> QED BY <1>1, PipelineAlways, PTL

\* A job that ends as completed wrote what was left and was not refused by the
\* embedding provider; a failed one wrote nothing.
THEOREM JobsTellTheTruth == PipelineSpec => []OutcomeHonest
<1>1. PipelineInv => OutcomeHonest
  BY DEF PipelineInv, RunningInv, EndedInv, OutcomeHonest
<1> QED BY <1>1, PipelineAlways, PTL

-----------------------------------------------------------------------------
(* The retry loops. *)

\* Later entries only add to the sum.
LEMMA SumsGrow ==
    ASSUME NEW d \in Seq(Nat), NEW n \in 0 .. Len(d)
    PROVE  \A k \in 0 .. n : Sums(d)[k] <= Sums(d)[n]
<1> DEFINE u == Sums(d)
           S == {m \in Nat : m <= Len(d) => \A k \in 0 .. m : u[k] <= u[m]}
<1>0. Len(d) \in Nat /\ \A k \in 1 .. Len(d) : d[k] \in Nat
  OBVIOUS
<1>1. u \in [0 .. Len(d) -> Nat] /\ \A k \in 1 .. Len(d) : u[k] = u[k - 1] + d[k]
  BY SumsDef
<1> HIDE DEF u
<1>2. 0 \in S
  BY <1>0, <1>1
<1>3. \A m \in Nat : m \in S => m + 1 \in S
  <2> TAKE m \in Nat
  <2> SUFFICES ASSUME m \in S, m + 1 <= Len(d), NEW k \in 0 .. m + 1 PROVE u[k] <= u[m + 1]
    OBVIOUS
  <2>1. m + 1 \in 1 .. Len(d) /\ m \in 0 .. Len(d) /\ (m + 1) - 1 = m
    BY <1>0
  <2>2. u[m + 1] = u[m] + d[m + 1] /\ d[m + 1] \in Nat /\ u[m] \in Nat
    BY <1>0, <1>1, <2>1
  <2>3. CASE k = m + 1
    BY <2>2, <2>3
  <2>4. CASE k # m + 1
    <3>0. k \in 0 .. m /\ k \in 0 .. Len(d)
      BY <1>0, <2>4
    <3>1. k \in 0 .. m /\ u[k] \in Nat
      BY <1>1, <3>0
    <3>2. u[k] <= u[m]
      BY <2>1, <3>1
    <3> QED BY <2>2, <3>1, <3>2
  <2> QED BY <2>3, <2>4
<1>4. Nat \subseteq S
  <2> HIDE DEF S
  <2> QED BY <1>2, <1>3, SetInduction
<1> QED BY <1>0, <1>4 DEF u

\* A moment one call and one sleep, begun while the provider was in trouble, at most
\* behind the end of it.
SoonAfter(time) ==
    \/ time = start
    \/ \E first \in CallTimes, wait \in Waits : time < start + window + first + wait

\* The rounds behind the batch took at least their delays, a batch is given up only
\* while the provider is in trouble, the loops wake up soon after it, and no job
\* that had room runs out of time.
RetryInv ==
    /\ RetryTypeOK
    /\ start <= clock
    /\ result # "timeout" => clock - start >= Sums(EmbedDelays)[round]
    /\ result = "exhausted" => round = Len(EmbedDelays) /\ Schedule < window
    /\ result = "running" => SoonAfter(clock)
    /\ Room => result # "timeout"

\* What the proofs use of the constants.
LEMMA RetryConstants ==
    /\ Len(EmbedDelays) \in Nat /\ Schedule \in Nat
    /\ \A k \in 1 .. Len(EmbedDelays) : EmbedDelays[k] \in Nat
    /\ \A k \in 0 .. Len(EmbedDelays) : Sums(EmbedDelays)[k] \in Nat /\ Sums(EmbedDelays)[k] <= Schedule
    /\ \A k \in 1 .. Len(EmbedDelays) :
          Sums(EmbedDelays)[k] = Sums(EmbedDelays)[k - 1] + EmbedDelays[k]
    /\ Sums(EmbedDelays)[0] = 0
<1> DEFINE d == EmbedDelays
<1>1. d \in Seq(Nat)
  BY RateLimitAssumption
<1> HIDE DEF d
<1>2. Len(d) \in 0 .. Len(d) /\ \A k \in 1 .. Len(d) : d[k] \in Nat
  BY <1>1
<1> QED BY <1>1, <1>2, SumsDef, SumsGrow DEF Schedule, d

\* A call that begins while the job runs ends within the time limit if there is room,
\* and so does the sleep after one that met the trouble.
LEMMA SpendInTime ==
    ASSUME RetryInv, result = "running", NEW time \in CallTimes, NEW sleep \in Nat,
           sleep = 0 \/ (Throttled /\ \E wait \in Waits : sleep <= wait),
           NEW ending \in {"running", "embedded", "exhausted", "rejected"},
           Spend(time + sleep, ending), start' = start, window' = window
    PROVE  /\ clock' \in 0 .. Budget /\ clock <= clock' /\ start' <= clock'
           /\ result' \in {ending, "timeout"}
           /\ result' # "timeout" => clock' = clock + time + sleep
           /\ Room' => result' # "timeout"
<1>1. /\ clock \in Nat /\ clock <= Budget /\ start \in Nat /\ window \in Nat /\ start <= clock
      /\ Budget \in Nat /\ time \in Nat /\ MaxDelay + 1 \in Waits /\ SoonAfter(clock)
      /\ MaxDelay + 1 \in Nat \ {0} /\ CallTimes \subseteq Nat
  BY RateLimitAssumption DEF RetryInv, RetryTypeOK, Waits
<1>2. Waits \subseteq Nat
  BY <1>1, RetryConstants DEF Waits
<1>3. CASE clock + (time + sleep) < Budget
  <2>1. clock' = clock + (time + sleep) /\ result' = ending
    BY <1>3 DEF Spend
  <2> QED BY <1>1, <1>3, <2>1
<1>4. CASE ~(clock + (time + sleep) < Budget)
  <2>1. clock' = Budget /\ result' = "timeout"
    BY <1>4 DEF Spend
  <2>2. clock + time + sleep >= Budget
    BY <1>1, <1>4
  <2>3. ASSUME Room' PROVE FALSE
    <3>1. \A first, last \in CallTimes, wait \in Waits :
             start + window + first + wait + last <= Budget
      BY <2>3 DEF Room
    <3>2. CASE Throttled /\ \E wait \in Waits : sleep <= wait
      <4>1. PICK wait \in Waits : sleep <= wait
        BY <3>2
      <4>2. start + window + time + wait + time <= Budget /\ wait \in Nat
        BY <1>2, <3>1
      <4>3. clock < start + window
        BY <3>2 DEF Throttled
      <4> QED BY <1>1, <2>2, <4>1, <4>2, <4>3
    <3>3. CASE sleep = 0 /\ clock = start
      <4>1. start + window + time + (MaxDelay + 1) + time <= Budget
        BY <1>1, <3>1
      <4> QED BY <1>1, <2>2, <3>3, <4>1
    <3>4. CASE sleep = 0 /\ clock # start
      <4>1. PICK first \in CallTimes, wait \in Waits : clock < start + window + first + wait
        BY <1>1, <3>4 DEF SoonAfter
      <4>2. start + window + first + wait + time <= Budget /\ first \in Nat /\ wait \in Nat
        BY <1>1, <1>2, <3>1
      <4> QED BY <1>1, <2>2, <3>4, <4>1, <4>2
    <3> QED BY <3>2, <3>3, <3>4
  <2> QED BY <1>1, <2>1, <2>3
<1> QED BY <1>3, <1>4

\* A sleep after a call that met the trouble ends soon after it.
LEMMA WakesSoonAfter ==
    ASSUME RetryInv, Throttled, NEW time \in CallTimes, NEW sleep \in Nat,
           NEW wait \in Waits, sleep <= wait, clock' = clock + time + sleep,
           start' = start, window' = window
    PROVE  SoonAfter(clock)'
<1>1. /\ clock \in Nat /\ start \in Nat /\ window \in Nat /\ time \in Nat /\ wait \in Nat
      /\ clock < start + window
  <2>1. /\ clock \in Nat /\ start \in Nat /\ window \in Nat /\ time \in Nat
    BY RateLimitAssumption DEF RetryInv, RetryTypeOK
  <2>2. wait \in Nat
    BY RateLimitAssumption, RetryConstants DEF Waits
  <2> QED BY <2>1, <2>2 DEF Throttled
<1>2. clock' < start' + window' + time + wait
  BY <1>1
<1> QED BY <1>2 DEF SoonAfter

\* A wait between two 429s is a whole number of seconds, one more than the
\* ceiling at most.
LEMMA BackoffCapped ==
    ASSUME NEW n \in Nat, NEW delay \in Backoff(n), NEW more \in Jitter(delay)
    PROVE  delay \in Nat /\ more \in Nat /\ delay + more \in Nat /\ delay + more <= MaxDelay + 1
<1> DEFINE power == BaseDelay * 2^n
<1>1. power \in Int
  BY RateLimitAssumption
<1>2. BaseDelay \in Nat /\ MaxDelay \in Nat /\ RetryAfter \subseteq Nat
  BY RateLimitAssumption
<1>3. 2^n \in Nat
  BY PowerPositive
<1>4. power \in Nat
  BY <1>2, <1>3
<1> HIDE DEF power
<1>5. delay \in Nat /\ delay <= MaxDelay
  BY <1>2, <1>4 DEF Backoff, Lower, power
<1>6. more \in 0 .. 1
  BY <1>5 DEF Jitter
<1> QED BY <1>2, <1>5, <1>6

\* The outer loop goes on to its next round, or gives up after its last.
LEMMA NextAttemptInv ==
    ASSUME RetryInv, NextAttempt, Throttled, result = "running"
    PROVE  RetryInv'
<1> USE RetryConstants
<1>1. /\ clock \in Nat /\ start \in Nat /\ window \in Nat /\ clock \in 0 .. Budget
      /\ round \in 0 .. Len(EmbedDelays) /\ CallAttempts \in Nat \ {0}
      /\ clock - start >= Sums(EmbedDelays)[round] /\ start <= clock
      /\ start \in Leads /\ window \in Windows /\ call \in 0 .. CallAttempts - 1
      /\ CallTimes \subseteq Nat
  BY RateLimitAssumption DEF RetryInv, RetryTypeOK
<1>2. ASSUME NEW time \in CallTimes, DelaysLeft, Spend(time + EmbedDelays[round + 1], "running"),
             round' = round + 1, call' = 0, UNCHANGED <<start, window>>
      PROVE  RetryInv'
  <2> DEFINE p == Sums(EmbedDelays)[round]
             q == EmbedDelays[round + 1]
  <2>1. round + 1 \in 1 .. Len(EmbedDelays) /\ q \in Nat /\ q \in Waits /\ q <= q /\ p \in Nat
    BY <1>1, <1>2 DEF DelaysLeft, Waits
  <2>2. Sums(EmbedDelays)[round + 1] = p + q
    BY <1>1, <2>1
  <2>3. Sums(EmbedDelays)[round'] = p + q /\ start' = start /\ clock - start >= p
    BY <1>1, <1>2, <2>2
  <2>4. Spend(time + q, "running")
    BY <1>2
  <2> HIDE DEF p, q
  <2>5. /\ clock' \in 0 .. Budget /\ clock <= clock' /\ start' <= clock'
        /\ result' \in {"running", "timeout"}
        /\ result' # "timeout" => clock' = clock + time + q
        /\ Room' => result' # "timeout"
    BY <1>2, <2>1, <2>4, SpendInTime
  <2>6. result' # "timeout" => clock' - start' >= Sums(EmbedDelays)[round']
    BY <1>1, <2>1, <2>3, <2>5
  <2>7. RetryTypeOK'
    BY <1>1, <1>2, <2>1, <2>5 DEF RetryTypeOK
  <2>8. result' = "running" => SoonAfter(clock)'
    BY <1>2, <2>1, <2>5, WakesSoonAfter
  <2> QED BY <2>5, <2>6, <2>7, <2>8 DEF RetryInv
<1>3. ASSUME NEW time \in CallTimes, ~DelaysLeft, Spend(time, "exhausted"),
             UNCHANGED <<start, window, round, call>>
      PROVE  RetryInv'
  <2>1. round = Len(EmbedDelays) /\ clock - start >= Schedule /\ Schedule \in Nat
    BY <1>1, <1>3 DEF DelaysLeft, Schedule
  <2>2. Schedule < window
    BY <1>1, <2>1 DEF Throttled
  <2>3. Spend(time + 0, "exhausted")
    <3>1. time + 0 = time
      BY <1>1
    <3> QED BY <1>3, <3>1
  <2>4. /\ clock' \in 0 .. Budget /\ clock <= clock' /\ start' <= clock'
        /\ result' \in {"exhausted", "timeout"}
        /\ Room' => result' # "timeout"
    BY <1>3, <2>3, SpendInTime, 0 \in Nat
  <2>5. RetryTypeOK'
    BY <1>1, <1>3, <2>4 DEF RetryTypeOK
  <2>6. clock' - start' >= Sums(EmbedDelays)[round'] /\ round' = Len(EmbedDelays)
        /\ window' = window
    <3>1. /\ start' = start /\ round' = Len(EmbedDelays) /\ window' = window
          /\ Sums(EmbedDelays)[round'] = Schedule
      BY <1>3, <2>1 DEF Schedule
    <3>2. clock' \in Int
      BY <2>4, RateLimitAssumption
    <3>3. clock' - start >= Schedule
      <4>1. \A a, b, c, d \in Int : a - b >= d /\ a <= c => c - b >= d
        OBVIOUS
      <4>2. clock \in Int /\ start \in Int /\ Schedule \in Int
        BY <1>1, <2>1
      <4> QED BY <2>1, <2>4, <3>2, <4>1, <4>2
    <3> QED BY <3>1, <3>3
  <2> QED BY <2>2, <2>4, <2>5, <2>6 DEF RetryInv, Schedule
<1> QED BY <1>2, <1>3 DEF NextAttempt

\* A call that returns, with vectors or with an error that nobody retries.
LEMMA CallEndsInv ==
    ASSUME RetryInv, CallOk \/ CallRejected
    PROVE  RetryInv'
<1>1. PICK time \in CallTimes, ending \in {"embedded", "rejected"} :
         /\ Spend(time, ending) /\ result = "running"
         /\ UNCHANGED <<start, window, round, call>>
  BY DEF CallOk, CallRejected
<1>2. time + 0 = time /\ time \in Nat /\ start \in Nat /\ clock \in Nat
  BY RateLimitAssumption DEF RetryInv, RetryTypeOK
<1>3. Spend(time + 0, ending)
  BY <1>1, <1>2
<1>4. /\ clock' \in 0 .. Budget /\ clock <= clock' /\ start' <= clock'
      /\ result' \in {ending, "timeout"}
      /\ Room' => result' # "timeout"
  BY <1>1, <1>3, SpendInTime, 0 \in Nat
<1>5. RetryTypeOK'
  BY <1>1, <1>4 DEF RetryInv, RetryTypeOK
<1>6. clock' - start' >= Sums(EmbedDelays)[round']
  <2>1. clock - start >= Sums(EmbedDelays)[round] /\ Sums(EmbedDelays)[round] \in Nat
    BY <1>1, RetryConstants DEF RetryInv, RetryTypeOK
  <2>2. start' = start /\ Sums(EmbedDelays)[round'] = Sums(EmbedDelays)[round]
    BY <1>1
  <2> QED BY <1>2, <1>4, <2>1, <2>2
<1> QED BY <1>1, <1>4, <1>5, <1>6 DEF RetryInv

\* A throttled call that sleeps and is made again.
LEMMA CallAgainInv ==
    ASSUME RetryInv, CallAgain
    PROVE  RetryInv'
<1>1. /\ clock \in Nat /\ start \in Nat /\ window \in Nat
      /\ round \in 0 .. Len(EmbedDelays) /\ CallAttempts \in Nat \ {0}
      /\ clock - start >= Sums(EmbedDelays)[round] /\ start <= clock
      /\ start \in Leads /\ window \in Windows /\ call \in 0 .. CallAttempts - 1
      /\ call < CallAttempts - 1 /\ result = "running" /\ Throttled
      /\ call' = call + 1 /\ UNCHANGED <<start, window, round>>
  BY RateLimitAssumption DEF RetryInv, RetryTypeOK, CallAgain
<1>2. PICK time \in CallTimes, delay \in Backoff(call) : \E more \in Jitter(delay) :
         Spend(time + delay + more, "running")
  BY DEF CallAgain
<1>3. PICK more \in Jitter(delay) : Spend(time + delay + more, "running")
  BY <1>2
<1>4. delay \in Nat /\ more \in Nat /\ delay + more \in Nat /\ delay + more <= MaxDelay + 1
  BY <1>1, BackoffCapped
<1> DEFINE sleep == delay + more
<1>5. time \in Nat /\ time + delay + more = time + sleep /\ MaxDelay + 1 \in Waits
  BY <1>4, RateLimitAssumption DEF Waits
<1>6. Spend(time + sleep, "running")
  BY <1>3, <1>5
<1>7. sleep \in Nat /\ sleep <= MaxDelay + 1
  BY <1>4
<1> HIDE DEF sleep
<1>8. /\ clock' \in 0 .. Budget /\ clock <= clock' /\ start' <= clock'
      /\ result' \in {"running", "timeout"}
      /\ result' # "timeout" => clock' = clock + time + sleep
      /\ Room' => result' # "timeout"
  BY <1>1, <1>5, <1>6, <1>7, SpendInTime
<1>9. RetryTypeOK'
  BY <1>1, <1>8 DEF RetryTypeOK
<1>10. clock' - start' >= Sums(EmbedDelays)[round']
  <2>1. Sums(EmbedDelays)[round'] = Sums(EmbedDelays)[round] /\ Sums(EmbedDelays)[round] \in Nat
    BY <1>1, RetryConstants
  <2> QED BY <1>1, <1>8, <2>1
<1>11. result' = "running" => SoonAfter(clock)'
  BY <1>1, <1>5, <1>7, <1>8, WakesSoonAfter
<1> QED BY <1>8, <1>9, <1>10, <1>11 DEF RetryInv

\* Every step of the two loops keeps the invariant.
LEMMA RetryNextInv == RetryInv /\ [RetryNext]_retryVars => RetryInv'
<1> SUFFICES ASSUME RetryInv, [RetryNext]_retryVars PROVE RetryInv'
  OBVIOUS
<1>1. CASE UNCHANGED retryVars
  BY <1>1 DEF retryVars, RetryInv, RetryTypeOK, Schedule, SoonAfter, Room
<1>2. CASE CallExhausted \/ CallBroken
  BY <1>2, NextAttemptInv DEF CallExhausted, CallBroken
<1> QED BY <1>1, <1>2, CallEndsInv, CallAgainInv DEF RetryNext

\* The first call is made at the first round.
LEMMA RetryInitInv == RetryInit => RetryInv
<1> SUFFICES ASSUME RetryInit PROVE RetryInv
  OBVIOUS
<1>1. /\ clock \in 0 .. Budget - 1 /\ clock \in Leads /\ Budget \in Nat
      /\ CallAttempts \in Nat \ {0}
  BY RateLimitAssumption DEF RetryInit
<1> QED BY <1>1, RetryConstants DEF RetryInit, RetryInv, RetryTypeOK, SoonAfter

\* For any schedule, ceiling, time limit, call times and time used before: a batch is
\* given up only for trouble that outlasts the schedule, and no job that has room for
\* the trouble runs out of time.
THEOREM TroubleIsSurvived == RetrySpec => []TroubleSurvived
<1>1. RetryInv => TroubleSurvived
  <2> SUFFICES ASSUME RetryInv PROVE TroubleSurvived
    OBVIOUS
  <2>1. window \in Nat
    BY RateLimitAssumption DEF RetryInv, RetryTypeOK
  <2> QED BY <2>1, RetryConstants DEF RetryInv, TroubleSurvived, Schedule
<1> QED BY <1>1, RetryInitInv, RetryNextInv, PTL DEF RetrySpec

-----------------------------------------------------------------------------
(* Retrieval and the composer. *)

\* A clamped value is a score, and clamping keeps the order.
LEMMA ClampGrows ==
    ASSUME NEW v \in Int, NEW w \in Int, v <= w
    PROVE  Clamp(v) \in 0 .. Unit /\ Clamp(v) <= Clamp(w)
  BY RankingAssumption DEF Clamp

\* So does the normalisation of either path.
LEMMA NormalizedGrows ==
    ASSUME NEW p \in Path, NEW v \in Int, NEW w \in Int, v <= w
    PROVE  Normalized(p, v) \in 0 .. Unit /\ Normalized(p, v) <= Normalized(p, w)
<1>1. CASE p = "semantic"
  BY <1>1, ClampGrows DEF Normalized
<1>2. CASE p # "semantic" /\ v > 0
  <2>1. v \in Nat \ {0} /\ w \in Nat \ {0} /\ Unit \in Nat \ {0} /\ TsRankReference \in Nat \ {0}
    BY <1>2, RankingAssumption
  <2>2. Normalized(p, v) = (Unit * v) \div (v + TsRankReference)
    BY <1>2 DEF Normalized
  <2>3. Normalized(p, w) = (Unit * w) \div (w + TsRankReference)
    BY <1>2, <2>1 DEF Normalized
  <2> QED BY <2>1, <2>2, <2>3, SaturationGrows
<1>3. CASE p # "semantic" /\ ~(v > 0)
  <2>1. Normalized(p, v) = 0
    BY <1>3 DEF Normalized
  <2>2. CASE w > 0
    <3>1. w \in Nat \ {0} /\ Unit \in Nat \ {0} /\ TsRankReference \in Nat \ {0}
      BY <2>2, RankingAssumption
    <3>2. Normalized(p, w) = (Unit * w) \div (w + TsRankReference)
      BY <1>3, <2>2 DEF Normalized
    <3>3. (Unit * w) \div (w + TsRankReference) \in 0 .. Unit
      BY <3>1, SaturationGrows
    <3> QED BY <2>1, <3>1, <3>2, <3>3
  <2>3. CASE ~(w > 0)
    BY <1>3, <2>1, <2>3, RankingAssumption DEF Normalized
  <2> QED BY <2>2, <2>3
<1> QED BY <1>2, <1>1, <1>3

\* What hybrid_search has received: raw scores of known memories.
GotOK == \A p \in Path : DOMAIN got[p] \subseteq Ids /\ \A id \in DOMAIN got[p] : got[p][id] \in Int

\* A memory that a path does not find scores 0 on it.
LEMMA PathScoreGrows ==
    ASSUME GotOK, NEW p \in Path, NEW a, NEW b,
           b \in DOMAIN got[p] => a \in DOMAIN got[p] /\ got[p][a] >= got[p][b]
    PROVE  /\ PathScore(got, p, a) \in 0 .. Unit /\ PathScore(got, p, b) \in 0 .. Unit
           /\ PathScore(got, p, b) <= PathScore(got, p, a)
<1>1. \A id \in DOMAIN got[p] : got[p][id] \in Int
  BY DEF GotOK
<1>2. \A id : PathScore(got, p, id) \in 0 .. Unit
  <2> TAKE id
  <2>1. CASE id \in DOMAIN got[p]
    <3>1. got[p][id] \in Int /\ got[p][id] <= got[p][id]
      BY <1>1, <2>1
    <3>2. Normalized(p, got[p][id]) \in 0 .. Unit
      BY <3>1, NormalizedGrows
    <3> QED BY <2>1, <3>2 DEF PathScore
  <2>2. CASE id \notin DOMAIN got[p]
    BY <2>2, RankingAssumption DEF PathScore
  <2> QED BY <2>1, <2>2
<1>3. PathScore(got, p, b) <= PathScore(got, p, a)
  <2>1. CASE b \in DOMAIN got[p]
    <3>1. got[p][a] \in Int /\ got[p][b] \in Int /\ got[p][b] <= got[p][a]
      BY <1>1, <2>1
    <3>2. Normalized(p, got[p][b]) <= Normalized(p, got[p][a])
      BY <3>1, NormalizedGrows
    <3> QED BY <2>1, <3>2 DEF PathScore
  <2>2. CASE b \notin DOMAIN got[p]
    <3>1. PathScore(got, p, b) = 0
      BY <2>2 DEF PathScore
    <3>2. PathScore(got, p, a) >= 0
      BY <1>2, RankingAssumption
    <3> QED BY <3>1, <3>2
  <2> QED BY <2>1, <2>2
<1> QED BY <1>2, <1>3

\* The zero-filled mean rewards agreement: every memory is divided by the same
\* number of paths.
LEMMA MergedGrows ==
    ASSUME GotOK, NEW a, NEW b,
           \A p \in Path : b \in DOMAIN got[p] => a \in DOMAIN got[p] /\ got[p][a] >= got[p][b]
    PROVE  /\ Merged(got, a) \in Int /\ Merged(got, b) \in Int
           /\ Merged(got, b) <= Merged(got, a)
<1> DEFINE contributing == {p \in Path : DOMAIN got[p] # {}}
           n == IF contributing = {} THEN 1 ELSE Cardinality(contributing)
           x == PathScore(got, "semantic", a) + PathScore(got, "keyword", a)
           y == PathScore(got, "semantic", b) + PathScore(got, "keyword", b)
<1>1. n \in Nat \ {0}
  <2>1. IsFiniteSet(Path)
    <3>1. IsFiniteSet({"semantic"})
      BY FS_Singleton
    <3>2. Path = {"semantic"} \cup {"keyword"}
      BY DEF Path
    <3> QED BY <3>1, <3>2, FS_AddElement
  <2>2. IsFiniteSet(contributing)
    BY <2>1, FS_Subset
  <2> HIDE DEF contributing
  <2> QED BY <2>2, FS_CardinalityType, FS_EmptySet
<1>2. x \in Int /\ y \in Int /\ y <= x
  <2>1. \A p \in Path : /\ PathScore(got, p, a) \in 0 .. Unit /\ PathScore(got, p, b) \in 0 .. Unit
                        /\ PathScore(got, p, b) <= PathScore(got, p, a)
    BY PathScoreGrows
  <2> QED BY <2>1, RankingAssumption DEF Path
<1>3. Merged(got, a) = x \div n /\ Merged(got, b) = y \div n
  BY DEF Merged
<1> HIDE DEF n, x, y
<1> QED BY <1>1, <1>2, <1>3, Division, DivMonotone

\* A column of a row: a number or NULL.
Column == Int \union {Null}

\* Every signal is a score.
LEMMA SignalsBounded ==
    ASSUME NEW v \in Column
    PROVE  Halved(v) \in 0 .. Unit /\ Frequency(v) \in 0 .. Unit /\ Importance(v) \in 0 .. Unit
<1>0. Unit \in Nat \ {0} /\ FrequencyReference \in Nat \ {0}
  BY RankingAssumption
<1>1. CASE v = Null
  <2>1. Unit \div 2 \in 0 .. Unit
    BY <1>0
  <2> QED BY <1>0, <1>1, <2>1 DEF Halved, Frequency, Importance
<1>2. CASE v # Null /\ v \in Int
  <2>1. Importance(v) \in 0 .. Unit
    BY <1>2, ClampGrows DEF Importance
  <2>2. Halved(v) \in 0 .. Unit
    <3>1. CASE v <= 0
      BY <1>0, <1>2, <3>1 DEF Halved
    <3>2. CASE ~(v <= 0)
      <4>1. 2 ^ v \in Nat \ {0}
        BY <1>2, <3>2, PowerPositive
      <4>2. Halved(v) = Unit \div (2 ^ v)
        BY <1>2, <3>2 DEF Halved
      <4> DEFINE b == 2 ^ v
                 q == Unit \div b
      <4> HIDE DEF b
      <4>3. b \in Nat \ {0} /\ Unit \in Int
        BY <1>0, <4>1 DEF b
      <4>4. q \in Int /\ q * b <= Unit
        BY <4>3, Division
      <4>5. 0 * b <= Unit
        BY <1>0, <4>3
      <4>6. 0 <= q
        BY <4>3, <4>5, LargestQuotient
      <4> HIDE DEF q
      <4>7. q <= q * b
        BY <4>3, <4>4, <4>6
      <4>8. q <= Unit
        BY <1>0, <4>3, <4>4, <4>7
      <4> QED BY <1>0, <4>2, <4>4, <4>6, <4>8 DEF b, q
    <3> QED BY <3>1, <3>2
  <2>3. Frequency(v) \in 0 .. Unit
    <3>1. CASE v <= 0
      BY <1>0, <1>2, <3>1 DEF Frequency
    <3>2. CASE ~(v <= 0)
      <4>1. v \in Nat \ {0}
        BY <1>2, <3>2
      <4>2. Frequency(v) = (Unit * v) \div (v + FrequencyReference)
        BY <1>2, <3>2 DEF Frequency
      <4> QED BY <1>0, <4>1, <4>2, SaturationGrows
    <3> QED BY <3>1, <3>2
  <2> QED BY <2>1, <2>2, <2>3
<1> QED BY <1>1, <1>2 DEF Column

\* The rows the composer reads.
RowOK(row) == row.created \in Column /\ row.accessed \in Column /\ row.count \in Column
              /\ row.importance \in Column /\ row.length \in Nat

\* A total is a weighted mean of five scores.
LEMMA TotalBounded ==
    ASSUME GotOK, NEW id, NEW row, RowOK(row)
    PROVE  Total(got, row, id) \in 0 .. 100 * Unit
<1> DEFINE m == Clamp(Merged(got, id))
           c == Halved(row.created)
           d == Halved(row.accessed)
           f == Frequency(row.count)
           i == Importance(row.importance)
<1>1. m \in 0 .. Unit
  <2>1. \A p \in Path : id \in DOMAIN got[p] => got[p][id] >= got[p][id]
    BY DEF GotOK
  <2>2. Merged(got, id) \in Int
    BY <2>1, MergedGrows
  <2> QED BY <2>2, ClampGrows
<1>2. c \in 0 .. Unit /\ d \in 0 .. Unit /\ f \in 0 .. Unit /\ i \in 0 .. Unit
  BY SignalsBounded DEF RowOK
<1>3. Total(got, row, id) = 35 * m + 25 * c + 10 * d + 10 * f + 20 * i
  BY DEF Total
<1> HIDE DEF m, c, d, f, i
<1> QED BY <1>1, <1>2, <1>3, RankingAssumption

\* A memory that is nowhere behind another has no smaller total.
LEMMA DominatesTotal ==
    ASSUME GotOK, NEW a, NEW b, RowOK(rows[a]), RowOK(rows[b]), Dominates(a, b)
    PROVE  Total(got, rows[b], b) <= Total(got, rows[a], a)
<1> DEFINE m(x) == Clamp(Merged(got, x))
           c(x) == Halved(rows[x].created)
           d(x) == Halved(rows[x].accessed)
           f(x) == Frequency(rows[x].count)
           i(x) == Importance(rows[x].importance)
<1>1. m(b) \in Int /\ m(a) \in Int /\ m(b) <= m(a)
  <2>1. Merged(got, a) \in Int /\ Merged(got, b) \in Int /\ Merged(got, b) <= Merged(got, a)
    BY MergedGrows DEF Dominates
  <2> QED BY <2>1, ClampGrows
<1>2. /\ c(a) \in Int /\ d(a) \in Int /\ f(a) \in Int /\ i(a) \in Int
      /\ c(b) \in Int /\ d(b) \in Int /\ f(b) \in Int /\ i(b) \in Int
  BY SignalsBounded, RankingAssumption DEF RowOK
<1>3. c(b) <= c(a) /\ d(b) <= d(a) /\ f(b) <= f(a) /\ i(b) <= i(a)
  BY <1>2 DEF Dominates
<1>4. /\ Total(got, rows[a], a) = 35 * m(a) + 25 * c(a) + 10 * d(a) + 10 * f(a) + 20 * i(a)
      /\ Total(got, rows[b], b) = 35 * m(b) + 25 * c(b) + 10 * d(b) + 10 * f(b) + 20 * i(b)
  BY DEF Total
<1> HIDE DEF m, c, d, f, i
<1> QED BY <1>1, <1>2, <1>3, <1>4

\* Rounding keeps the order of totals.
LEMMA RoundedGrows ==
    ASSUME NEW s \in Int, NEW t \in Int, s <= t
    PROVE  Rounded(s) \in Int /\ Rounded(t) \in Int /\ Rounded(s) <= Rounded(t)
<1> DEFINE x == 2 * s + Grain
           y == 2 * t + Grain
           g == 2 * Grain
<1>1. x \in Int /\ y \in Int /\ x <= y /\ g \in Nat \ {0}
  BY RankingAssumption
<1>2. Rounded(s) = x \div g /\ Rounded(t) = y \div g
  BY DEF Rounded
<1> HIDE DEF x, y, g
<1> QED BY <1>1, <1>2, Division, DivMonotone

\* A list of n different members of a set of n members holds all of them.
LEMMA OntoByCount ==
    ASSUME NEW S, IsFiniteSet(S), NEW f \in [1 .. Cardinality(S) -> S],
           \A a, b \in 1 .. Cardinality(S) : a < b => f[a] # f[b]
    PROVE  \A x \in S : \E k \in 1 .. Cardinality(S) : f[k] = x
<1> DEFINE n == Cardinality(S)
<1>1. n \in Nat
  BY FS_CardinalityType
<1>2. Cardinality(1 .. n) = n
  BY <1>1, FS_Interval
<1>3. \A a, b \in 1 .. n : f[a] = f[b] => a = b
  BY <1>1
<1> HIDE DEF n
<1>4. f \in [1 .. n -> S]
  BY DEF n
<1>5. f \in Injection(1 .. n, S)
  BY <1>3, <1>4 DEF Injection, IsInjective
<1>6. f \in Surjection(1 .. n, S)
  BY <1>2, <1>5, FS_Injection DEF n
<1> QED BY <1>6 DEF Surjection, n

\* Two totals, or two ids with the same rounded total, come in one order only.
LEMMA BeforeOrder ==
    ASSUME NEW total, NEW a \in Int, NEW b \in Int, total[a] \in Int, total[b] \in Int
    PROVE  /\ Before(total, a, b) => a # b /\ ~Before(total, b, a)
           /\ a # b => Before(total, a, b) \/ Before(total, b, a)
<1>1. Rounded(total[a]) \in Int /\ Rounded(total[b]) \in Int
  BY RoundedGrows
<1> QED BY <1>1 DEF Before

\* A sorted list holds every memory found, once.
LEMMA SortedWhole ==
    ASSUME NEW total, IsFiniteSet(DOMAIN total), DOMAIN total \subseteq Nat,
           \A id \in DOMAIN total : total[id] \in Int, NEW order \in Sorted(total)
    PROVE  /\ Cardinality(DOMAIN total) \in Nat
           /\ order \in Seq(DOMAIN total) /\ Len(order) = Cardinality(DOMAIN total)
           /\ \A a, b \in 1 .. Len(order) : a < b => Before(total, order[a], order[b])
           /\ \A id \in DOMAIN total : \E k \in 1 .. Len(order) : order[k] = id
<1> DEFINE S == DOMAIN total
           n == Cardinality(S)
<1>1. n \in Nat
  BY FS_CardinalityType
<1>2. order \in [1 .. n -> S] /\ \A a, b \in 1 .. n : a < b => Before(total, order[a], order[b])
  BY DEF Sorted
<1>3. order \in Seq(S) /\ Len(order) = n
  BY <1>1, <1>2
<1>4. \A a, b \in 1 .. n : a < b => order[a] # order[b]
  <2> TAKE a, b \in 1 .. n
  <2>1. order[a] \in S /\ order[b] \in S
    BY <1>2
  <2> HIDE DEF n
  <2> QED BY <1>2, <2>1, BeforeOrder
<1>5. \A id \in S : \E k \in 1 .. n : order[k] = id
  BY <1>2, <1>4, OntoByCount
<1> QED BY <1>1, <1>2, <1>3, <1>5

\* A filter keeps every position it is asked for, in order.
LEMMA PicksWhole ==
    ASSUME NEW n \in Nat, NEW K \in SUBSET (1 .. n), NEW pick \in Picks(K)
    PROVE  /\ pick \in Seq(K) /\ Len(pick) <= n
           /\ \A a, b \in 1 .. Len(pick) : a < b => pick[a] < pick[b]
           /\ \A k \in K : \E j \in 1 .. Len(pick) : pick[j] = k
<1> DEFINE c == Cardinality(K)
<1>1. IsFiniteSet(1 .. n) /\ Cardinality(1 .. n) = n
  BY FS_Interval
<1>2. IsFiniteSet(K) /\ c <= n
  BY <1>1, FS_Subset
<1>3. c \in Nat
  BY <1>2, FS_CardinalityType
<1>4. pick \in [1 .. c -> K] /\ \A a, b \in 1 .. c : a < b => pick[a] < pick[b]
  BY DEF Picks
<1>5. pick \in Seq(K) /\ Len(pick) = c
  BY <1>3, <1>4
<1>6. \A a, b \in 1 .. c : a < b => pick[a] # pick[b]
  <2>1. \A a \in 1 .. c : pick[a] \in Int
    <3>1. \A x \in K : x \in Int
      OBVIOUS
    <3>2. \A a \in 1 .. c : pick[a] \in K
      BY <1>4
    <3> QED BY <3>1, <3>2
  <2> HIDE DEF c
  <2> QED BY <1>4, <2>1
<1>7. \A k \in K : \E j \in 1 .. c : pick[j] = k
  <2>1. pick \in [1 .. c -> K] /\ \A a, b \in 1 .. c : a < b => pick[a] # pick[b]
    BY <1>4, <1>6
  <2> QED BY <1>2, <2>1, OntoByCount
<1> HIDE DEF c
<1> QED BY <1>2, <1>4, <1>5, <1>7

\* Removing the k-th entry of a list.
LEMMA RemoveAtFacts ==
    ASSUME NEW S, NEW s \in Seq(S), NEW k \in 1 .. Len(s)
    PROVE  /\ RemoveAt(s, k) \in Seq(S) /\ Len(RemoveAt(s, k)) = Len(s) - 1
           /\ \A j \in 1 .. Len(s) - 1 : RemoveAt(s, k)[j] = IF j < k THEN s[j] ELSE s[j + 1]
<1> DEFINE x == SubSeq(s, 1, k - 1)
           y == SubSeq(s, k + 1, Len(s))
<1>0. Len(s) \in Nat /\ \A i \in 1 .. Len(s) : s[i] \in S
  OBVIOUS
<1>1. /\ x \in Seq(S) /\ Len(x) = k - 1
      /\ \A i \in 1 .. k - 1 : x[i] = s[i]
  <2>1. \A i \in 1 .. k - 1 : s[i] \in S
    BY <1>0
  <2>2. /\ x \in Seq(S) /\ Len(x) = IF 1 <= k - 1 THEN (k - 1) - 1 + 1 ELSE 0
        /\ \A i \in 1 .. (k - 1) - 1 + 1 : x[i] = s[1 + i - 1]
    BY <2>1, SubSeqProperties
  <2> HIDE DEF x
  <2> QED BY <1>0, <2>2
<1>2. /\ y \in Seq(S) /\ Len(y) = Len(s) - k
      /\ \A i \in 1 .. Len(s) - k : y[i] = s[k + i]
  <2>1. \A i \in k + 1 .. Len(s) : s[i] \in S
    BY <1>0
  <2>2. /\ y \in Seq(S) /\ Len(y) = IF k + 1 <= Len(s) THEN Len(s) - (k + 1) + 1 ELSE 0
        /\ \A i \in 1 .. Len(s) - (k + 1) + 1 : y[i] = s[(k + 1) + i - 1]
    BY <1>0, <2>1, SubSeqProperties
  <2> HIDE DEF y
  <2> QED BY <1>0, <2>2
<1>3. RemoveAt(s, k) = x \o y
  BY DEF RemoveAt
<1> HIDE DEF x, y
<1>4. x \o y \in Seq(S) /\ Len(x \o y) = Len(s) - 1
  BY <1>0, <1>1, <1>2
<1>5. \A j \in 1 .. Len(s) - 1 : (x \o y)[j] = IF j < k THEN s[j] ELSE s[j + 1]
  <2> TAKE j \in 1 .. Len(s) - 1
  <2>1. (x \o y)[j] = IF j <= Len(x) THEN x[j] ELSE y[j - Len(x)]
    BY <1>0, <1>1, <1>2
  <2>2. CASE j < k
    BY <1>0, <1>1, <2>1, <2>2
  <2>3. CASE ~(j < k)
    <3>1. j - (k - 1) \in 1 .. Len(s) - k /\ k + (j - (k - 1)) = j + 1
      BY <1>0, <2>3
    <3>2. (x \o y)[j] = y[j - (k - 1)]
      BY <1>0, <1>1, <2>1, <2>3
    <3> QED BY <1>2, <2>3, <3>1, <3>2
  <2> QED BY <2>2, <2>3
<1> QED BY <1>3, <1>4, <1>5

\* What the ranking leaves for the composer: sorted, no blank line, and nothing
\* that comes before a member of it is missing except blank lines.
RankedOK ==
    /\ score = [id \in Found(got) |-> Total(got, rows[id], id)]
    /\ ranked \in Seq(DOMAIN score) /\ Len(ranked) <= TopK
    /\ \A a, b \in 1 .. Len(ranked) : a < b => Before(score, ranked[a], ranked[b])
    /\ \A k \in 1 .. Len(ranked) : rows[ranked[k]].length > 0
    /\ \A k \in 1 .. Len(ranked) : \A id \in DOMAIN score :
          Before(score, id, ranked[k]) /\ rows[id].length > 0
             => \E j \in 1 .. Len(ranked) : ranked[j] = id

\* Whatever is worse than a memory that was dropped was dropped.
SelectedOK ==
    /\ selected \in Seq(DOMAIN score) /\ dropped \in Seq(DOMAIN score)
    /\ Len(selected) + Len(dropped) = Len(ranked)
    /\ ToSet(selected) \union ToSet(dropped) = ToSet(ranked)
    /\ \A a \in ToSet(ranked) : \A b \in ToSet(selected) : Worse(b, a) => a \in ToSet(selected)

ComposeInv ==
    /\ \A id \in Ids : RowOK(rows[id])
    /\ budget \in Int
    /\ \A p \in Path : /\ DOMAIN index[p] \subseteq Ids
                       /\ \A id \in DOMAIN index[p] : index[p][id] \in Int
                       /\ got[p] \in {Nothing, index[p]}
    /\ DOMAIN got = Path
    /\ running \subseteq Path /\ phase \in {"search", "fit", "done"}
    /\ IF phase = "search"
       THEN score = Nothing /\ ranked = <<>> /\ selected = <<>> /\ dropped = <<>>
       ELSE running = {} /\ RankedOK /\ SelectedOK

\* The memories found, and their totals.
LEMMA ScoreFacts ==
    ASSUME ComposeInv, NEW total, total = [id \in Found(got) |-> Total(got, rows[id], id)]
    PROVE  /\ GotOK
           /\ DOMAIN total = Found(got) /\ DOMAIN total \subseteq Ids
           /\ IsFiniteSet(DOMAIN total) /\ DOMAIN total \subseteq Nat
           /\ \A id \in DOMAIN total : total[id] \in 0 .. 100 * Unit /\ total[id] \in Int
<1>1. GotOK
  <2> SUFFICES ASSUME NEW p \in Path
               PROVE  DOMAIN got[p] \subseteq Ids /\ \A id \in DOMAIN got[p] : got[p][id] \in Int
    BY DEF GotOK
  <2>1. /\ DOMAIN index[p] \subseteq Ids /\ got[p] \in {Nothing, index[p]}
        /\ \A id \in DOMAIN index[p] : index[p][id] \in Int
    BY DEF ComposeInv
  <2>2. DOMAIN Nothing = {}
    BY DEF Nothing
  <2> QED BY <2>1, <2>2
<1>2. Found(got) \subseteq Ids
  BY <1>1 DEF Found, GotOK
<1>3. DOMAIN total = Found(got)
  OBVIOUS
<1>4. IsFiniteSet(Found(got)) /\ Found(got) \subseteq Nat
  BY <1>2, ComposerAssumption, FS_Subset
<1>5. \A id \in Found(got) : total[id] \in 0 .. 100 * Unit
  BY <1>1, <1>2, TotalBounded DEF ComposeInv
<1>6. \A id \in Found(got) : total[id] \in Int
  BY <1>5, RankingAssumption
<1> QED BY <1>1, <1>2, <1>3, <1>4, <1>5, <1>6

\* rank, and the head of compose_profile_block.
LEMMA RankInv ==
    ASSUME ComposeInv, Rank
    PROVE  ComposeInv'
<1>1. /\ phase = "search" /\ running = {} /\ phase' = "fit" /\ UNCHANGED <<blank, rows, index, got, running, budget>>
      /\ score' = [id \in Found(got) |-> Total(got, rows[id], id)]
      /\ selected' = ranked' /\ dropped' = <<>>
  BY DEF Rank
<1> DEFINE total == score'
<1>2. /\ DOMAIN total \subseteq Ids /\ IsFiniteSet(DOMAIN total) /\ DOMAIN total \subseteq Nat
      /\ \A id \in DOMAIN total : total[id] \in Int
  BY <1>1, ScoreFacts
<1>3. PICK order \in Sorted(total) :
          \E pick \in Picks({k \in Top(order) : rows[order[k]].length > 0}) :
             ranked' = [j \in 1 .. Len(pick) |-> order[pick[j]]]
  BY DEF Rank
<1> DEFINE K == {k \in Top(order) : rows[order[k]].length > 0}
           S == DOMAIN total
<1>4. PICK pick \in Picks(K) : ranked' = [j \in 1 .. Len(pick) |-> order[pick[j]]]
  BY <1>3
<1>5. /\ order \in Seq(S) /\ Len(order) \in Nat
      /\ \A a, b \in 1 .. Len(order) : a < b => Before(total, order[a], order[b])
      /\ \A id \in S : \E k \in 1 .. Len(order) : order[k] = id
  <2> HIDE DEF total
  <2> QED BY <1>2, SortedWhole
<1> DEFINE n == IF TopK < Len(order) THEN TopK ELSE Len(order)
<1>6. n \in Nat /\ n <= TopK /\ n <= Len(order) /\ TopK \in Nat /\ Top(order) = 1 .. n
  BY <1>5, ComposerAssumption DEF Top
<1>7. K \in SUBSET (1 .. n)
  BY <1>6
<1> HIDE DEF n
<1>8. /\ pick \in Seq(K) /\ Len(pick) <= n /\ Len(pick) \in Nat
      /\ \A a, b \in 1 .. Len(pick) : a < b => pick[a] < pick[b]
      /\ \A k \in K : \E j \in 1 .. Len(pick) : pick[j] = k
  <2> HIDE DEF K
  <2>1. pick \in Seq(K)
    BY <1>6, <1>7, PicksWhole
  <2> QED BY <1>6, <1>7, <2>1, PicksWhole
<1>9. \A j \in 1 .. Len(pick) : /\ pick[j] \in K /\ pick[j] \in 1 .. n /\ pick[j] \in 1 .. Len(order)
                                /\ rows[order[pick[j]]].length > 0
  <2>1. \A k \in K : k \in 1 .. n /\ k \in 1 .. Len(order) /\ rows[order[k]].length > 0
    BY <1>5, <1>6
  <2>2. \A j \in 1 .. Len(pick) : pick[j] \in K
    <3> HIDE DEF K
    <3> QED BY <1>8
  <2> HIDE DEF K
  <2> QED BY <2>1, <2>2
<1>10. /\ ranked' \in Seq(S) /\ Len(ranked') = Len(pick)
       /\ \A j \in 1 .. Len(pick) : ranked'[j] = order[pick[j]]
  <2> HIDE DEF S, K
  <2>1. \A j \in 1 .. Len(pick) : order[pick[j]] \in S
    BY <1>5, <1>9
  <2> QED BY <1>4, <1>8, <2>1
<1> HIDE DEF total
<1>11. \A a, b \in 1 .. Len(pick) : a < b => Before(total, ranked'[a], ranked'[b])
  <2> HIDE DEF S, K
  <2> TAKE a, b \in 1 .. Len(pick)
  <2> HAVE a < b
  <2>1. pick[a] < pick[b] /\ pick[a] \in 1 .. Len(order) /\ pick[b] \in 1 .. Len(order)
    BY <1>8, <1>9
  <2> QED BY <1>5, <1>10, <2>1
<1>12. ASSUME NEW k \in 1 .. Len(pick), NEW id \in S, Before(total, id, ranked'[k]),
              rows[id].length > 0
       PROVE  \E j \in 1 .. Len(pick) : ranked'[j] = id
  <2>1. PICK i \in 1 .. Len(order) : order[i] = id
    BY <1>5
  <2>2. ranked'[k] = order[pick[k]] /\ pick[k] \in 1 .. n /\ pick[k] \in 1 .. Len(order)
    <3> HIDE DEF S, K
    <3> QED BY <1>9, <1>10
  <2>3. ranked'[k] \in S
    <3> HIDE DEF S, K
    <3>1. \A q \in 1 .. Len(order) : order[q] \in S
      BY <1>5
    <3> QED BY <2>2, <3>1
  <2>4. i < pick[k]
    <3> SUFFICES ASSUME ~(i < pick[k]) PROVE FALSE
      OBVIOUS
    <3>1. id \in Int /\ ranked'[k] \in Int /\ total[id] \in Int /\ total[ranked'[k]] \in Int
      BY <1>2, <2>3
    <3>2. id # ranked'[k] /\ ~Before(total, ranked'[k], id)
      BY <1>12, <3>1, BeforeOrder
    <3>3. pick[k] < i
      BY <2>1, <2>2, <3>2
    <3> QED BY <1>5, <2>1, <2>2, <3>2, <3>3
  <2>5. i \in K
    <3>1. i \in 1 .. n
      BY <1>6, <2>1, <2>2, <2>4
    <3> QED BY <1>6, <1>12, <2>1, <3>1
  <2>6. PICK j \in 1 .. Len(pick) : pick[j] = i
    <3> HIDE DEF K
    <3> QED BY <1>8, <2>5
  <2> QED BY <1>10, <2>1, <2>6
<1>13. \A k \in 1 .. Len(pick) : rows[ranked'[k]].length > 0
  BY <1>9, <1>10
<1>14. RankedOK'
  <2>1. Len(ranked') <= TopK
    BY <1>6, <1>8, <1>10
  <2>2. rows' = rows /\ got' = got /\ total = score' /\ S = DOMAIN score'
    BY <1>1 DEF total
  <2> HIDE DEF S, K
  <2>3. score' = [id \in Found(got') |-> Total(got', rows'[id], id)]
    BY <1>1
  <2>4. ranked' \in Seq(DOMAIN score')
    BY <1>10, <2>2
  <2>5. \A a, b \in 1 .. Len(ranked') : a < b => Before(score', ranked'[a], ranked'[b])
    BY <1>10, <1>11, <2>2
  <2>6. \A k \in 1 .. Len(ranked') : rows'[ranked'[k]].length > 0
    BY <1>10, <1>13, <2>2
  <2>7. \A k \in 1 .. Len(ranked') : \A id \in DOMAIN score' :
           Before(score', id, ranked'[k]) /\ rows'[id].length > 0
             => \E j \in 1 .. Len(ranked') : ranked'[j] = id
    BY <1>10, <1>12, <2>2
  <2> QED BY <2>1, <2>3, <2>4, <2>5, <2>6, <2>7 DEF RankedOK
<1>15. SelectedOK'
  <2>1. ranked' \in Seq(DOMAIN score') /\ Len(ranked') \in Nat
    BY <1>10 DEF total
  <2>2. dropped' \in Seq(DOMAIN score') /\ Len(dropped') = 0 /\ ToSet(dropped') = {}
    BY <1>1 DEF ToSet
  <2> QED BY <1>1, <2>1, <2>2 DEF SelectedOK
<1> QED BY <1>1, <1>14, <1>15 DEF ComposeInv, RowOK

\* The drop loop takes the worst that is left.
LEMMA DropInv ==
    ASSUME ComposeInv, Drop
    PROVE  ComposeInv'
<1>1. /\ phase = "fit" /\ UNCHANGED <<blank, rows, index, got, running, phase, score, ranked, budget>>
      /\ RankedOK /\ SelectedOK
  BY DEF Drop, ComposeInv
<1>2. PICK k \in 1 .. Len(selected) :
          /\ \A j \in 1 .. Len(selected) \ {k} : Worse(selected[k], selected[j])
          /\ selected' = RemoveAt(selected, k)
          /\ dropped' = Append(dropped, selected[k])
  BY DEF Drop
<1> DEFINE S == DOMAIN score
           v == selected[k]
<1>3. /\ selected \in Seq(S) /\ dropped \in Seq(S) /\ Len(selected) \in Nat /\ Len(dropped) \in Nat
      /\ Len(selected) + Len(dropped) = Len(ranked) /\ v \in S
  BY <1>1 DEF SelectedOK
<1>4. \A id \in S : id \in Int /\ score[id] \in Int
  BY <1>1, ScoreFacts DEF RankedOK
<1> HIDE DEF S
<1>5. /\ selected' \in Seq(S) /\ Len(selected') = Len(selected) - 1
      /\ \A j \in 1 .. Len(selected) - 1 : selected'[j] = IF j < k THEN selected[j] ELSE selected[j + 1]
  BY <1>2, <1>3, RemoveAtFacts
<1>6. /\ dropped' \in Seq(S) /\ Len(dropped') = Len(dropped) + 1
      /\ \A j \in 1 .. Len(dropped') : dropped'[j] = IF j <= Len(dropped) THEN dropped[j] ELSE v
  BY <1>2, <1>3
<1>7. ToSet(dropped') = ToSet(dropped) \union {v}
  <2>1. DOMAIN dropped = 1 .. Len(dropped) /\ DOMAIN dropped' = 1 .. Len(dropped) + 1
    BY <1>3, <1>6
  <2>2. dropped'[Len(dropped) + 1] = v /\ \A j \in 1 .. Len(dropped) : dropped'[j] = dropped[j]
    BY <1>3, <1>6
  <2>3. ASSUME NEW x \in ToSet(dropped') PROVE x \in ToSet(dropped) \union {v}
    <3>1. PICK j \in 1 .. Len(dropped) + 1 : x = dropped'[j]
      BY <2>1, <2>3 DEF ToSet
    <3>2. CASE j = Len(dropped) + 1
      BY <2>2, <3>1, <3>2
    <3>3. CASE j \in 1 .. Len(dropped)
      BY <2>1, <2>2, <3>1, <3>3 DEF ToSet
    <3> QED BY <1>3, <3>2, <3>3
  <2>4. ASSUME NEW x \in ToSet(dropped) \union {v} PROVE x \in ToSet(dropped')
    <3>1. CASE x = v
      <4>1. Len(dropped) + 1 \in DOMAIN dropped'
        BY <1>3, <2>1
      <4> QED BY <2>2, <3>1, <4>1 DEF ToSet
    <3>2. CASE x \in ToSet(dropped)
      <4>1. PICK j \in 1 .. Len(dropped) : x = dropped[j]
        BY <2>1, <3>2 DEF ToSet
      <4>2. j \in DOMAIN dropped' /\ x = dropped'[j]
        BY <1>3, <2>1, <2>2, <4>1
      <4> QED BY <4>2 DEF ToSet
    <3> QED BY <2>4, <3>1, <3>2
  <2> QED BY <2>3, <2>4
<1>8. DOMAIN selected = 1 .. Len(selected) /\ DOMAIN selected' = 1 .. Len(selected) - 1
  BY <1>3, <1>5
<1>9. \A x \in ToSet(selected') : \E j \in 1 .. Len(selected) \ {k} : x = selected[j]
  <2> TAKE x \in ToSet(selected')
  <2>1. PICK j \in 1 .. Len(selected) - 1 : x = selected'[j]
    BY <1>8 DEF ToSet
  <2>2. CASE j < k
    <3>1. j \in 1 .. Len(selected) \ {k} /\ x = selected[j]
      BY <1>3, <1>5, <2>1, <2>2
    <3> QED BY <3>1
  <2>3. CASE ~(j < k)
    <3>1. j + 1 \in 1 .. Len(selected) \ {k} /\ x = selected[j + 1]
      BY <1>3, <1>5, <2>1, <2>3
    <3> QED BY <3>1
  <2> QED BY <2>2, <2>3
<1>10. \A j \in 1 .. Len(selected) \ {k} : selected[j] \in ToSet(selected')
  <2> TAKE j \in 1 .. Len(selected) \ {k}
  <2>1. CASE j < k
    <3>1. j \in 1 .. Len(selected) - 1 /\ selected'[j] = selected[j]
      BY <1>3, <1>5, <2>1
    <3> QED BY <1>8, <3>1 DEF ToSet
  <2>2. CASE ~(j < k)
    <3>1. j - 1 \in 1 .. Len(selected) - 1 /\ ~(j - 1 < k) /\ (j - 1) + 1 = j
      BY <1>3, <2>2
    <3>2. selected'[j - 1] = selected[j]
      BY <1>5, <3>1
    <3> QED BY <1>8, <3>1, <3>2 DEF ToSet
  <2> QED BY <2>1, <2>2
<1>11. ToSet(selected') \union {v} = ToSet(selected)
  <2>1. \A x \in ToSet(selected) : x = v \/ x \in ToSet(selected')
    <3> TAKE x \in ToSet(selected)
    <3>1. PICK j \in 1 .. Len(selected) : x = selected[j]
      BY <1>8 DEF ToSet
    <3> QED BY <1>10, <3>1
  <2>2. \A x \in ToSet(selected') : x \in ToSet(selected)
    BY <1>8, <1>9 DEF ToSet
  <2>3. v \in ToSet(selected)
    BY <1>8 DEF ToSet
  <2> QED BY <2>1, <2>2, <2>3
<1>12. ToSet(selected') \union ToSet(dropped') = ToSet(ranked')
  BY <1>1, <1>7, <1>11 DEF SelectedOK
<1>13. ASSUME NEW a \in ToSet(ranked), NEW b \in ToSet(selected'), Worse(b, a)
       PROVE  a \in ToSet(selected')
  <2>1. a \in ToSet(selected)
    BY <1>1, <1>11, <1>13 DEF SelectedOK
  <2>2. PICK j \in 1 .. Len(selected) \ {k} : b = selected[j]
    BY <1>9
  <2>3. Worse(v, b) /\ b \in S
    BY <1>2, <1>3, <2>2
  <2>4. v \in Int /\ b \in Int /\ score[v] \in Int /\ score[b] \in Int
    BY <1>3, <1>4, <2>3
  <2> HIDE DEF v
  <2>5. a # v
    BY <1>13, <2>3, <2>4 DEF Worse
  <2> QED BY <1>11, <2>1, <2>5
<1>14. SelectedOK'
  <2>1. Len(selected') + Len(dropped') = Len(ranked')
    <3>1. Len(selected') = Len(selected) - 1 /\ Len(dropped') = Len(dropped) + 1
      BY <1>5, <1>6
    <3> QED BY <1>1, <1>3, <3>1
  <2>2. selected' \in Seq(DOMAIN score') /\ dropped' \in Seq(DOMAIN score')
    BY <1>1, <1>5, <1>6 DEF S
  <2>3. \A a \in ToSet(ranked') : \A b \in ToSet(selected') :
           (Worse(b, a))' => a \in ToSet(selected')
    BY <1>1, <1>13 DEF Worse
  <2> QED BY <1>12, <2>1, <2>2, <2>3 DEF SelectedOK, Worse
<1>15. RankedOK'
  BY <1>1 DEF RankedOK
<1> QED BY <1>1, <1>14, <1>15 DEF ComposeInv, RowOK

\* What an index may hold.
LEMMA HitsOK ==
    ASSUME NEW raw \in SUBSET Int, NEW hits \in Hits(raw)
    PROVE  DOMAIN hits \subseteq Ids /\ \A id \in DOMAIN hits : hits[id] \in Int
  BY DEF Hits

\* The rows that Init chooses from.
LEMMA RowsOK ==
    ASSUME NEW row \in Rows
    PROVE  RowOK(row)
<1>1. PICK s \in Signals, n \in Lengths : row = [s EXCEPT !.length = n]
  BY DEF Rows
<1>2. s \in [created : Column, accessed : Column, count : Column, importance : Column, length : {0}]
  BY ComposerAssumption DEF Column
<1>3. n \in Nat
  BY ComposerAssumption
<1> HIDE DEF Column
<1> QED BY <1>1, <1>2, <1>3 DEF RowOK

\* Nothing is found yet.
LEMMA ComposeInitInv == ComposeInit => ComposeInv
<1> SUFFICES ASSUME ComposeInit PROVE ComposeInv
  OBVIOUS
<1>1. \A id \in Ids : RowOK(rows[id])
  BY RowsOK DEF ComposeInit
<1>2. budget \in Int
  BY ComposerAssumption DEF ComposeInit
<1>3. \A p \in Path : DOMAIN index[p] \subseteq Ids /\ \A id \in DOMAIN index[p] : index[p][id] \in Int
  <2>1. index["semantic"] \in Hits(SemanticRaw) /\ index["keyword"] \in Hits(KeywordRaw)
    BY DEF ComposeInit
  <2>2. SemanticRaw \in SUBSET Int /\ KeywordRaw \in SUBSET Int
    BY ComposerAssumption
  <2> QED BY <2>1, <2>2, HitsOK DEF Path
<1>4. DOMAIN got = Path /\ (\A p \in Path : got[p] = Nothing) /\ running \subseteq Path
  BY DEF ComposeInit
<1>5. phase = "search" /\ score = Nothing /\ ranked = <<>> /\ selected = <<>> /\ dropped = <<>>
  BY DEF ComposeInit
<1> QED BY <1>1, <1>2, <1>3, <1>4, <1>5 DEF ComposeInv

\* Every step of retrieval and composition keeps the invariant.
LEMMA ComposeNextInv == ComposeInv /\ [ComposeNext]_composeVars => ComposeInv'
<1> SUFFICES ASSUME ComposeInv, [ComposeNext]_composeVars PROVE ComposeInv'
  OBVIOUS
<1>1. CASE Compose \/ UNCHANGED composeVars
  <2>1. /\ UNCHANGED <<rows, index, got, running, score, ranked, selected, dropped, budget>>
        /\ phase' = phase \/ (phase = "fit" /\ phase' = "done")
    BY <1>1 DEF Compose, composeVars
  <2>2. RankedOK => RankedOK'
    BY <2>1 DEF RankedOK
  <2>3. SelectedOK => SelectedOK'
    BY <2>1 DEF SelectedOK, Worse
  <2> QED BY <2>1, <2>2, <2>3 DEF ComposeInv, RowOK
<1>2. ASSUME NEW p \in Path, PathReturns(p) \/ PathDegrades(p) PROVE ComposeInv'
  <2>1. /\ UNCHANGED <<rows, index, phase, score, ranked, selected, dropped, budget>>
        /\ running' = running \ {p}
        /\ got' = got \/ got' = [got EXCEPT ![p] = index[p]]
    BY <1>2 DEF PathReturns, PathDegrades
  <2>2. \A q \in Path : got'[q] \in {Nothing, index[q]} /\ DOMAIN got' = Path
    BY <2>1 DEF ComposeInv
  <2>3. phase = "search"
    BY <1>2 DEF PathReturns, PathDegrades, ComposeInv
  <2> QED BY <2>1, <2>2, <2>3 DEF ComposeInv, RowOK
<1> QED BY <1>1, <1>2, RankInv, DropInv DEF ComposeNext

\* The state of retrieval and composition has its type.
LEMMA ComposeTyped ==
    ASSUME ComposeInv
    PROVE  ComposeTypeOK
<1>0. DOMAIN Nothing = {} /\ ToSet(<<>>) = {} /\ Len(<<>>) = 0 /\ TopK \in Nat
  BY ComposerAssumption DEF Nothing, ToSet
<1>1. /\ running \subseteq Path /\ phase \in {"search", "fit", "done"}
      /\ \A p \in Path : DOMAIN got[p] \subseteq DOMAIN index[p]
  BY <1>0 DEF ComposeInv
<1>2. CASE phase = "search"
  <2>1. score = Nothing /\ ranked = <<>> /\ selected = <<>> /\ dropped = <<>>
    BY <1>2 DEF ComposeInv
  <2> QED BY <1>0, <1>1, <2>1 DEF ComposeTypeOK
<1>3. CASE phase # "search"
  <2>1. RankedOK /\ SelectedOK
    BY <1>3 DEF ComposeInv
  <2>2. DOMAIN score \subseteq Ids /\ \A id \in DOMAIN score : score[id] \in 0 .. 100 * Unit
    BY <2>1, ScoreFacts DEF RankedOK
  <2>3. ToSet(ranked) \subseteq DOMAIN score
    <3>1. \A k \in 1 .. Len(ranked) : ranked[k] \in DOMAIN score
      BY <2>1 DEF RankedOK
    <3> QED BY <2>1, <3>1 DEF RankedOK, ToSet
  <2> QED BY <1>1, <2>1, <2>2, <2>3 DEF ComposeTypeOK, RankedOK, SelectedOK
<1> QED BY <1>2, <1>3

\* The invariant of retrieval and composition.
LEMMA ComposeAlways == ComposeSpec => []ComposeInv
  BY ComposeInitInv, ComposeNextInv, PTL DEF ComposeSpec

\* Whatever the paths return and lose, however coarse the rounding and however
\* small the budget, no memory is left out in favour of one that is nowhere ahead
\* of it and has the larger id.
THEOREM AgreementIsRewarded == ComposeSpec => []AgreementRewarded
<1>1. ComposeInv => AgreementRewarded
  <2> SUFFICES ASSUME ComposeInv, phase = "done", NEW a \in Ids, NEW b \in Ids,
                      a < b, b \in ToSet(selected), Dominates(a, b), rows[a].length > 0
               PROVE  a \in ToSet(selected)
    BY DEF AgreementRewarded
  <2>1. RankedOK /\ SelectedOK
    BY DEF ComposeInv
  <2>2. /\ GotOK /\ DOMAIN score = Found(got)
        /\ \A id \in DOMAIN score : id \in Int /\ score[id] \in Int
    BY <2>1, ScoreFacts DEF RankedOK
  <2>3. b \in ToSet(ranked)
    BY <2>1 DEF SelectedOK
  <2>4. PICK k \in 1 .. Len(ranked) : ranked[k] = b
    BY <2>1, <2>3 DEF RankedOK, ToSet
  <2>5. b \in DOMAIN score
    BY <2>1, <2>4 DEF RankedOK
  <2>6. a \in DOMAIN score
    <3>1. PICK p \in Path : b \in DOMAIN got[p]
      BY <2>2, <2>5 DEF Found
    <3>2. a \in DOMAIN got[p]
      BY <3>1 DEF Dominates
    <3> QED BY <2>2, <3>2 DEF Found
  <2>7. score[b] <= score[a]
    <3>1. RowOK(rows[a]) /\ RowOK(rows[b])
      BY DEF ComposeInv
    <3>2. score[a] = Total(got, rows[a], a) /\ score[b] = Total(got, rows[b], b)
      BY <2>1, <2>2, <2>5, <2>6 DEF RankedOK
    <3> QED BY <2>2, <3>1, <3>2, DominatesTotal
  <2>8. Before(score, a, b)
    <3>1. a \in Int /\ b \in Int /\ score[a] \in Int /\ score[b] \in Int
      BY <2>2, <2>5, <2>6
    <3>2. /\ Rounded(score[a]) \in Int /\ Rounded(score[b]) \in Int
          /\ Rounded(score[b]) <= Rounded(score[a])
      BY <2>7, <3>1, RoundedGrows
    <3> QED BY <3>1, <3>2 DEF Before
  <2>9. a \in ToSet(ranked)
    <3>1. \E j \in 1 .. Len(ranked) : ranked[j] = a
      BY <2>1, <2>4, <2>6, <2>8 DEF RankedOK
    <3> QED BY <2>1, <3>1 DEF RankedOK, ToSet
  <2>10. Worse(b, a)
    BY <2>2, <2>5, <2>6, <2>7 DEF Worse
  <2> QED BY <2>1, <2>9, <2>10 DEF SelectedOK
<1> QED BY <1>1, ComposeAlways, PTL

\* Leaving one entry out of a list of numbers takes it out of the sum.
LEMMA SumsWithout ==
    ASSUME NEW c \in Seq(Nat), NEW d \in Seq(Nat), NEW k \in 1 .. Len(c),
           Len(d) = Len(c) - 1,
           \A j \in 1 .. Len(d) : d[j] = IF j < k THEN c[j] ELSE c[j + 1]
    PROVE  Sums(d)[Len(d)] + c[k] = Sums(c)[Len(c)]
<1> DEFINE u == Sums(c)
           w == Sums(d)
           m == Len(d)
<1>0. m \in Nat /\ Len(c) = m + 1 /\ k \in 1 .. m + 1 /\ \A j \in 1 .. m + 1 : c[j] \in Nat
  OBVIOUS
<1>x. \A p, q, r \in Nat : (p + r) + q = (p + q) + r
  OBVIOUS
<1>1. /\ u[0] = 0 /\ (\A j \in 1 .. m + 1 : u[j] = u[j - 1] + c[j])
      /\ w[0] = 0 /\ (\A j \in 1 .. m : w[j] = w[j - 1] + d[j])
      /\ (\A j \in 0 .. m + 1 : u[j] \in Nat) /\ \A j \in 0 .. m : w[j] \in Nat
  BY <1>0, SumsDef
<1>2. \A j \in 1 .. m : d[j] = IF j < k THEN c[j] ELSE c[j + 1]
  OBVIOUS
<1> HIDE DEF u, w, m
<1> DEFINE At(n) == (n < k => w[n] = u[n]) /\ (n >= k => w[n] + c[k] = u[n + 1])
           S == {n \in Nat : n <= m => At(n)}
<1>3. Nat \subseteq S
  <2>1. 0 \in S
    BY <1>0, <1>1
  <2>2. ASSUME NEW n \in Nat, n \in S PROVE n + 1 \in S
    <3> SUFFICES ASSUME n + 1 <= m
                 PROVE  At(n + 1)
      OBVIOUS
    <3>1. /\ n + 1 \in 1 .. m /\ n + 1 \in 1 .. m + 1 /\ (n + 1) - 1 = n /\ n <= m
          /\ (n + 1) + 1 \in 1 .. m + 1 /\ ((n + 1) + 1) - 1 = n + 1 /\ n \in 0 .. m
      BY <1>0
    <3>2. /\ w[n + 1] = w[n] + d[n + 1] /\ u[n + 1] = u[n] + c[n + 1]
          /\ u[(n + 1) + 1] = u[n + 1] + c[(n + 1) + 1]
      BY <1>1, <3>1
    <3>3. /\ c[n + 1] \in Nat /\ c[(n + 1) + 1] \in Nat /\ c[k] \in Nat
          /\ w[n] \in Nat /\ u[n] \in Nat /\ u[n + 1] \in Nat
      <4>1. n \in 0 .. m + 1 /\ n + 1 \in 0 .. m + 1 /\ k \in 1 .. m + 1
        BY <1>0, <3>1
      <4> QED BY <1>0, <1>1, <3>1, <4>1
    <3>4. CASE n + 1 < k
      <4>1. d[n + 1] = c[n + 1] /\ w[n] = u[n]
        BY <1>0, <1>2, <2>2, <3>1, <3>4
      <4> QED BY <1>0, <3>2, <3>3, <3>4, <4>1
    <3>5. CASE n + 1 = k
      <4>1. d[n + 1] = c[(n + 1) + 1] /\ w[n] = u[n]
        BY <1>0, <1>2, <2>2, <3>1, <3>5
      <4>2. u[n + 1] = u[n] + c[k]
        BY <3>2, <3>5
      <4>3. w[n + 1] + c[k] = u[(n + 1) + 1]
        <5>1. w[n + 1] = u[n] + c[(n + 1) + 1] /\ u[(n + 1) + 1] = (u[n] + c[k]) + c[(n + 1) + 1]
          BY <3>2, <4>1, <4>2
        <5> QED BY <1>x, <3>3, <5>1
      <4> QED BY <1>0, <3>5, <4>3
    <3>6. CASE n + 1 > k
      <4>1. d[n + 1] = c[(n + 1) + 1] /\ w[n] + c[k] = u[n + 1]
        BY <1>0, <1>2, <2>2, <3>1, <3>6
      <4>2. w[n + 1] + c[k] = u[(n + 1) + 1]
        <5>1. w[n + 1] = w[n] + c[(n + 1) + 1] /\ u[(n + 1) + 1] = (w[n] + c[k]) + c[(n + 1) + 1]
          BY <3>2, <4>1
        <5> QED BY <1>x, <3>3, <5>1
      <4> QED BY <1>0, <3>6, <4>2
    <3> QED BY <1>0, <3>4, <3>5, <3>6
  <2> HIDE DEF S
  <2> QED BY <2>1, <2>2, SetInduction
<1>4. m \in S
  BY <1>0, <1>3
<1>5. w[m] + c[k] = u[m + 1]
  <2>1. CASE k = m + 1
    <3>1. m < k /\ k \in 1 .. m + 1 /\ k - 1 = m
      BY <1>0, <2>1
    <3>2. w[m] = u[m] /\ u[k] = u[m] + c[k]
      BY <1>0, <1>1, <1>4, <3>1
    <3> QED BY <2>1, <3>2
  <2>2. CASE k # m + 1
    <3>1. m >= k
      BY <1>0, <2>2
    <3> QED BY <1>0, <1>4, <3>1
  <2> QED BY <2>1, <2>2
<1> QED BY <1>0, <1>5 DEF u, w, m

\* The tokens of a list's lines.
LineLengths(items) == [k \in 1 .. Len(items) |-> rows[items[k]].length]

\* What a block costs.
LEMMA BlockCost ==
    ASSUME ComposeInv, NEW x \in Seq(Ids)
    PROVE  /\ LineLengths(x) \in Seq(Nat) /\ Len(LineLengths(x)) = Len(x)
           /\ \A k \in 1 .. Len(x) : LineLengths(x)[k] = rows[x[k]].length
           /\ Cost(x, Len(x)) = Overhead + Sums(LineLengths(x))[Len(x)]
           /\ Cost(x, Len(x)) \in Nat
           /\ (Len(x) > 0 /\ rows[x[Len(x)]].length > 0) => Cost(x, Len(x)) > 0
<1> DEFINE d == LineLengths(x)
           n == Len(x)
<1>0. n \in Nat /\ Overhead \in Nat
  BY ComposerAssumption
<1>1. \A k \in 1 .. n : rows[x[k]].length \in Nat
  <2>1. \A id \in Ids : rows[id].length \in Nat
    BY DEF ComposeInv, RowOK
  <2>2. \A k \in 1 .. n : x[k] \in Ids
    OBVIOUS
  <2> QED BY <2>1, <2>2
<1>2. d \in [1 .. n -> Nat] /\ \A k \in 1 .. n : d[k] = rows[x[k]].length
  BY <1>1 DEF LineLengths
<1>3. Cost(x, n) = Overhead + Sums(d)[n]
  BY DEF Cost, LineLengths
<1> HIDE DEF d, n
<1>4. d \in Seq(Nat) /\ Len(d) = n
  BY <1>0, <1>2
<1>5. \A k \in 0 .. n : Sums(d)[k] \in Nat
  BY <1>4, SumsDef
<1>6. Cost(x, n) \in Nat
  <2>1. Sums(d)[n] \in Nat
    BY <1>0, <1>5
  <2> QED BY <1>0, <1>3, <2>1
<1>7. ASSUME n > 0, rows[x[n]].length > 0 PROVE Cost(x, n) > 0
  <2>1. n - 1 \in 0 .. n /\ n \in 1 .. n
    BY <1>0, <1>7
  <2>2. Sums(d)[n] = Sums(d)[n - 1] + d[n]
    BY <1>4, <2>1, SumsDef
  <2>3. Sums(d)[n - 1] \in Nat /\ d[n] \in Nat /\ d[n] > 0
    BY <1>2, <1>5, <1>7, <2>1
  <2> QED BY <1>0, <1>3, <2>2, <2>3
<1> QED BY <1>2, <1>3, <1>4, <1>6, <1>7 DEF d, n

\* A memory that leaves the block takes its line with it.
LEMMA CostWithout ==
    ASSUME ComposeInv, NEW x \in Seq(Ids), NEW k \in 1 .. Len(x), NEW y, y = RemoveAt(x, k)
    PROVE  Cost(y, Len(y)) + rows[x[k]].length = Cost(x, Len(x))
<1> DEFINE c == LineLengths(x)
           d == LineLengths(y)
<1>1. /\ y \in Seq(Ids) /\ Len(y) = Len(x) - 1
      /\ \A j \in 1 .. Len(x) - 1 : y[j] = IF j < k THEN x[j] ELSE x[j + 1]
  BY RemoveAtFacts
<1>2. /\ c \in Seq(Nat) /\ Len(c) = Len(x) /\ Cost(x, Len(x)) = Overhead + Sums(c)[Len(x)]
      /\ \A j \in 1 .. Len(x) : c[j] = rows[x[j]].length
  BY BlockCost
<1>3. /\ d \in Seq(Nat) /\ Len(d) = Len(y) /\ Cost(y, Len(y)) = Overhead + Sums(d)[Len(y)]
      /\ \A j \in 1 .. Len(y) : d[j] = rows[y[j]].length
  BY <1>1, BlockCost
<1> HIDE DEF c, d
<1>4. \A j \in 1 .. Len(d) : d[j] = IF j < k THEN c[j] ELSE c[j + 1]
  <2> TAKE j \in 1 .. Len(d)
  <2>1. j \in 1 .. Len(x) - 1 /\ j \in 1 .. Len(x) /\ j + 1 \in 1 .. Len(x)
    BY <1>1, <1>3
  <2> QED BY <1>1, <1>2, <1>3, <2>1
<1>5. Sums(d)[Len(d)] + c[k] = Sums(c)[Len(c)]
  <2>1. k \in 1 .. Len(c) /\ Len(d) = Len(c) - 1
    BY <1>1, <1>2, <1>3
  <2> QED BY <1>2, <1>3, <1>4, <2>1, SumsWithout
<1>6. Sums(d)[Len(y)] + c[k] = Sums(c)[Len(x)]
  BY <1>2, <1>3, <1>5
<1>7. Sums(d)[Len(y)] \in Nat /\ Sums(c)[Len(x)] \in Nat /\ c[k] \in Nat /\ Overhead \in Nat
  <2>1. Len(y) \in 0 .. Len(d) /\ Len(x) \in 0 .. Len(c) /\ k \in 1 .. Len(c)
    BY <1>1, <1>2, <1>3
  <2>2. Sums(d) \in [0 .. Len(d) -> Nat] /\ Sums(c) \in [0 .. Len(c) -> Nat]
    BY <1>2, <1>3, SumsDef
  <2>3. c[k] \in Nat /\ Overhead \in Nat
    BY <1>2, <2>1, ComposerAssumption
  <2> QED BY <2>1, <2>2, <2>3
<1>8. c[k] = rows[x[k]].length
  BY <1>2
<1> QED BY <1>2, <1>3, <1>6, <1>7, <1>8

\* At every moment of the drop loop: the block is in the order of the ranking,
\* everything in it is better than everything dropped, the worst was dropped first,
\* and the last one dropped would not fit now.
KeptInv ==
    /\ phase # "search" =>
          /\ \A i, j \in 1 .. Len(selected) : i < j => Before(score, selected[i], selected[j])
          /\ \A i \in 1 .. Len(selected) : rows[selected[i]].length > 0
          /\ \A i \in 1 .. Len(selected), j \in 1 .. Len(dropped) :
                Better(selected[i], dropped[j])
          /\ \A i, j \in 1 .. Len(dropped) : i < j => Better(dropped[j], dropped[i])
          /\ Len(dropped) > 0 =>
                Cost(selected, Len(selected)) + rows[dropped[Len(dropped)]].length > Limit
    /\ phase = "done" => selected = <<>> \/ CountTokens(selected) <= Limit

\* The drop loop takes the worst memory out of a block that does not fit.
LEMMA DropKept ==
    ASSUME ComposeInv, KeptInv, Drop
    PROVE  KeptInv'
<1>1. /\ phase = "fit" /\ phase' = "fit" /\ UNCHANGED <<rows, score, ranked, budget>>
      /\ RankedOK /\ SelectedOK /\ selected # <<>> /\ CountTokens(selected) > Limit
  BY DEF Drop, ComposeInv
<1>2. PICK k \in 1 .. Len(selected) :
          /\ \A j \in 1 .. Len(selected) \ {k} : Worse(selected[k], selected[j])
          /\ selected' = RemoveAt(selected, k)
          /\ dropped' = Append(dropped, selected[k])
  BY DEF Drop
<1> DEFINE n == Len(selected)
           m == Len(dropped)
           S == DOMAIN score
           v == selected[k]
           old(j) == IF j < k THEN j ELSE j + 1
<1>3. /\ selected \in Seq(S) /\ dropped \in Seq(S) /\ n \in Nat /\ m \in Nat /\ v \in S
      /\ (\A j \in 1 .. n : selected[j] \in S) /\ \A j \in 1 .. m : dropped[j] \in S
  BY <1>1 DEF SelectedOK
<1>4. S \subseteq Ids /\ \A id \in S : id \in Int /\ score[id] \in Int
  BY <1>1, ScoreFacts DEF RankedOK
<1>5. /\ \A i, j \in 1 .. n : i < j => Before(score, selected[i], selected[j])
      /\ \A i \in 1 .. n : rows[selected[i]].length > 0
      /\ \A i \in 1 .. n, j \in 1 .. m : Better(selected[i], dropped[j])
      /\ \A i, j \in 1 .. m : i < j => Better(dropped[j], dropped[i])
  BY <1>1 DEF KeptInv
<1> HIDE DEF S
<1>6. /\ selected' \in Seq(S) /\ Len(selected') = n - 1
      /\ \A j \in 1 .. n - 1 : selected'[j] = IF j < k THEN selected[j] ELSE selected[j + 1]
  BY <1>2, <1>3, RemoveAtFacts
<1>7. \A j \in 1 .. n - 1 : /\ old(j) \in 1 .. n \ {k} /\ selected'[j] = selected[old(j)]
  <2> TAKE j \in 1 .. n - 1
  <2>1. CASE j < k
    BY <1>3, <1>6, <2>1
  <2>2. CASE ~(j < k)
    BY <1>3, <1>6, <2>2
  <2> QED BY <2>1, <2>2
<1>8. \A i, j \in 1 .. n - 1 : i < j => old(i) < old(j)
  BY <1>3
<1>9. /\ Len(dropped') = m + 1 /\ dropped'[m + 1] = v
      /\ \A j \in 1 .. m : dropped'[j] = dropped[j]
  BY <1>2, <1>3
<1> HIDE DEF n, m, v, old
<1>10. \A i \in 1 .. n \ {k} : Better(selected[i], v)
  <2> TAKE i \in 1 .. n \ {k}
  <2>1. Worse(v, selected[i]) /\ selected[i] \in S
    BY <1>2, <1>3 DEF v, n
  <2>2. v \in Int /\ selected[i] \in Int /\ score[v] \in Int /\ score[selected[i]] \in Int
    BY <1>3, <1>4, <2>1
  <2> QED BY <2>1, <2>2 DEF Worse, Better
<1>11. \A i, j \in 1 .. n - 1 : i < j => Before(score, selected'[i], selected'[j])
  <2> TAKE i, j \in 1 .. n - 1
  <2> HAVE i < j
  <2>1. old(i) \in 1 .. n /\ old(j) \in 1 .. n /\ old(i) < old(j)
    BY <1>7, <1>8
  <2> QED BY <1>5, <1>7, <2>1
<1>12. \A i \in 1 .. n - 1 : rows[selected'[i]].length > 0
  BY <1>5, <1>7
<1>13. \A i \in 1 .. n - 1, j \in 1 .. m + 1 : Better(selected'[i], dropped'[j])
  <2> TAKE i \in 1 .. n - 1, j \in 1 .. m + 1
  <2>1. selected'[i] = selected[old(i)] /\ old(i) \in 1 .. n \ {k}
    BY <1>7
  <2>2. CASE j = m + 1
    BY <1>9, <1>10, <2>1, <2>2
  <2>3. CASE j # m + 1
    <3>1. j \in 1 .. m
      BY <1>3, <2>3
    <3> QED BY <1>5, <1>9, <2>1, <3>1
  <2> QED BY <2>2, <2>3
<1>14. \A i, j \in 1 .. m + 1 : i < j => Better(dropped'[j], dropped'[i])
  <2> TAKE i, j \in 1 .. m + 1
  <2> HAVE i < j
  <2>1. i \in 1 .. m
    BY <1>3
  <2>2. CASE j = m + 1
    <3>1. k \in 1 .. n /\ v = selected[k]
      BY DEF n, v
    <3> QED BY <1>5, <1>9, <2>1, <2>2, <3>1
  <2>3. CASE j # m + 1
    <3>1. j \in 1 .. m
      BY <1>3, <2>3
    <3> QED BY <1>5, <1>9, <2>1, <3>1
  <2> QED BY <2>2, <2>3
<1>15. Cost(selected', Len(selected')) + rows[v].length > Limit
  <2>1. selected \in Seq(Ids)
    BY <1>3, <1>4
  <2>2. Cost(selected', Len(selected')) + rows[v].length = Cost(selected, Len(selected))
    BY <1>2, <2>1, CostWithout DEF v
  <2> QED BY <1>1, <2>2 DEF CountTokens
<1>16. (Cost(selected, Len(selected)) + rows[dropped[Len(dropped)]].length > Limit)'
  BY <1>1, <1>9, <1>15 DEF Cost, Limit
<1>17. score' = score /\ rows' = rows /\ Len(selected') = n - 1 /\ Len(dropped') = m + 1
  BY <1>1, <1>6, <1>9
<1>18. \A i \in 1 .. n - 1, j \in 1 .. m + 1 : Better(selected[i], dropped[j])'
  BY <1>13, <1>17 DEF Better
<1>19. \A i, j \in 1 .. m + 1 : i < j => Better(dropped[j], dropped[i])'
  BY <1>14, <1>17 DEF Better
<1> QED BY <1>1, <1>11, <1>12, <1>16, <1>17, <1>18, <1>19 DEF KeptInv

\* Every step keeps the best.
LEMMA KeptNextInv ==
    ASSUME ComposeInv, KeptInv, [ComposeNext]_composeVars
    PROVE  KeptInv'
<1>1. CASE UNCHANGED composeVars
  BY <1>1 DEF KeptInv, composeVars, Cost, CountTokens, Limit, Better
<1>2. CASE Compose
  <2>1. /\ UNCHANGED <<rows, score, selected, dropped, budget>> /\ phase = "fit" /\ phase' = "done"
        /\ ~(selected # <<>> /\ CountTokens(selected) > Limit)
    BY <1>2 DEF Compose
  <2>2. selected # <<>> => CountTokens(selected) <= Limit
    <3> SUFFICES ASSUME selected # <<>> PROVE CountTokens(selected) <= Limit
      OBVIOUS
    <3>1. selected \in Seq(Ids)
      <4>1. RankedOK /\ SelectedOK
        BY <2>1 DEF ComposeInv
      <4>2. DOMAIN score \subseteq Ids
        BY <4>1, ScoreFacts DEF RankedOK
      <4> QED BY <4>1, <4>2 DEF SelectedOK
    <3>2. Cost(selected, Len(selected)) \in Nat
      BY <3>1, BlockCost
    <3>3. Limit \in Int
      BY DEF Limit, ComposeInv
    <3> QED BY <2>1, <3>2, <3>3 DEF CountTokens
  <2> QED BY <2>1, <2>2 DEF KeptInv, Cost, CountTokens, Limit, Better
<1>3. CASE Rank
  <2>1. phase' = "fit" /\ selected' = ranked' /\ dropped' = <<>>
    BY <1>3 DEF Rank
  <2>2. RankedOK'
    <3>1. ComposeInv'
      BY <1>3, RankInv
    <3> QED BY <2>1, <3>1 DEF ComposeInv
  <2>3. /\ \A a, b \in 1 .. Len(selected') : a < b => Before(score', selected'[a], selected'[b])
        /\ \A k \in 1 .. Len(selected') : rows'[selected'[k]].length > 0
    BY <2>1, <2>2 DEF RankedOK
  <2>4. Len(dropped') = 0
    BY <2>1
  <2> QED BY <2>1, <2>3, <2>4 DEF KeptInv
<1>4. ASSUME NEW p \in Path, PathReturns(p) \/ PathDegrades(p) PROVE KeptInv'
  <2>1. phase' = phase /\ running # {}
    BY <1>4 DEF PathReturns, PathDegrades
  <2>2. phase = "search"
    BY <2>1 DEF ComposeInv
  <2> QED BY <2>1, <2>2 DEF KeptInv
<1> QED BY <1>1, <1>2, <1>3, <1>4, DropKept DEF ComposeNext

\* For every budget, every set of lines and however coarsely the ranking rounds: the
\* block holds the best memories in the ranking's order, fits, and would not with the
\* last one dropped.
THEOREM BestIsKept == ComposeSpec => []BestKept
<1>1. ComposeInit => KeptInv
  BY DEF ComposeInit, KeptInv
<1>2. ComposeInv /\ KeptInv /\ [ComposeNext]_composeVars => KeptInv'
  BY KeptNextInv
<1>3. ComposeInv /\ KeptInv => BestKept
  <2> SUFFICES ASSUME ComposeInv, KeptInv, phase = "done" PROVE BestKept
    BY DEF BestKept
  <2> DEFINE n == Len(selected)
             m == Len(dropped)
  <2>1. RankedOK /\ SelectedOK
    BY DEF ComposeInv
  <2>2. DOMAIN score \subseteq Ids
    BY <2>1, ScoreFacts DEF RankedOK
  <2>3. selected \in Seq(Ids) /\ dropped \in Seq(Ids) /\ n \in Nat /\ m \in Nat
    BY <2>1, <2>2 DEF SelectedOK
  <2>4. budget \in Int /\ Limit = IF budget < 0 THEN 0 ELSE budget
    BY DEF ComposeInv, Limit
  <2>5. /\ \A i, j \in 1 .. n : i < j => Before(score, selected[i], selected[j])
        /\ \A i \in 1 .. n : rows[selected[i]].length > 0
        /\ \A i \in 1 .. n, j \in 1 .. m : Better(selected[i], dropped[j])
        /\ \A i, j \in 1 .. m : i < j => Better(dropped[j], dropped[i])
        /\ m > 0 => Cost(selected, n) + rows[dropped[m]].length > Limit
        /\ selected = <<>> \/ CountTokens(selected) <= Limit
    BY DEF KeptInv
  <2>6. Cost(selected, n) \in Nat /\ (n > 0 /\ rows[selected[n]].length > 0 => Cost(selected, n) > 0)
    BY <2>3, BlockCost
  <2>7. n > 0 => Cost(selected, n) <= budget
    <3> SUFFICES ASSUME n > 0 PROVE Cost(selected, n) <= budget
      OBVIOUS
    <3>1. selected # <<>> /\ n \in 1 .. n
      BY <2>3
    <3>2. Cost(selected, n) <= Limit /\ Cost(selected, n) > 0
      BY <2>5, <2>6, <3>1 DEF CountTokens
    <3> QED BY <2>4, <2>6, <3>2
  <2>8. m > 0 => Cost(selected, n) + rows[dropped[m]].length > budget
    <3> SUFFICES ASSUME m > 0 PROVE Cost(selected, n) + rows[dropped[m]].length > budget
      OBVIOUS
    <3>1. dropped[m] \in Ids
      BY <2>3
    <3>2. rows[dropped[m]].length \in Nat
      BY <3>1 DEF ComposeInv, RowOK
    <3>3. Cost(selected, n) + rows[dropped[m]].length \in Nat
      BY <2>6, <3>2
    <3> QED BY <2>4, <2>5, <3>3
  <2> QED BY <2>5, <2>7, <2>8 DEF BestKept
<1> QED BY <1>1, <1>2, <1>3, ComposeAlways, PTL DEF ComposeSpec

\* The sort order is transitive.
LEMMA BeforeTransitive ==
    ASSUME NEW total, NEW a \in Int, NEW b \in Int, NEW c \in Int,
           total[a] \in Int, total[b] \in Int, total[c] \in Int,
           Before(total, a, b), Before(total, b, c)
    PROVE  Before(total, a, c)
<1>1. Rounded(total[a]) \in Int /\ Rounded(total[b]) \in Int /\ Rounded(total[c]) \in Int
  BY RoundedGrows
<1> QED BY <1>1 DEF Before

\* Any finite set of memories can be put in order: one more is inserted before the
\* first that it comes before.
LEMMA SortedExists ==
    ASSUME NEW total, IsFiniteSet(DOMAIN total), DOMAIN total \subseteq Nat,
           \A id \in DOMAIN total : total[id] \in Int
    PROVE  \E order : order \in Sorted(total)
<1> DEFINE D == DOMAIN total
           Is(f, n) == \A a, b \in 1 .. n : a < b => Before(total, f[a], f[b])
           S == {n \in Nat : \A T \in SUBSET D :
                    Cardinality(T) = n => \E f \in [1 .. n -> T] : Is(f, n)}
<1>1. 0 \in S
  <2> SUFFICES ASSUME NEW T \in SUBSET D PROVE \E f \in [1 .. 0 -> T] : Is(f, 0)
    <3> HIDE DEF Is
    <3> QED OBVIOUS
  <2> DEFINE f == [k \in 1 .. 0 |-> CHOOSE x \in T : TRUE]
  <2>1. f \in [1 .. 0 -> T] /\ Is(f, 0)
    OBVIOUS
  <2> HIDE DEF f, Is
  <2> QED BY <2>1
<1>2. ASSUME NEW n \in Nat, n \in S PROVE n + 1 \in S
  <2> SUFFICES ASSUME NEW T \in SUBSET D, Cardinality(T) = n + 1
               PROVE  \E f \in [1 .. n + 1 -> T] : Is(f, n + 1)
    <3> HIDE DEF Is, D
    <3> QED OBVIOUS
  <2>1. IsFiniteSet(T)
    BY FS_Subset
  <2>2. PICK x : x \in T
    <3>1. Cardinality(T) # 0
      OBVIOUS
    <3> QED BY <3>1, FS_EmptySet
  <2> DEFINE U == T \ {x}
  <2>3. U \in SUBSET D /\ Cardinality(U) = n
    <3>1. Cardinality(U) = Cardinality(T) - 1
      BY <2>1, <2>2, FS_RemoveElement
    <3>2. U \in SUBSET D
      OBVIOUS
    <3> HIDE DEF U, D
    <3> QED BY <3>1, <3>2
  <2>4. PICK f \in [1 .. n -> U] : Is(f, n)
    <3> HIDE DEF Is, D, U
    <3> QED BY <1>2, <2>3
  <2>5. \A k \in 1 .. n : /\ f[k] \in T /\ f[k] # x /\ f[k] \in Int /\ total[f[k]] \in Int
    <3> TAKE k \in 1 .. n
    <3>1. f[k] \in T /\ f[k] # x /\ f[k] \in D
      BY <2>3, <2>4
    <3> QED BY <3>1
  <2>6. x \in Int /\ total[x] \in Int
    BY <2>2
  <2> DEFINE P == {k \in 1 .. n : Before(total, x, f[k])}
  <2>7. PICK p \in 1 .. n + 1 : /\ \A k \in 1 .. n : k < p => Before(total, f[k], x)
                                /\ \A k \in 1 .. n : k >= p => Before(total, x, f[k])
    <3>1. \A k \in 1 .. n : k \notin P => Before(total, f[k], x)
      BY <2>5, <2>6, BeforeOrder
    <3>2. CASE P = {}
      <4>1. n + 1 \in 1 .. n + 1 /\ \A k \in 1 .. n : k < n + 1 /\ ~(k >= n + 1)
        OBVIOUS
      <4>2. \A k \in 1 .. n : Before(total, f[k], x)
        BY <3>1, <3>2
      <4> QED BY <4>1, <4>2
    <3>3. CASE P # {}
      <4>1. P \in SUBSET Nat
        OBVIOUS
      <4>2. PICK q \in P : \A k \in P : q <= k
        <5> HIDE DEF P
        <5> QED BY <3>3, <4>1, LeastNumber
      <4>3. q \in 1 .. n /\ Before(total, x, f[q]) /\ q \in 1 .. n + 1
        OBVIOUS
      <4>4. \A k \in 1 .. n : k < q => Before(total, f[k], x)
        <5> TAKE k \in 1 .. n
        <5> HAVE k < q
        <5>1. k \notin P
          <6> HIDE DEF P
          <6> QED BY <4>2, <4>3
        <5> QED BY <3>1, <5>1
      <4>5. \A k \in 1 .. n : k >= q => Before(total, x, f[k])
        <5> TAKE k \in 1 .. n
        <5> HAVE k >= q
        <5>1. CASE k = q
          BY <4>3, <5>1
        <5>2. CASE k # q
          <6>1. Before(total, f[q], f[k])
            BY <2>4, <4>3, <5>2
          <6> QED BY <2>5, <2>6, <4>3, <6>1, BeforeTransitive
        <5> QED BY <5>1, <5>2
      <4> QED BY <4>3, <4>4, <4>5
    <3> QED BY <3>2, <3>3
  <2> DEFINE g == [k \in 1 .. n + 1 |-> IF k < p THEN f[k] ELSE IF k = p THEN x ELSE f[k - 1]]
  <2>8. \A k \in 1 .. n + 1 : /\ k < p => k \in 1 .. n /\ g[k] = f[k]
                              /\ k = p => g[k] = x
                              /\ k > p => k - 1 \in 1 .. n /\ k - 1 >= p /\ g[k] = f[k - 1]
    OBVIOUS
  <2>9. g \in [1 .. n + 1 -> T]
    <3>1. \A k \in 1 .. n + 1 : g[k] \in T
      <4> HIDE DEF g
      <4> TAKE k \in 1 .. n + 1
      <4>1. k < p \/ k = p \/ k > p
        OBVIOUS
      <4> QED BY <2>2, <2>5, <2>8, <4>1
    <3> QED BY <3>1
  <2> HIDE DEF g, P
  <2>10. ASSUME NEW a \in 1 .. n + 1, NEW b \in 1 .. n + 1, a < b
         PROVE  Before(total, g[a], g[b])
    <3>1. CASE b < p
      BY <2>4, <2>8, <2>10, <3>1
    <3>2. CASE b = p
      BY <2>7, <2>8, <2>10, <3>2
    <3>3. CASE b > p /\ a < p
      <4>1. /\ g[a] = f[a] /\ g[b] = f[b - 1] /\ a \in 1 .. n /\ b - 1 \in 1 .. n /\ b - 1 >= p
        BY <2>8, <3>3
      <4>2. a < b - 1
        BY <3>3, <4>1
      <4> QED BY <2>4, <4>1, <4>2
    <3>4. CASE b > p /\ a = p
      BY <2>7, <2>8, <3>4
    <3>5. CASE b > p /\ a > p
      <4>1. g[a] = f[a - 1] /\ g[b] = f[b - 1] /\ a - 1 \in 1 .. n /\ b - 1 \in 1 .. n
        BY <2>8, <3>5
      <4>2. a - 1 < b - 1
        BY <2>10
      <4> QED BY <2>4, <4>1, <4>2
    <3> QED BY <2>10, <3>1, <3>2, <3>3, <3>4, <3>5
  <2>11. Is(g, n + 1)
    BY <2>10
  <2> HIDE DEF Is
  <2> QED BY <2>9, <2>11
<1>3. Cardinality(D) \in S
  <2>1. Nat \subseteq S
    <3> HIDE DEF S
    <3> QED BY <1>1, <1>2, SetInduction
  <2>2. Cardinality(D) \in Nat
    BY FS_CardinalityType
  <2> HIDE DEF S, D
  <2> QED BY <2>1, <2>2
<1>4. PICK f \in [1 .. Cardinality(D) -> D] : Is(f, Cardinality(D))
  <2> HIDE DEF Is
  <2> QED BY <1>3
<1>5. f \in Sorted(total)
  BY <1>4 DEF Sorted
<1> QED BY <1>5

\* The first place where two sorted lists differ would order two memories both ways.
LEMMA SortedUnique ==
    ASSUME NEW total, IsFiniteSet(DOMAIN total), DOMAIN total \subseteq Nat,
           \A id \in DOMAIN total : total[id] \in Int,
           NEW f \in Sorted(total), NEW g \in Sorted(total)
    PROVE  f = g
<1> DEFINE D == DOMAIN total
           n == Cardinality(D)
           Diff == {k \in 1 .. n : f[k] # g[k]}
<1>0. n \in Nat /\ f \in [1 .. n -> D] /\ g \in [1 .. n -> D]
  BY FS_CardinalityType DEF Sorted
<1>1. /\ \A a, b \in 1 .. n : a < b => Before(total, f[a], f[b]) /\ Before(total, g[a], g[b])
      /\ \A id \in D : \E k \in 1 .. n : f[k] = id
      /\ \A id \in D : \E k \in 1 .. n : g[k] = id
  BY SortedWhole
<1>2. \A id \in D : id \in Int /\ total[id] \in Int
  OBVIOUS
<1> HIDE DEF n, D
<1>3. Diff = {}
  <2> SUFFICES ASSUME Diff # {} PROVE FALSE
    OBVIOUS
  <2>1. Diff \in SUBSET Nat
    BY <1>0
  <2>2. PICK k \in Diff : \A j \in Diff : k <= j
    <3> HIDE DEF Diff
    <3> QED BY <2>1, LeastNumber
  <2>3. k \in 1 .. n /\ f[k] # g[k] /\ f[k] \in D /\ g[k] \in D
    BY <1>0
  <2>4. \A j \in 1 .. n : j < k => f[j] = g[j]
    BY <1>0, <2>2, <2>3
  <2>5. Before(total, g[k], f[k])
    <3>1. PICK j \in 1 .. n : g[j] = f[k]
      BY <1>1, <2>3
    <3>2. ~(j < k)
      <4> SUFFICES ASSUME j < k PROVE FALSE
        OBVIOUS
      <4>1. f[j] = f[k] /\ Before(total, f[j], f[k])
        BY <1>1, <2>3, <2>4, <3>1
      <4> QED BY <1>2, <2>3, <4>1, BeforeOrder
    <3>3. k < j
      BY <1>0, <2>3, <3>1, <3>2
    <3> QED BY <1>1, <2>3, <3>1, <3>3
  <2>6. Before(total, f[k], g[k])
    <3>1. PICK j \in 1 .. n : f[j] = g[k]
      BY <1>1, <2>3
    <3>2. ~(j < k)
      <4> SUFFICES ASSUME j < k PROVE FALSE
        OBVIOUS
      <4>1. g[j] = g[k] /\ Before(total, g[j], g[k])
        BY <1>1, <2>3, <2>4, <3>1
      <4> QED BY <1>2, <2>3, <4>1, BeforeOrder
    <3>3. k < j
      BY <1>0, <2>3, <3>1, <3>2
    <3> QED BY <1>1, <2>3, <3>1, <3>3
  <2> QED BY <1>2, <2>3, <2>5, <2>6, BeforeOrder
<1> QED BY <1>0, <1>3

\* The ranking of any finite set of totals is defined and is the only one: the
\* same candidates come out in the same order whatever order the paths gave them
\* in (_sort_key).
THEOREM RankingDetermined ==
    ASSUME NEW total, IsFiniteSet(DOMAIN total), DOMAIN total \subseteq Nat,
           \A id \in DOMAIN total : total[id] \in Int
    PROVE  \E order \in Seq(DOMAIN total) : Sorted(total) = {order}
<1>1. PICK order : order \in Sorted(total)
  BY SortedExists
<1>2. \A f \in Sorted(total) : f = order
  BY <1>1, SortedUnique
<1>3. order \in Seq(DOMAIN total)
  BY <1>1, SortedWhole
<1>4. Sorted(total) = {order}
  BY <1>1, <1>2
<1> QED BY <1>3, <1>4

\* A filter is defined for every set of positions, and there is one.
LEMMA PicksDetermined ==
    ASSUME NEW n \in Nat, NEW K \in SUBSET (1 .. n)
    PROVE  \E pick \in Seq(K) : Picks(K) = {pick}
<1> DEFINE total == [k \in K |-> 0]
<1>1. DOMAIN total = K /\ \A k \in K : total[k] \in Int
  OBVIOUS
<1>2. IsFiniteSet(K) /\ K \subseteq Nat
  <2>1. IsFiniteSet(1 .. n)
    BY FS_Interval
  <2>2. IsFiniteSet(K)
    BY <2>1, FS_Subset
  <2> QED BY <2>2
<1>3. \A a, b \in K : Before(total, a, b) <=> a < b
  <2> TAKE a, b \in K
  <2>1. total[a] = 0 /\ total[b] = 0 /\ Rounded(0) \in Int
    BY RoundedGrows
  <2> HIDE DEF total
  <2> QED BY <2>1 DEF Before
<1> HIDE DEF total
<1>4. \A f \in [1 .. Cardinality(K) -> K] : f \in Sorted(total) <=> f \in Picks(K)
  <2> TAKE f \in [1 .. Cardinality(K) -> K]
  <2>1. DOMAIN f = 1 .. Cardinality(K) /\ \A a \in DOMAIN f : f[a] \in K
    OBVIOUS
  <2>2. f \in Sorted(total) <=> \A a, b \in DOMAIN f : a < b => Before(total, f[a], f[b])
    BY <1>1 DEF Sorted
  <2>3. f \in Picks(K) <=> \A a, b \in DOMAIN f : a < b => f[a] < f[b]
    BY DEF Picks
  <2> QED BY <1>3, <2>1, <2>2, <2>3
<1>5. Picks(K) = Sorted(total)
  <2>1. Picks(K) \subseteq [1 .. Cardinality(K) -> K] /\ Sorted(total) \subseteq [1 .. Cardinality(K) -> K]
    BY <1>1 DEF Picks, Sorted
  <2> QED BY <1>4, <2>1
<1> QED BY <1>1, <1>2, <1>5, RankingDetermined

\* No choice of totals blocks the step from retrieval to composition: Rank has an
\* outcome in every state in which both paths have finished.
LEMMA RankingNeverBlocks ==
    ASSUME ComposeInv
    PROVE  LET total == [id \in Found(got) |-> Total(got, rows[id], id)]
           IN  \E order \in Sorted(total) :
                  \E pick : pick \in Picks({k \in Top(order) : rows[order[k]].length > 0})
<1> DEFINE total == [id \in Found(got) |-> Total(got, rows[id], id)]
<1>1. /\ IsFiniteSet(DOMAIN total) /\ DOMAIN total \subseteq Nat
      /\ \A id \in DOMAIN total : total[id] \in Int
  BY ScoreFacts
<1> HIDE DEF total
<1>2. PICK order : order \in Sorted(total)
  BY <1>1, SortedExists
<1>3. Len(order) \in Nat
  BY <1>1, <1>2, SortedWhole
<1> DEFINE n == IF TopK < Len(order) THEN TopK ELSE Len(order)
           K == {k \in Top(order) : rows[order[k]].length > 0}
<1>4. n \in Nat /\ Top(order) = 1 .. n
  BY <1>3, ComposerAssumption DEF Top
<1>5. K \in SUBSET (1 .. n)
  BY <1>4
<1> HIDE DEF n, K
<1>6. \E pick : pick \in Picks(K)
  BY <1>4, <1>5, PicksDetermined
<1> QED BY <1>2, <1>6 DEF total, K

-----------------------------------------------------------------------------
(* The migration runner. *)

\* A run that started alone and still is alone is the only one.
AloneInv ==
    \A r \in Runners : runner[r].pc = "running" /\ runner[r].alone =>
        \A q \in Runners \ {r} : runner[q].pc # "running"

\* What a lone run has established up to its next file.
ProgressInv ==
    \A r \in Runners : runner[r].pc = "running" /\ runner[r].alone =>
        /\ \A f \in Files : f < runner[r].next => ledger[f] > 0
        /\ runner[r].next > 6 => ~granted
        /\ runner[r].next > 8 => trigger = "owner"

\* A lone run that started in a settled database never finds the trail open.
FreshInv ==
    \A r \in Runners : runner[r].pc = "running" /\ runner[r].alone /\ runner[r].fresh =>
        /\ runner[r].next <= 6 => trigger = "owner"
        /\ runner[r].next # 6 => ~granted

\* Nobody runs in a settled database.
SettledInv == WholeRunRepairs /\ (settled => Running = {})

MigrateInv == MigrateTypeOK /\ AloneInv /\ ProgressInv /\ FreshInv /\ SettledInv

\* A fresh database satisfies the invariant.
LEMMA MigrateInitInv == MigrateInit => MigrateInv
<1> SUFFICES ASSUME MigrateInit PROVE MigrateInv
  OBVIOUS
<1>1. [pc |-> "idle", next |-> 1, runs |-> 0, alone |-> FALSE, fresh |-> FALSE] \in Run
  BY MigrateAssumption DEF Run
<1>2. MigrateTypeOK
  BY <1>1 DEF MigrateInit, MigrateTypeOK
<1>3. QED
  BY <1>2 DEF MigrateInit, MigrateInv, AloneInv, ProgressInv, FreshInv, SettledInv, WholeRunRepairs

\* Every step of a run preserves it.
LEMMA MigrateNextInv == MigrateInv /\ [MigrateNext]_migrateVars => MigrateInv'
<1> SUFFICES ASSUME MigrateInv, [MigrateNext]_migrateVars PROVE MigrateInv'
  OBVIOUS
<1> USE DEF MigrateInv
<1>1. ASSUME NEW r \in Runners, Start(r) PROVE MigrateInv'
  <2>0. \A q \in Runners : runner[q] \in Run
    BY DEF MigrateTypeOK
  <2>1. /\ runner'[r] = [pc |-> "running", next |-> 1, runs |-> runner[r].runs + 1,
                         alone |-> (Running = {}), fresh |-> settled]
        /\ \A q \in Runners \ {r} : runner'[q] = [runner[q] EXCEPT !.alone = FALSE]
        /\ settled' = FALSE /\ UNCHANGED <<ledger, granted, trigger>>
    BY <1>1 DEF Start
  <2>2. MigrateTypeOK'
    <3>1. runner[r].runs + 1 \in 0 .. MaxRuns
      BY <1>1, <2>0, MigrateAssumption DEF Start, Run
    <3>2. runner'[r] \in Run
      BY <2>1, <3>1 DEF MigrateTypeOK, Run
    <3>3. \A q \in Runners \ {r} : runner'[q] \in Run
      <4>1. \A x \in Run : [x EXCEPT !.alone = FALSE] \in Run
        BY DEF Run
      <4> QED BY <2>0, <2>1, <4>1
    <3>4. runner' \in [Runners -> Run]
      BY <1>1, <3>2, <3>3 DEF Start
    <3>5. QED
      BY <2>1, <3>4 DEF MigrateTypeOK
  <2>3. \A q \in Runners \ {r} : ~runner'[q].alone /\ runner'[q].pc = runner[q].pc
    BY <2>0, <2>1 DEF Run
  <2>4. AloneInv'
    <3>1. runner'[r].alone = (Running = {})
      BY <2>1
    <3>2. runner'[r].alone => \A q \in Runners : runner[q].pc # "running"
      BY <3>1, Zenon DEF Running
    <3>3. QED
      BY <2>3, <3>2 DEF AloneInv
  <2>5. ProgressInv'
    BY <2>1, <2>3 DEF ProgressInv, Files
  <2>6. FreshInv'
    BY <2>1, <2>3 DEF FreshInv, SettledInv, WholeRunRepairs
  <2>7. QED
    BY <2>1, <2>2, <2>4, <2>5, <2>6 DEF SettledInv, WholeRunRepairs
<1>2. ASSUME NEW r \in Runners, Apply(r) PROVE MigrateInv'
  <2> DEFINE f == runner[r].next
  <2>1. /\ f \in Files /\ runner[r].pc = "running" /\ UNCHANGED settled
        /\ granted' = Granted(f) /\ trigger' = Trigger(f) /\ ledger' = Recorded(f)
        /\ runner' = [runner EXCEPT ![r].next = f + 1]
    BY <1>2 DEF Apply
  <2>2. MigrateTypeOK'
    <3>1. ledger' \in [Files -> Nat]
      BY <2>1 DEF MigrateTypeOK, Recorded
    <3>2. granted' \in BOOLEAN /\ trigger' \in {"none", "shape", "owner"} /\ settled' \in BOOLEAN
      BY <2>1 DEF MigrateTypeOK, Granted, Trigger
    <3>3. runner' \in [Runners -> Run]
      BY <2>1 DEF MigrateTypeOK, Run, Files
    <3>4. QED
      BY <3>1, <3>2, <3>3 DEF MigrateTypeOK
  <2>3. /\ \A q \in Runners \ {r} : runner'[q] = runner[q]
        /\ runner'[r].pc = "running" /\ runner'[r].alone = runner[r].alone
        /\ runner'[r].fresh = runner[r].fresh /\ runner'[r].next = f + 1
    BY <2>1 DEF MigrateTypeOK
  <2>4. AloneInv'
    BY <2>1, <2>3 DEF AloneInv
  <2>5. ~settled
    BY <2>1 DEF SettledInv, Running
  <2>6. ASSUME NEW q \in Runners, runner'[q].pc = "running", runner'[q].alone
        PROVE  q = r
    BY <2>1, <2>3, <2>6 DEF AloneInv
  <2>7. ProgressInv'
    BY <2>1, <2>3, <2>6 DEF ProgressInv, Granted, Trigger, Recorded, Files, MigrateTypeOK
  <2>8. FreshInv'
    BY <2>1, <2>3, <2>6 DEF FreshInv, Granted, Trigger, Files, MigrateTypeOK
  <2>9. QED
    BY <2>1, <2>2, <2>4, <2>5, <2>7, <2>8 DEF SettledInv, WholeRunRepairs
<1>3. ASSUME NEW r \in Runners, FileFails(r) PROVE MigrateInv'
  BY <1>3 DEF FileFails, MigrateTypeOK, Run, AloneInv, ProgressInv, FreshInv, SettledInv,
     WholeRunRepairs, Running
<1>4. ASSUME NEW r \in Runners, Finish(r) PROVE MigrateInv'
  <2>1. MigrateTypeOK'
    BY <1>4 DEF Finish, MigrateTypeOK, Run
  <2>2. AloneInv' /\ ProgressInv' /\ FreshInv'
    BY <1>4 DEF Finish, MigrateTypeOK, AloneInv, ProgressInv, FreshInv
  <2>3. SettledInv'
    <3>1. runner[r].next = 11
      BY <1>4 DEF Finish, MigrateTypeOK, Run, Files
    <3>2. QED
      BY <1>4, <3>1 DEF Finish, MigrateTypeOK, AloneInv, ProgressInv, Files, SettledInv,
         WholeRunRepairs, Running
  <2>4. QED
    BY <2>1, <2>2, <2>3
<1>5. CASE UNCHANGED migrateVars
  BY <1>5 DEF migrateVars, MigrateTypeOK, AloneInv, ProgressInv, FreshInv, SettledInv,
     WholeRunRepairs, Running
<1>6. QED
  BY <1>1, <1>2, <1>3, <1>4, <1>5 DEF MigrateNext

\* However many runs failed half-way or ran side by side, a whole run that was
\* alone leaves the trail closed and every file recorded.
THEOREM MigrationsRepair == MigrateSpec => []WholeRunRepairs
<1>1. MigrateInv => WholeRunRepairs
  BY DEF MigrateInv, SettledInv
<1>2. QED
  BY <1>1, MigrateInitInv, MigrateNextInv, PTL DEF MigrateSpec

\* Running the migrations again never opens the audit trail, not even between
\* 0005's grant and 0006's revocation.
THEOREM RerunsKeepTrail == MigrateSpec => []RerunKeepsTrail
<1>1. MigrateInv => RerunKeepsTrail
  BY DEF MigrateInv, FreshInv, RerunKeepsTrail, TrailOpen, MigrateTypeOK
<1>2. QED
  BY <1>1, MigrateInitInv, MigrateNextInv, PTL DEF MigrateSpec

-----------------------------------------------------------------------------
(* The export. *)

Actor == Actors \union {"none"}
Entries == [action : {"write", "delete", "export"}, id : Stored \union Nat, actor : Actor]

\* The table and the trail are typed and finite, and tell the same story.
TrailInv ==
    /\ log \subseteq Entries /\ IsFiniteSet(log) /\ exports \in Nat
    /\ table \in [Stored -> [state : {"absent", "live", "deleted"}, actor : Actor]]
    /\ \A id \in Stored :
          /\ table[id].state # "absent" => Entry("write", id, table[id].actor) \in log
          /\ table[id].state = "deleted" => Entry("delete", id, table[id].actor) \in log

\* What an actor was shown stays visible to it: rows are deleted softly.
ListedInv ==
    /\ listed \in [Actors -> SUBSET Stored]
    /\ \A a \in Actors : listed[a] \subseteq Visible(a)

Dump == [pc : {"idle", "memories", "audit", "insert", "sent"}, actor : Actor,
         known : SUBSET Stored, rows : SUBSET Stored, deleted : SUBSET Stored,
         log : SUBSET Entries, truncated : SUBSET {"memories", "audit_log"}]

\* What the first SELECT returned is whole, or fills the cap.
RowsWhole == dump.known \subseteq dump.rows \/ Cardinality(dump.rows) >= RowCap

\* What the second SELECT returned explains the first, or fills the cap.
LogWhole ==
    \/ Cardinality(dump.log) >= RowCap
    \/ /\ \A id \in dump.rows : Entry("write", id, dump.actor) \in dump.log
       /\ \A id \in dump.deleted : Entry("delete", id, dump.actor) \in dump.log

DumpInv ==
    /\ dump \in Dump
    /\ dump.pc # "idle" => dump.actor \in Actors /\ dump.known \subseteq Visible(dump.actor)
    /\ dump.pc = "audit" =>
          /\ dump.rows \subseteq Visible(dump.actor)
          /\ \A id \in dump.deleted : id \in dump.rows /\ table[id].state = "deleted"
    /\ dump.pc \in {"audit", "insert", "sent"} => RowsWhole
    /\ dump.pc \in {"insert", "sent"} => LogWhole
    /\ dump.pc = "sent" =>
          /\ Cardinality(dump.rows) >= RowCap => "memories" \in dump.truncated
          /\ Cardinality(dump.log) >= RowCap => "audit_log" \in dump.truncated

ExportInv == TrailInv /\ ListedInv /\ DumpInv

\* LIMIT n returns every row, or n of them.
LEMMA LimitedWhole ==
    ASSUME NEW all, IsFiniteSet(all), NEW n \in Nat, NEW s \in Limited(all, n)
    PROVE  s \subseteq all /\ (s = all \/ Cardinality(s) >= n)
<1>1. Cardinality(all) \in Nat /\ s \in SUBSET all
  BY FS_CardinalityType DEF Limited
<1>2. Min({n, Cardinality(all)}) \in {n, Cardinality(all)}
  <2>1. \E x \in {n, Cardinality(all)} : \A y \in {n, Cardinality(all)} : x <= y
    BY <1>1
  <2>2. QED
    BY <2>1 DEF Min
<1>3. CASE Cardinality(s) = Cardinality(all)
  BY <1>1, <1>3, FS_Subset
<1>4. CASE Cardinality(s) = n
  BY <1>1, <1>4
<1>5. QED
  BY <1>1, <1>2, <1>3, <1>4 DEF Limited

\* A commit of another transaction takes no row away from anybody.
LEMMA TableGrows ==
    ASSUME ExportInv, CaptureCommits \/ DeleteCommits
    PROVE  /\ TrailInv'
           /\ \A id \in Stored : table[id].state # "absent" =>
                 table'[id].state # "absent" /\ table'[id].actor = table[id].actor
           /\ \A id \in Stored : table[id].state = "deleted" => table'[id].state = "deleted"
<1> USE DEF ExportInv, TrailInv, Actor
<1>1. CASE CaptureCommits
  <2>1. PICK id \in Stored, a \in Actors :
          /\ table[id] = Absent
          /\ table' = [table EXCEPT ![id] = [state |-> "live", actor |-> a]]
          /\ log' = log \union {Entry("write", id, a)}
    BY <1>1 DEF CaptureCommits
  <2>2. IsFiniteSet(log') /\ log' \subseteq Entries
    <3>1. Entry("write", id, a) \in Entries
      BY DEF Entry, Entries
    <3>2. QED
      BY <2>1, <3>1, FS_AddElement
  <2>3. exports' \in Nat
    BY <1>1 DEF CaptureCommits
  <2>4. QED
    BY <2>1, <2>2, <2>3 DEF Absent
<1>2. CASE DeleteCommits
  <2>1. PICK a \in Actors, id \in Stored :
          /\ id \in Visible(a) /\ table[id].state = "live"
          /\ table' = [table EXCEPT ![id].state = "deleted"]
          /\ log' = log \union {Entry("delete", id, a)}
    BY <1>2 DEF DeleteCommits, Visible
  <2>2. table[id].actor = a
    BY <2>1 DEF Visible
  <2>3. IsFiniteSet(log') /\ log' \subseteq Entries
    <3>1. Entry("delete", id, a) \in Entries
      BY DEF Entry, Entries
    <3>2. QED
      BY <2>1, <3>1, FS_AddElement
  <2>4. exports' \in Nat
    BY <1>2 DEF DeleteCommits
  <2>5. QED
    BY <2>1, <2>2, <2>3, <2>4
<1>3. QED
  BY <1>1, <1>2

\* The empty table satisfies the invariant.
LEMMA ExportInitInv == ExportInit => ExportInv
<1> SUFFICES ASSUME ExportInit PROVE ExportInv
  OBVIOUS
<1>1. TrailInv
  BY FS_EmptySet DEF ExportInit, TrailInv, Absent, Actor
<1>2. ListedInv
  BY DEF ExportInit, ListedInv
<1>3. DumpInv
  BY DEF ExportInit, DumpInv, NoDump, Dump, Actor
<1>4. QED
  BY <1>1, <1>2, <1>3 DEF ExportInv

\* Every step preserves it.
LEMMA ExportNextInv == ExportInv /\ [ExportNext]_exportVars => ExportInv'
<1> SUFFICES ASSUME ExportInv, [ExportNext]_exportVars PROVE ExportInv'
  OBVIOUS
<1>0. TrailInv /\ ListedInv /\ DumpInv /\ dump \in Dump /\ RowCap \in Nat
  BY ExportAssumption DEF ExportInv, DumpInv
<1>1. CASE CaptureCommits \/ DeleteCommits
  <2>1. UNCHANGED <<listed, dump>>
    BY <1>1 DEF CaptureCommits, DeleteCommits
  <2>2. \A a : Visible(a) \subseteq Visible(a)'
    BY <1>1, TableGrows DEF Visible
  <2>3. ListedInv'
    BY <1>0, <2>1, <2>2 DEF ListedInv
  <2>4. DumpInv'
    <3>1. \A id \in dump.deleted : table[id].state = "deleted" => table'[id].state = "deleted"
      BY <1>0, <1>1, TableGrows DEF Dump
    <3>2. QED
      BY <1>0, <2>1, <2>2, <3>1 DEF DumpInv, RowsWhole, LogWhole
  <2>5. QED
    BY <1>1, <2>3, <2>4, TableGrows DEF ExportInv
<1>2. ASSUME UNCHANGED <<table, listed>> PROVE ListedInv' /\ \A a : Visible(a)' = Visible(a)
  BY <1>0, <1>2 DEF ListedInv, Visible
<1>3. ASSUME UNCHANGED <<table, log>>, exports' \in Nat PROVE TrailInv'
  BY <1>0, <1>3 DEF TrailInv
<1>4. ASSUME NEW a \in Actors, List(a) PROVE ExportInv'
  <2>1. PICK page \in Limited({id \in Visible(a) : table[id].state = "live"}, PageSize) :
          listed' = [listed EXCEPT ![a] = @ \union page]
    BY <1>4 DEF List
  <2>2. page \subseteq Visible(a)
    BY DEF Limited
  <2>3. UNCHANGED <<table, log, dump, exports>>
    BY <1>4 DEF List
  <2>4. ListedInv'
    BY <1>0, <2>1, <2>2, <2>3 DEF ListedInv, Visible
  <2>5. DumpInv'
    BY <1>0, <2>3 DEF DumpInv, RowsWhole, LogWhole, Visible
  <2>6. QED
    BY <1>0, <2>3, <2>4, <2>5 DEF ExportInv, TrailInv
<1>5. ASSUME NEW a \in Actors, ExportBegins(a) PROVE ExportInv'
  <2>1. UNCHANGED <<table, log, listed>> /\ exports' \in Nat
    BY <1>0, <1>5 DEF ExportBegins, TrailInv
  <2>2. dump' = [NoDump EXCEPT !.pc = "memories", !.actor = a, !.known = listed[a]]
    BY <1>5 DEF ExportBegins
  <2>3. /\ dump' \in Dump /\ dump'.pc = "memories" /\ dump'.actor = a /\ dump'.known = listed[a]
    BY <1>0, <2>2 DEF NoDump, Dump, Actor, ListedInv
  <2>4. DumpInv'
    BY <1>0, <1>2, <2>1, <2>3 DEF DumpInv, ListedInv
  <2>5. QED
    BY <1>2, <1>3, <2>1, <2>4 DEF ExportInv
<1>6. CASE ReadMemories
  <2>1. PICK read \in Limited(Visible(dump.actor), RowCap) :
          dump' = [dump EXCEPT !.pc = "audit", !.rows = read,
                               !.deleted = {id \in read : table[id].state = "deleted"}]
    BY <1>6 DEF ReadMemories, Exported
  <2>2. UNCHANGED <<table, log, listed, exports>> /\ dump.pc = "memories"
    BY <1>6 DEF ReadMemories
  <2>3. Visible(dump.actor) \subseteq Stored /\ IsFiniteSet(Visible(dump.actor))
    BY ExportAssumption, FS_Subset DEF Visible
  <2>4. read \subseteq Visible(dump.actor)
        /\ (read = Visible(dump.actor) \/ Cardinality(read) >= RowCap)
    BY <1>0, <2>3, LimitedWhole
  <2>5. /\ dump' \in Dump /\ dump'.pc = "audit" /\ dump'.rows = read
        /\ dump'.deleted = {id \in read : table[id].state = "deleted"}
        /\ dump'.actor = dump.actor /\ dump'.known = dump.known
    BY <1>0, <2>1, <2>3, <2>4 DEF Dump
  <2>6. RowsWhole'
    BY <1>0, <2>2, <2>4, <2>5 DEF RowsWhole, DumpInv
  <2>7. DumpInv'
    BY <1>0, <1>2, <2>2, <2>4, <2>5, <2>6 DEF DumpInv
  <2>8. QED
    BY <1>0, <1>2, <1>3, <2>2, <2>7 DEF ExportInv, TrailInv
<1>7. CASE ReadAudit
  <2>1. PICK read \in Limited(VisibleLog(dump.actor), RowCap) :
          dump' = [dump EXCEPT !.pc = "insert", !.log = read]
    BY <1>7 DEF ReadAudit
  <2>2. UNCHANGED <<table, log, listed, exports>> /\ dump.pc = "audit"
    BY <1>7 DEF ReadAudit
  <2>3. IsFiniteSet(VisibleLog(dump.actor)) /\ VisibleLog(dump.actor) \subseteq log
    BY <1>0, FS_Subset DEF VisibleLog, TrailInv
  <2>4. read \subseteq log /\ (read = VisibleLog(dump.actor) \/ Cardinality(read) >= RowCap)
    BY <1>0, <2>3, LimitedWhole
  <2>5. /\ dump' \in Dump /\ dump'.pc = "insert" /\ dump'.log = read
        /\ dump'.rows = dump.rows /\ dump'.deleted = dump.deleted
        /\ dump'.actor = dump.actor /\ dump'.known = dump.known
    BY <1>0, <2>1, <2>4 DEF Dump, TrailInv
  <2>6. /\ \A id \in dump.rows : Entry("write", id, dump.actor) \in VisibleLog(dump.actor)
        /\ \A id \in dump.deleted : Entry("delete", id, dump.actor) \in VisibleLog(dump.actor)
    <3>1. \A id \in dump.rows : id \in Stored /\ table[id].state # "absent"
                                 /\ table[id].actor = dump.actor
      BY <1>0, <2>2 DEF DumpInv, Visible
    <3>2. \A id \in dump.deleted : id \in dump.rows /\ table[id].state = "deleted"
      BY <1>0, <2>2 DEF DumpInv
    <3>3. QED
      BY <1>0, <3>1, <3>2 DEF TrailInv, VisibleLog, Entry
  <2>7. LogWhole' /\ RowsWhole'
    BY <1>0, <2>2, <2>4, <2>5, <2>6 DEF LogWhole, RowsWhole, DumpInv
  <2>8. DumpInv'
    BY <1>0, <1>2, <2>2, <2>5, <2>7 DEF DumpInv
  <2>9. QED
    BY <1>0, <1>2, <1>3, <2>2, <2>8 DEF ExportInv, TrailInv
<1>8. CASE ExportCommits
  <2> DEFINE marks == (IF Truncated(Cardinality(dump.rows)) THEN {"memories"} ELSE {})
                \union (IF Truncated(Cardinality(dump.log)) THEN {"audit_log"} ELSE {})
  <2>1. /\ dump' = [dump EXCEPT !.pc = "sent", !.truncated = marks] /\ dump.pc = "insert"
        /\ log' = log \union {Entry("export", exports, dump.actor)}
        /\ UNCHANGED <<table, listed, exports>>
    BY <1>8 DEF ExportCommits
  <2>2. marks \in SUBSET {"memories", "audit_log"}
        /\ (Cardinality(dump.rows) >= RowCap => "memories" \in marks)
        /\ (Cardinality(dump.log) >= RowCap => "audit_log" \in marks)
    BY DEF Truncated
  <2> HIDE DEF marks
  <2>3. /\ dump' \in Dump /\ dump'.pc = "sent" /\ dump'.truncated = marks
        /\ dump'.rows = dump.rows /\ dump'.deleted = dump.deleted /\ dump'.log = dump.log
        /\ dump'.actor = dump.actor /\ dump'.known = dump.known
    BY <1>0, <2>1, <2>2 DEF Dump
  <2>4. DumpInv'
    BY <1>0, <1>2, <2>1, <2>2, <2>3 DEF DumpInv, RowsWhole, LogWhole
  <2>5. TrailInv'
    <3>1. Entry("export", exports, dump.actor) \in Entries
      BY <1>0 DEF TrailInv, Entry, Entries, Dump
    <3>2. IsFiniteSet(log') /\ log' \subseteq Entries
      BY <1>0, <2>1, <3>1, FS_AddElement DEF TrailInv
    <3>3. QED
      BY <1>0, <2>1, <3>2 DEF TrailInv
  <2>6. QED
    BY <1>2, <2>1, <2>4, <2>5 DEF ExportInv
<1>9. CASE ExportFails
  <2>1. dump' = NoDump /\ UNCHANGED <<table, log, listed, exports>>
    BY <1>9 DEF ExportFails
  <2>2. DumpInv'
    BY <2>1 DEF DumpInv, NoDump, Dump, Actor
  <2>3. QED
    BY <1>0, <1>2, <1>3, <2>1, <2>2 DEF ExportInv, TrailInv
<1>10. CASE UNCHANGED exportVars
  BY <1>0, <1>10 DEF exportVars, ExportInv, TrailInv, ListedInv, DumpInv, RowsWhole, LogWhole,
     Visible
<1>11. QED
  BY <1>1, <1>4, <1>5, <1>6, <1>7, <1>8, <1>9, <1>10 DEF ExportNext

\* The export is a superset of every list shown before it, whatever was deleted
\* since, or says that it is truncated.
THEOREM ExportIsSuperset == ExportSpec => []SupersetOfCurated
<1>1. ExportInv => SupersetOfCurated
  BY DEF ExportInv, DumpInv, RowsWhole, SupersetOfCurated
<1>2. QED
  BY <1>1, ExportInitInv, ExportNextInv, PTL DEF ExportSpec

\* Every row of a dump comes with the audit entries that explain it, though the
\* two tables are read in two snapshots.
THEOREM ExportExplainsItself == ExportSpec => []DumpExplainsItself
<1>1. ExportInv => DumpExplainsItself
  BY DEF ExportInv, DumpInv, LogWhole, DumpExplainsItself
<1>2. QED
  BY <1>1, ExportInitInv, ExportNextInv, PTL DEF ExportSpec

-----------------------------------------------------------------------------
(* The five pieces together. *)

\* No more rows than the cap, no marker without its row.
CapInv ==
    /\ dump.deleted \subseteq dump.rows
    /\ Cardinality(dump.rows) <= RowCap /\ Cardinality(dump.log) <= RowCap
    /\ exports \in 0 .. MaxExports

\* LIMIT n returns at most n rows.
LEMMA LimitedCapped ==
    ASSUME NEW all, IsFiniteSet(all), NEW n \in Nat, NEW s \in Limited(all, n)
    PROVE  Cardinality(s) <= n
<1>1. Cardinality(all) \in Nat
  BY FS_CardinalityType
<1> DEFINE c == Cardinality(all)
<1> HIDE DEF c
<1>2. Min({n, c}) \in {n, c} /\ Min({n, c}) <= n
  <2>1. \E x \in {n, c} : \A y \in {n, c} : x <= y
    BY <1>1 DEF c
  <2>2. QED
    BY <1>1, <2>1 DEF Min
<1>3. Cardinality(s) = Min({n, c})
  BY DEF Limited, c
<1> QED BY <1>2, <1>3

\* The two SELECTs of the export respect the cap.
LEMMA CapNextInv ==
    ASSUME ExportInv, CapInv, [ExportNext]_exportVars
    PROVE  CapInv'
<1>0. /\ RowCap \in Nat /\ MaxExports \in Nat /\ Cardinality({}) = 0
      /\ IsFiniteSet(Stored) /\ IsFiniteSet(log) /\ dump \in Dump /\ exports \in Nat
  BY ExportAssumption, FS_EmptySet DEF ExportInv, TrailInv, DumpInv
<1>1. CASE CaptureCommits \/ DeleteCommits \/ (\E a \in Actors : List(a)) \/ UNCHANGED exportVars
  BY <1>1 DEF CaptureCommits, DeleteCommits, List, exportVars, CapInv
<1>2. ASSUME NEW a \in Actors, ExportBegins(a) PROVE CapInv'
  <2>1. dump'.rows = {} /\ dump'.deleted = {} /\ dump'.log = {} /\ exports' = exports + 1 /\ exports < MaxExports
    BY <1>2 DEF ExportBegins, NoDump
  <2> QED BY <1>0, <2>1 DEF CapInv
<1>3. CASE ExportFails
  <2>1. dump'.rows = {} /\ dump'.deleted = {} /\ dump'.log = {} /\ exports' = exports
    BY <1>3 DEF ExportFails, NoDump
  <2> QED BY <1>0, <2>1 DEF CapInv
<1>4. CASE ReadMemories
  <2>1. PICK read \in Limited(Visible(dump.actor), RowCap) :
          dump' = [dump EXCEPT !.pc = "audit", !.rows = read,
                               !.deleted = {id \in read : table[id].state = "deleted"}]
    BY <1>4 DEF ReadMemories, Exported
  <2>2. IsFiniteSet(Visible(dump.actor))
    BY <1>0, FS_Subset DEF Visible
  <2>3. Cardinality(read) <= RowCap
    BY <1>0, <2>2, LimitedCapped
  <2>4. /\ dump'.rows = read /\ dump'.log = dump.log /\ exports' = exports
        /\ dump'.deleted = {id \in read : table[id].state = "deleted"}
    BY <1>0, <1>4, <2>1 DEF Dump, ReadMemories
  <2> QED BY <2>3, <2>4 DEF CapInv
<1>5. CASE ReadAudit
  <2>1. PICK read \in Limited(VisibleLog(dump.actor), RowCap) :
          dump' = [dump EXCEPT !.pc = "insert", !.log = read]
    BY <1>5 DEF ReadAudit
  <2>2. IsFiniteSet(VisibleLog(dump.actor))
    BY <1>0, FS_Subset DEF VisibleLog
  <2>3. Cardinality(read) <= RowCap
    BY <1>0, <2>2, LimitedCapped
  <2>4. dump'.rows = dump.rows /\ dump'.deleted = dump.deleted /\ dump'.log = read /\ exports' = exports
    BY <1>0, <1>5, <2>1 DEF Dump, ReadAudit
  <2> QED BY <2>3, <2>4 DEF CapInv
<1>6. CASE ExportCommits
  <2>1. dump'.rows = dump.rows /\ dump'.deleted = dump.deleted /\ dump'.log = dump.log /\ exports' = exports
    BY <1>0, <1>6 DEF Dump, ExportCommits
  <2> QED BY <2>1 DEF CapInv
<1> QED BY <1>1, <1>2, <1>3, <1>4, <1>5, <1>6 DEF ExportNext

ServicesInv == PipelineInv /\ RetryInv /\ ComposeInv /\ MigrateInv /\ ExportInv /\ CapInv

\* A step of the whole is a step or a stutter of each piece.
LEMMA PieceSteps ==
    ASSUME [Next]_vars
    PROVE  /\ [PipelineNext]_pipelineVars /\ [RetryNext]_retryVars /\ [ComposeNext]_composeVars
           /\ [MigrateNext]_migrateVars /\ [ExportNext]_exportVars
<1>1. CASE UNCHANGED vars
  BY <1>1 DEF vars
<1>2. CASE Capturing /\ PipelineNext
  BY <1>2 DEF Capturing
<1>3. CASE Retrying /\ RetryNext
  BY <1>3 DEF Retrying
<1>4. CASE Composing /\ ComposeNext
  BY <1>4 DEF Composing
<1>5. CASE Migrating /\ MigrateNext
  BY <1>5 DEF Migrating
<1>6. CASE Exporting /\ ExportNext
  BY <1>6 DEF Exporting
<1> QED
  BY <1>1, <1>2, <1>3, <1>4, <1>5, <1>6
     DEF Next, PipelineNext, RetryNext, ComposeNext, MigrateNext, ExportNext

\* Whichever piece runs, each of the five behaves as it does alone, so what is
\* proved of a piece by itself holds of it here.
THEOREM PiecesRun ==
    Spec => PipelineSpec /\ RetrySpec /\ ComposeSpec /\ MigrateSpec /\ ExportSpec
<1>1. Init => PipelineInit /\ RetryInit /\ ComposeInit /\ MigrateInit /\ ExportInit
  BY DEF Init
<1>2. [Next]_vars => /\ [PipelineNext]_pipelineVars /\ [RetryNext]_retryVars
                     /\ [ComposeNext]_composeVars /\ [MigrateNext]_migrateVars
                     /\ [ExportNext]_exportVars
  BY PieceSteps
<1> QED BY <1>1, <1>2, PTL
        DEF Spec, PipelineSpec, RetrySpec, ComposeSpec, MigrateSpec, ExportSpec

\* The state of every piece keeps its type: no more candidates than the cap of a
\* turn, no second beyond the time limit, every total between 0 and the sum of the
\* weights, no more rows than the cap of the export.
THEOREM ServicesTyped == Spec => []TypeOK
<1>1. Init => ServicesInv
  <2> SUFFICES ASSUME Init PROVE ServicesInv
    OBVIOUS
  <2>1. PipelineInit /\ RetryInit /\ ComposeInit /\ MigrateInit /\ ExportInit
    BY DEF Init
  <2>2. CapInv
    BY <2>1, FS_EmptySet, ExportAssumption DEF ExportInit, NoDump, CapInv
  <2> QED BY <2>1, <2>2, PipelineInitInv, RetryInitInv, ComposeInitInv, MigrateInitInv, ExportInitInv
          DEF ServicesInv
<1>2. ServicesInv /\ [Next]_vars => ServicesInv'
  BY PieceSteps, PipelineAssumption, PipelineNextInv, RetryNextInv, ComposeNextInv, MigrateNextInv,
     ExportNextInv, CapNextInv DEF ServicesInv
<1>3. ServicesInv => TypeOK
  <2> SUFFICES ASSUME ServicesInv PROVE TypeOK
    OBVIOUS
  <2>1. PipelineTypeOK /\ RetryTypeOK /\ ComposeTypeOK /\ MigrateTypeOK
    BY ComposeTyped DEF ServicesInv, PipelineInv, RetryInv, MigrateInv
  <2>2. ExportTypeOK
    <3>1. dump \in Dump /\ CapInv
          /\ table \in [Stored -> [state : {"absent", "live", "deleted"}, actor : Actor]]
          /\ listed \in [Actors -> SUBSET Stored]
      BY DEF ServicesInv, ExportInv, TrailInv, ListedInv, DumpInv
    <3>2. dump.pc \in {"idle", "memories", "audit", "insert", "sent"}
          /\ dump.truncated \subseteq {"memories", "audit_log"}
      BY <3>1 DEF Dump
    <3>3. \A id \in Stored : table[id].state \in {"absent", "live", "deleted"}
      BY <3>1
    <3>4. \A a \in Actors : listed[a] \subseteq Stored
      BY <3>1
    <3> QED BY <3>1, <3>2, <3>3, <3>4 DEF ExportTypeOK, CapInv
  <2> QED BY <2>1, <2>2 DEF TypeOK
<1> QED BY <1>1, <1>2, <1>3, PTL DEF Spec
=============================================================================
