------------------------------- MODULE Lists -------------------------------
(* Two operations on lists, written without folds or sorting so that they can *)
(* be reasoned about: the running sums of a list of numbers and a filter.     *)
EXTENDS Integers, Sequences, FiniteSets

\* Sums(d)[k] is the sum of the first k entries of d.
Sums(d) ==
    LET sum[k \in 0 .. Len(d)] == IF k = 0 THEN 0 ELSE sum[k - 1] + d[k] IN sum

\* The positions K of a list in increasing order: what a filter keeps of it. There
\* is one such sequence.
Picks(K) ==
    {pick \in [1 .. Cardinality(K) -> K] : \A a, b \in DOMAIN pick : a < b => pick[a] < pick[b]}
=============================================================================
