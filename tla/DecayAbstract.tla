--------------------------- MODULE DecayAbstract ---------------------------
(* What the decay job promises of the table, with no worker, lock, claim,    *)
(* crash or scheduler in sight: a sweep takes the rows in batches, each in   *)
(* one indivisible step, and takes no row twice.                             *)
EXTENDS DecayRows

VARIABLES
    mem,        \* [Rows -> Row]
    handled     \* [Runs -> SUBSET Rows]: the rows a sweep has decayed

Init == /\ mem = [i \in Rows |-> FreshRow]
        /\ handled = [r \in Runs |-> {}]

\* Time passes.
Night == /\ mem' = [i \in Rows |-> [mem[i] EXCEPT !.age = Older(@)]]
         /\ UNCHANGED handled

Reinforce(i, age) == /\ mem' = [mem EXCEPT ![i] = Reinforced(@, age)]
                     /\ UNCHANGED handled

Delete(i) == /\ mem' = [mem EXCEPT ![i].deleted = TRUE]
             /\ UNCHANGED handled

\* A sweep under a new id: no row carries it yet.
NewSweep(r) ==
    /\ handled' = [handled EXCEPT ![r] = {}]
    /\ mem' = [i \in Rows |->
                  IF mem[i].run = r THEN [mem[i] EXCEPT !.run = NoRun] ELSE mem[i]]

\* The sweep r decays the rows S together, each to the weight of its present
\* reinforcement count at an age it has reached.
DecayBatch(r, S) ==
    /\ S # {} /\ S \intersect handled[r] = {}
    /\ \A i \in S : ~mem[i].deleted /\ ~mem[i].archived
    /\ \E at \in [S -> Ages] :
          /\ \A i \in S : at[i] <= mem[i].age
          /\ mem' = [i \in Rows |->
                IF i \in S THEN Decayed(mem[i], r, DecayWeight(at[i], mem[i].count))
                ELSE mem[i]]
    /\ handled' = [handled EXCEPT ![r] = @ \union S]

Next ==
    \/ Night
    \/ \E i \in Rows : Delete(i) \/ \E age \in Ages : Reinforce(i, age)
    \/ \E r \in Runs : NewSweep(r) \/ \E S \in SUBSET Rows : DecayBatch(r, S)

Spec == Init /\ [][Next]_<<mem, handled>>
=============================================================================
