--------------------------- MODULE MCMemoryStore ---------------------------
(* Instances of MemoryStore: two programming languages competing for one   *)
(* single-valued slot, and facts without a slot.                           *)
EXTENDS MemoryStore, TLC

CONSTANTS java, cpp, tea, lang

User(f, a) == [text |-> f, attribute |-> a, source |-> "user_message"]
Assistant(f) == [text |-> f, attribute |-> lang, source |-> "assistant_note"]

Identity == {<<f, f>> : f \in Facts}
AllPairs == Facts \X Facts

\* The two languages read alike, the slotless fact does not.
Languages == Identity \cup {<<java, cpp>>, <<cpp, java>>}

\* One candidate per turn, or a turn that changes its mind half-way.
SlotBatches ==
    {<<User(java, lang)>>, <<User(cpp, lang), User(java, lang)>>,
     <<Assistant(java)>>, <<Assistant(tea)>>}

\* Turns about two slot values and a slotless fact.
ReflectionBatches == {<<User(java, lang)>>, <<User(cpp, lang)>>, <<User(tea, NoAttr)>>}

StoreSymmetry == Permutations(Workers) \cup Permutations(Requests)
                     \cup Permutations(Runs)
=============================================================================
