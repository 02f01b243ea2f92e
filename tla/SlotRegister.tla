---------------------------- MODULE SlotRegister ----------------------------
(* What the memory store promises of the single-valued slots, with no        *)
(* transaction, lock, request or job in sight: registers that show one value *)
(* or none, lose a value only to a newer one or to a delete, and never show  *)
(* one again that they stopped showing.                                      *)
CONSTANTS
    Slots,      \* the single-valued attributes
    Values      \* the memories that can fill them

VARIABLES
    spent,      \* the values each slot shows or has had
    shown,      \* those a reader finds in it
    deleted     \* those the user has deleted

Init == /\ spent = [a \in Slots |-> {}]
        /\ shown = [a \in Slots |-> {}]
        /\ deleted = [a \in Slots |-> {}]

\* A turn gives each slot of S a value it never had; of several values the turn had
\* for a slot only the last one is ever shown.
Fill(S) ==
    /\ S # {}
    /\ spent' \in [Slots -> SUBSET Values]
    /\ shown' \in [Slots -> SUBSET Values]
    /\ \A a \in S : /\ spent[a] \subseteq spent'[a]
                    /\ \E v \in spent'[a] \ spent[a] : shown'[a] = {v}
    /\ \A a \in Slots \ S : spent'[a] = spent[a] /\ shown'[a] = shown[a]
    /\ UNCHANGED deleted

\* The user deletes a value of slot a, shown or superseded.
Delete(a, v) ==
    /\ v \in spent[a] \ deleted[a]
    /\ shown' = [shown EXCEPT ![a] = @ \ {v}]
    /\ deleted' = [deleted EXCEPT ![a] = @ \cup {v}]
    /\ UNCHANGED spent

Next ==
    \/ \E S \in SUBSET Slots : Fill(S)
    \/ \E a \in Slots, v \in Values : Delete(a, v)

Spec == Init /\ [][Next]_<<spent, shown, deleted>>
=============================================================================
