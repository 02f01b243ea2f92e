---------------------------- MODULE MemoryStore ----------------------------
(***************************************************************************)
(* Capture workers, governance requests and reflection runs over the one   *)
(* table they share.  They take different locks (subject, memory id,       *)
(* none), so only row locks and the WHERE clauses of each UPDATE keep them *)
(* apart.                                                                  *)
(***************************************************************************)
EXTENDS Capture, Governance, Reflection

vars == <<storeVars, captureVars, governanceVars, reflectionVars>>

Init == StoreInit /\ CaptureInit /\ GovernanceInit /\ ReflectionInit

Next ==
    \/ \E w \in Workers : CaptureNext(w) /\ UNCHANGED <<governanceVars, reflectionVars>>
    \/ \E r \in Requests : GovernanceNext(r) /\ UNCHANGED <<captureVars, reflectionVars>>
    \/ \E k \in Runs : ReflectionNext(k) /\ UNCHANGED <<captureVars, governanceVars>>

Spec == Init /\ [][Next]_vars

\* Transactions and requests that have begun go on.  The weekly cron keeps
\* coming and visits the subject whenever it qualifies, more than the code
\* promises (module ReflectionWeeks); the provider call of a run that selected
\* a cluster returns or raises; the job does not crash every week in the same
\* place (strong fairness).  Nothing makes a user, a turn or an operator act.
Fairness ==
    /\ \A w \in Workers : WF_vars(CaptureStep(w) /\ UNCHANGED <<governanceVars, reflectionVars>>)
    /\ \A k \in Runs :
        /\ WF_vars(ReflectionScheduled(k) /\ UNCHANGED <<captureVars, governanceVars>>)
        /\ SF_vars(rebuild_stale_summaries(k) /\ UNCHANGED <<captureVars, governanceVars>>)
        /\ WF_vars(run[k].pc \in {"rebuilt", "selected"}
                     /\ (ReflectionStep(k) \/ ReflectionAbort(k))
                     /\ UNCHANGED <<captureVars, governanceVars>>)

FairSpec == Spec /\ Fairness

-----------------------------------------------------------------------------
(* Safety. *)

\* Every variable keeps to its columns and control states.
TypeOK == StoreTypeOK /\ CaptureTypeOK /\ GovernanceTypeOK /\ ReflectionTypeOK

\* A reader never sees two live values in a single-valued slot
\* (supersede_slot), whatever captures, deletes and edits interleave.
OneLivePerSlot(t) ==
    \A i, j \in Live(t) :
        t[i].attribute = t[j].attribute /\ t[i].attribute \in SingleValued => i = j

SlotSingleValued == OneLivePerSlot(mem)

\* What the trail `log` tells of memory i is what its row x shows.
TrailTells(log, i, x) ==
    LET n(outcome) == log[<<outcome, i>>]
        is(P) == IF P THEN 1 ELSE 0
    IN  /\ n("insert") = is(x # NoRow)
        /\ n("delete") + n("retired") = is(x # NoRow /\ x.deleted)
        /\ n("superseded") = is(x # NoRow /\ x.superseded_by # NoId)
        /\ n("stale") = is(x # NoRow /\ x.stale)
        /\ n("consolidated") =
             n("unconsolidated") + is(x # NoRow /\ x.consolidated_into # NoId)

\* "Exactly one audit row per action" (store/audit.py) for every action that
\* leaves a mark on the row: the trail and the table tell the same story.
AuditMatchesTable == \A i \in Ids : TrailTells(audit, i, mem[i])

\* Supersession builds chains inside one slot of table t: a superseded value
\* points at a row that filled the same single-valued slot, and no set of rows
\* supersedes itself, so the history always has a newest value.
Chained(t) ==
    LET superseded == {i \in Rows(t) : t[i].superseded_by # NoId}
    IN  /\ \A i \in superseded :
             /\ t[i].superseded_by \in Rows(t)
             /\ t[t[i].superseded_by].attribute = t[i].attribute
             /\ t[i].attribute \in SingleValued
        /\ \A C \in SUBSET superseded :
             C # {} => \E i \in C : t[i].superseded_by \notin C

\* The slot history a reader finds is such a chain (supersede_slot).
SupersessionChain == Chained(mem)

\* A summary the job retired holds no surviving source back from the next
\* clustering pass (rebuild_stale_summaries, _FREE_SOURCES_SQL).
RetiredFreesSources ==
    \A i \in Ids : audit[<<"retired", i>>] > 0 =>
        \A s \in Live(mem) : mem[s].consolidated_into # i

\* A soft-deleted row never changes again: every UPDATE of the capture, edit
\* and reflection paths asks for deleted_at IS NULL.
DeletedFrozen ==
    [][\A i \in Rows(mem) : mem[i].deleted => mem'[i] = mem[i]]_vars

\* Once superseded, a row keeps its pointer ("a retry cannot rewrite an
\* earlier supersession's pointer and lose the chain").
SupersessionFinal ==
    [][\A i \in Rows(mem) : mem[i].superseded_by # NoId =>
          mem'[i].superseded_by = mem[i].superseded_by]_vars

\* The commit that supersedes a consolidated row leaves its summary stale or
\* deleted: no reader sees the new value next to a summary of the old one.
SupersededStalesSummary ==
    [][\A i \in Live(mem) :
          (mem'[i].superseded_by # NoId /\ mem'[i].consolidated_into # NoId) =>
              LET s == mem'[i].consolidated_into
              IN  mem'[s].stale \/ mem'[s].deleted]_vars

-----------------------------------------------------------------------------
(* Refinement. *)

\* The rows of table t that fill slot a or filled it.
Filled(t, a) == {i \in Rows(t) : t[i].attribute = a}

Register == INSTANCE SlotRegister
    WITH Slots <- SingleValued, Values <- Ids,
         spent <- [a \in SingleValued |-> Filled(mem, a)],
         shown <- [a \in SingleValued |-> Filled(mem, a) \cap Live(mem)],
         deleted <- [a \in SingleValued |-> Filled(mem, a) \ Undeleted(mem)]

\* Whatever captures, deletes, edits and reflection runs interleave, roll back or
\* crash, a single-valued slot changes as a register does: the commit that retires its
\* value shows a new one, a value once retired is never shown again, and nothing but
\* a delete leaves the slot empty (supersede_slot, persist_candidates).
ImplementsRegister == Register!Spec

-----------------------------------------------------------------------------
(* What the repository's comments say and the code does not do. *)

\* store/memories.py, mark_summary_stale: "a summary left live after its
\* source vanished is precisely the bug".  A summary in retrieval has only
\* sources that are live and still say what it says (summaries the user
\* edited are theirs, not the sources').
SummarySupported ==
    \A i \in Live(mem) :
        (mem[i].source = "reflection" /\ ~mem[i].stale /\ audit[<<"edit", i>>] = 0) =>
            \A s \in source_ids[i] : s \in Live(mem) /\ mem[s].asserts \subseteq mem[i].asserts

\* store/audit.py: "the audit row must commit or roll back with the action it
\* describes": as many reinforcements on the row as in the trail.
ReinforceAudited ==
    \A i \in Rows(mem) : audit[<<"reinforce", i>>] = mem[i].reinforced

\* store/memories.py, Rule 2: "the assistant may not RESURRECT what the user
\* removed": no commit adds an assistant's copy of a deleted memory.
NoResurrection ==
    [][\A i \in Ids :
          (mem[i] = NoRow /\ mem'[i] # NoRow /\ mem'[i].source = "assistant_note") =>
              \A j \in Rows(mem) : mem[j].deleted => mem[j].asserts # mem'[i].asserts]_vars

\* store/memories.py: "Dedup must not swallow a change of mind": a user
\* statement for a single-valued slot never becomes a reinforcement while the
\* slot shows another value.
ChangeOfMindKept ==
    [][\A w \in Workers :
          CaptureReinforce(w) =>
              LET c == Head(tx[w].todo)
              IN  is_single_valued(SlotOf(c)) =>
                    \A i \in Live(View(w)) :
                        View(w)[i].attribute = SlotOf(c) =>
                            View(w)[i].asserts = {c.text}]_vars

StaleLive(i) == i \in StaleSummaries(mem)

\* jobs/reflection.py, rebuild_stale_summaries: "This closes that gap on the
\* next reflection run".
StaleEventuallyRetired == \A i \in Ids : StaleLive(i) ~> ~StaleLive(i)
=============================================================================
