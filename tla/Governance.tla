----------------------------- MODULE Governance -----------------------------
(***************************************************************************)
(* DELETE and PATCH /memories/{id} (api/memories.py).  Each request runs   *)
(* three transactions of its own: the ownership check, the invalidation of *)
(* the summary built on the memory, and the mutation with its audit row.   *)
(* The two sessions that lock the memory's id hold the lock only within    *)
(* one transaction, which is one step here.                                *)
(***************************************************************************)
EXTENDS Memories

CONSTANTS
    Requests,       \* concurrent governance requests
    MaxEdits        \* bound on the number of PATCH requests

ASSUME GovernanceAssumption == MaxEdits \in Nat

VARIABLES
    req,            \* progress of each request
    edits           \* PATCH requests started

governanceVars == <<req, edits>>

Request == [pc : {"idle", "delete_checked", "delete_invalidated",
                  "patch_checked", "patch_invalidated"},
            id : Ids \cup {NoId},
            text : SUBSET Facts]

IdleRequest == [pc |-> "idle", id |-> NoId, text |-> {}]

-----------------------------------------------------------------------------
\* ensure_owned: a missing or deleted memory answers 404 and nothing happens.
ensure_owned(i) == i \in Undeleted(mem)

DeleteCheck(r, i) ==
    /\ req[r].pc = "idle"
    /\ ensure_owned(i)
    /\ req' = [req EXCEPT ![r] = [pc |-> "delete_checked", id |-> i, text |-> {}]]
    /\ UNCHANGED <<storeVars, edits>>

\* PATCH: ownership, then the embedding call, which holds no transaction.
PatchCheck(r, i, f) ==
    /\ req[r].pc = "idle"
    /\ ensure_owned(i)
    /\ edits < MaxEdits
    /\ edits' = edits + 1
    /\ req' = [req EXCEPT ![r] = [pc |-> "patch_checked", id |-> i, text |-> {f}]]
    /\ UNCHANGED storeVars

\* invalidate_summaries_for, as the owner and in its own transaction.
invalidate_summaries_for(r, from, to) ==
    LET stale == StaleTargets(mem, {req[r].id})
    IN  /\ req[r].pc = from
        /\ Unlocked(stale)
        /\ mem' = [i \in Ids |-> IF i \in stale THEN [mem[i] EXCEPT !.stale = TRUE] ELSE mem[i]]
        /\ audit' = Log(audit, {"stale"} \X stale)
        /\ req' = [req EXCEPT ![r].pc = to]
        /\ UNCHANGED <<writes, pend, edits>>

DeleteInvalidate(r) == invalidate_summaries_for(r, "delete_checked", "delete_invalidated")
PatchInvalidate(r) == invalidate_summaries_for(r, "patch_checked", "patch_invalidated")

\* Mutant of Mutate: no deleted_at IS NULL, the check at the start is trusted.
MutateUnchecked(r, outcome, row) ==
    /\ Unlocked({req[r].id})
    /\ mem' = [mem EXCEPT ![req[r].id] = row]
    /\ audit' = Log(audit, {<<outcome, req[r].id>>})
    /\ req' = [req EXCEPT ![r] = IdleRequest]
    /\ UNCHANGED <<writes, pend, edits>>

\* UPDATE ... WHERE id = i AND deleted_at IS NULL, and the one audit row; a
\* request that lost the race answers 404 and writes nothing.
Mutate(r, outcome, row) ==
    LET i == req[r].id
    IN  /\ Unlocked({i})
        /\ IF i \in Undeleted(mem)
           THEN /\ mem' = [mem EXCEPT ![i] = row]
                /\ audit' = Log(audit, {<<outcome, i>>})
           ELSE UNCHANGED <<mem, audit>>
        /\ req' = [req EXCEPT ![r] = IdleRequest]
        /\ UNCHANGED <<writes, pend, edits>>

DeleteCommit(r) ==
    /\ req[r].pc = "delete_invalidated"
    /\ Mutate(r, "delete", [mem[req[r].id] EXCEPT !.deleted = TRUE])

PatchCommit(r) ==
    /\ req[r].pc = "patch_invalidated"
    /\ Mutate(r, "edit", [mem[req[r].id] EXCEPT !.asserts = req[r].text])

\* The embedding provider, a lock timeout or the process fails between two
\* transactions; what is committed stays.
RequestAbort(r) ==
    /\ req[r].pc # "idle"
    /\ req' = [req EXCEPT ![r] = IdleRequest]
    /\ UNCHANGED <<storeVars, edits>>

GovernanceInit ==
    /\ req = [r \in Requests |-> IdleRequest]
    /\ edits = 0

RequestStep(r) ==
    \/ DeleteInvalidate(r) \/ DeleteCommit(r)
    \/ PatchInvalidate(r) \/ PatchCommit(r)

GovernanceNext(r) ==
    \/ \E i \in Ids : DeleteCheck(r, i)
    \/ \E i \in Ids, f \in Facts : PatchCheck(r, i, f)
    \/ RequestStep(r)
    \/ RequestAbort(r)

GovernanceTypeOK ==
    /\ req \in [Requests -> Request]
    /\ edits \in Nat
=============================================================================
