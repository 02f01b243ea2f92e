------------------------------ MODULE Capture ------------------------------
(***************************************************************************)
(* persist_candidates (store/memories.py): the transaction in which a      *)
(* capture worker inserts, reinforces, ignores or blocks each candidate    *)
(* of a turn, under the subject's advisory lock.                           *)
(*                                                                         *)
(* Each SELECT is a step of its own, because another transaction may       *)
(* commit between two of them; the statements that write one candidate are *)
(* one step, because nobody sees them before the commit and the rows they  *)
(* touch stay locked.                                                      *)
(***************************************************************************)
EXTENDS Memories

CONSTANTS
    NoWorker,
    Batches,        \* the candidate lists a turn can produce
    MaxCaptures     \* bound on the number of capture jobs

Candidate == [text : Facts,
              attribute : Attributes \cup {NoAttr},
              source : {"user_message", "assistant_note"}]

ASSUME CaptureAssumption ==
    /\ NoWorker \notin Workers
    /\ Batches \subseteq Seq(Candidate) \ {<<>>}
    /\ MaxCaptures \in Nat

VARIABLES
    tx,             \* progress of each worker's transaction
    subjectLock,    \* holder of pg_advisory_xact_lock(hashtext(subject_id))
    captures        \* capture jobs started

captureVars == <<tx, subjectLock, captures>>

Tx == [pc : {"idle", "waiting", "tombstones", "similar", "act", "commit"},
       todo : Seq(Candidate),
       match : Ids \cup {NoId}]

IdleTx == [pc |-> "idle", todo |-> <<>>, match |-> NoId]

\* Rule 1: the assistant may not set a slot.
SlotOf(c) == IF c.source = "assistant_note" THEN NoAttr ELSE c.attribute

is_single_valued(attribute) == attribute \in SingleValued

\* The loop's next statement: only assistant candidates look for tombstones.
Continue(todo) ==
    [pc |-> IF todo = <<>> THEN "commit"
            ELSE IF Head(todo).source = "assistant_note" THEN "tombstones"
            ELSE "similar",
     todo |-> todo,
     match |-> NoId]

-----------------------------------------------------------------------------
\* A job reaches write_node with at least one candidate.
CaptureStart(w) ==
    /\ tx[w].pc = "idle"
    /\ captures < MaxCaptures
    /\ \E b \in Batches :
         tx' = [tx EXCEPT ![w] = [pc |-> "waiting", todo |-> b, match |-> NoId]]
    /\ captures' = captures + 1
    /\ UNCHANGED <<storeVars, subjectLock>>

\* Mutant of CaptureLock: nothing is locked.
CaptureLockShared(w) ==
    /\ tx[w].pc = "waiting"
    /\ subjectLock' = w
    /\ tx' = [tx EXCEPT ![w] = Continue(tx[w].todo)]
    /\ UNCHANGED <<storeVars, captures>>

\* _SUBJECT_LOCK_SQL is granted.
CaptureLock(w) ==
    /\ tx[w].pc = "waiting"
    /\ subjectLock = NoWorker
    /\ subjectLock' = w
    /\ tx' = [tx EXCEPT ![w] = Continue(tx[w].todo)]
    /\ UNCHANGED <<storeVars, captures>>

\* lock_timeout cancels the wait and the job fails.
CaptureLockTimeout(w) ==
    /\ tx[w].pc = "waiting"
    /\ subjectLock # NoWorker
    /\ tx' = [tx EXCEPT ![w] = IdleTx]
    /\ UNCHANGED <<storeVars, subjectLock, captures>>

\* Rule 2: an assistant candidate near something removed is skipped.
CaptureTombstones(w) ==
    /\ tx[w].pc = "tombstones"
    /\ \E grave \in find_similar_tombstones(View(w), Head(tx[w].todo).text) :
         tx' = [tx EXCEPT ![w] = IF grave # NoId
                                 THEN Continue(Tail(tx[w].todo))
                                 ELSE [tx[w] EXCEPT !.pc = "similar"]]
    /\ UNCHANGED <<storeVars, subjectLock, captures>>

\* find_similar, and the guard that keeps dedup from swallowing a new value
\* of the same single-valued slot.
Match(t, c, found) ==
    IF /\ found # NoId
       /\ is_single_valued(SlotOf(c))
       /\ t[found].attribute = SlotOf(c)
       /\ t[found].asserts # {c.text}
    THEN NoId ELSE found

CaptureFindSimilar(w) ==
    /\ tx[w].pc = "similar"
    /\ \E found \in find_similar(View(w), Head(tx[w].todo).text) :
         tx' = [tx EXCEPT ![w].pc = "act",
                          ![w].match = Match(View(w), Head(tx[w].todo), found)]
    /\ UNCHANGED <<storeVars, subjectLock, captures>>

\* Rule 3: the assistant repeating a fact is not evidence for it.
CaptureIgnore(w) ==
    /\ tx[w].pc = "act"
    /\ tx[w].match # NoId
    /\ Head(tx[w].todo).source = "assistant_note"
    /\ tx' = [tx EXCEPT ![w] = Continue(Tail(tx[w].todo))]
    /\ UNCHANGED <<storeVars, subjectLock, captures>>

\* Mutant of reinforce: no deleted_at IS NULL.
reinforce_deleted(w, i) ==
    writes' = [writes EXCEPT ![w][i] = [View(w)[i] EXCEPT !.reinforced = @ + 1]]

\* reinforce: UPDATE ... WHERE id = i AND deleted_at IS NULL.
reinforce(w, i) ==
    writes' = IF i \in Undeleted(View(w))
              THEN [writes EXCEPT ![w][i] = [View(w)[i] EXCEPT !.reinforced = @ + 1]]
              ELSE writes

\* The match is reinforced and audited, whether or not the UPDATE found it.
CaptureReinforce(w) ==
    LET match == tx[w].match
    IN  /\ tx[w].pc = "act"
        /\ match # NoId
        /\ Head(tx[w].todo).source # "assistant_note"
        /\ \A v \in Workers \ {w} : ~LockedBy(v, {match})
        /\ reinforce(w, match)
        /\ pend' = [pend EXCEPT ![w] = Log(@, {<<"reinforce", match>>})]
        /\ tx' = [tx EXCEPT ![w] = Continue(Tail(tx[w].todo))]
        /\ UNCHANGED <<mem, audit, subjectLock, captures>>

\* Mutant of Superseded: mark_summary_stale is not called.
SupersededOnly(t, retired, stale, new_id) ==
    [i \in Ids |-> IF i \in retired THEN [t[i] EXCEPT !.superseded_by = new_id] ELSE NoRow]

\* supersede_slot with mark_summary_stale for every retired row: the row
\* versions of view t after row new_id took the slot.
Superseded(t, retired, stale, new_id) ==
    [i \in Ids |->
        IF i \in retired \cup stale
        THEN [t[i] EXCEPT !.superseded_by = IF i \in retired THEN new_id ELSE @,
                          !.stale = @ \/ i \in stale]
        ELSE NoRow]

\* insert_memory, supersede_slot for a single-valued slot, and their audits.
CaptureInsert(w) ==
    LET c       == Head(tx[w].todo)
        n       == FreshId
        retired == IF is_single_valued(SlotOf(c))
                   THEN SlotRetires(View(w), SlotOf(c), n) ELSE {}
        stale   == StaleTargets(View(w), retired)
        after   == Superseded(View(w), retired, stale, n)
    IN  /\ tx[w].pc = "act"
        /\ tx[w].match = NoId
        /\ FreshIds # {}
        /\ \A v \in Workers \ {w} : ~LockedBy(v, retired \cup stale)
        /\ writes' = [writes EXCEPT ![w] =
              [i \in Ids |-> IF i = n THEN NewRow({c.text}, SlotOf(c), c.source)
                             ELSE IF after[i] # NoRow THEN after[i]
                             ELSE writes[w][i]]]
        /\ pend' = [pend EXCEPT ![w] =
              Log(@, {<<"insert", n>>} \cup ({"superseded"} \X retired)
                                       \cup ({"stale"} \X stale))]
        /\ tx' = [tx EXCEPT ![w] = Continue(Tail(tx[w].todo))]
        /\ UNCHANGED <<mem, audit, subjectLock, captures>>

EndTx(w) ==
    /\ writes' = [writes EXCEPT ![w] = NoWrites]
    /\ pend' = [pend EXCEPT ![w] = NoAudit]
    /\ tx' = [tx EXCEPT ![w] = IdleTx]
    /\ subjectLock' = NoWorker
    /\ UNCHANGED captures

CaptureCommit(w) ==
    /\ tx[w].pc = "commit"
    /\ mem' = View(w)
    /\ audit' = [k \in AuditKeys |-> audit[k] + pend[w][k]]
    /\ EndTx(w)

\* Mutant of CaptureRollback: supersede_slot ran in a transaction of its own.
CaptureRollbackInsertOnly(w) ==
    /\ tx[w].pc \in {"tombstones", "similar", "act", "commit"}
    /\ EndTx(w)
    /\ mem' = [i \in Ids |-> IF mem[i] # NoRow THEN View(w)[i] ELSE NoRow]
    /\ UNCHANGED audit

\* An exception, the job timeout's cancellation, or a crash: ROLLBACK.
CaptureRollback(w) ==
    /\ tx[w].pc \in {"tombstones", "similar", "act", "commit"}
    /\ EndTx(w)
    /\ UNCHANGED <<mem, audit>>

CaptureInit ==
    /\ tx = [w \in Workers |-> IdleTx]
    /\ subjectLock = NoWorker
    /\ captures = 0

CaptureStep(w) ==
    \/ CaptureLock(w) \/ CaptureTombstones(w) \/ CaptureFindSimilar(w)
    \/ CaptureIgnore(w) \/ CaptureReinforce(w) \/ CaptureInsert(w)
    \/ CaptureCommit(w)

CaptureNext(w) ==
    \/ CaptureStart(w) \/ CaptureStep(w)
    \/ CaptureLockTimeout(w) \/ CaptureRollback(w)

CaptureTypeOK ==
    /\ tx \in [Workers -> Tx]
    /\ subjectLock \in Workers \cup {NoWorker}
    /\ captures \in Nat
=============================================================================
