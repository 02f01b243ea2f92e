-------------------------- MODULE MemoryStoreProofs --------------------------
(***************************************************************************)
(* Proofs about MemoryStore for every set of ids, workers, requests, runs, *)
(* facts, attributes and batches.                                          *)
(***************************************************************************)
EXTENDS MemoryStore, TLAPS

Holding == {"tombstones", "similar", "act", "commit"}

\* A transaction past the lock, and nobody else, holds the subject lock; only
\* it has uncommitted rows; and it has a candidate while it works on one.
LockInv ==
    \A w \in Workers :
        /\ tx[w].pc \in Holding <=> subjectLock = w
        /\ \A i \in Ids : writes[w][i] # NoRow => tx[w].pc \in Holding
        /\ tx[w].pc \in {"waiting", "tombstones", "similar", "act"} => tx[w].todo # <<>>

\* A row a transaction has written is one that is not deleted.
WritesUndeleted ==
    \A w \in Workers : \A i \in Ids :
        writes[w][i] # NoRow => mem[i] = NoRow \/ ~mem[i].deleted

\* What a transaction would commit keeps every slot single-valued.
ViewSlots == \A w \in Workers : OneLivePerSlot(View(w))

IInv == TypeOK /\ LockInv /\ WritesUndeleted /\ ViewSlots /\ SlotSingleValued

-----------------------------------------------------------------------------
(* Typing. *)

\* What a transaction reads is a table.
LEMMA ViewType ==
    ASSUME TypeOK, NEW w \in Workers
    PROVE  View(w) \in Table
BY DEF TypeOK, StoreTypeOK, View, Table

\* insert_memory builds a row.
LEMMA NewRowType ==
    ASSUME NEW a \in SUBSET Facts, NEW b \in Attributes \cup {NoAttr}, NEW s \in Sources
    PROVE  NewRow(a, b, s) \in Row
BY DEF NewRow, Row

\* The UPDATE statements keep a row a row.
LEMMA UpdateType ==
    ASSUME NEW x \in Row
    PROVE  /\ [x EXCEPT !.reinforced = @ + 1] \in Row
           /\ [x EXCEPT !.stale = TRUE] \in Row
           /\ [x EXCEPT !.deleted = TRUE] \in Row
           /\ \A a \in SUBSET Facts : [x EXCEPT !.asserts = a] \in Row
           /\ \A i \in Ids \cup {NoId} : [x EXCEPT !.consolidated_into = i] \in Row
           /\ \A i \in Ids \cup {NoId}, b \in BOOLEAN :
                [x EXCEPT !.superseded_by = i, !.stale = b] \in Row
           /\ \A i \in Ids \cup {NoId}, b \in BOOLEAN :
                [x EXCEPT !.deleted = b, !.consolidated_into = i] \in Row
<1>1. [x EXCEPT !.reinforced = @ + 1] \in Row
  BY DEF Row
<1>2. [x EXCEPT !.stale = TRUE] \in Row
  BY DEF Row
<1>3. [x EXCEPT !.deleted = TRUE] \in Row
  BY DEF Row
<1>4. \A a \in SUBSET Facts : [x EXCEPT !.asserts = a] \in Row
  BY DEF Row
<1>5. \A i \in Ids \cup {NoId} : [x EXCEPT !.consolidated_into = i] \in Row
  BY DEF Row
<1>6. \A i \in Ids \cup {NoId}, b \in BOOLEAN :
        [x EXCEPT !.superseded_by = i, !.stale = b] \in Row
  BY DEF Row
<1>7. \A i \in Ids \cup {NoId}, b \in BOOLEAN :
        [x EXCEPT !.deleted = b, !.consolidated_into = i] \in Row
  BY DEF Row
<1>8. QED
  BY <1>1, <1>2, <1>3, <1>4, <1>5, <1>6, <1>7

\* The ids of undeleted rows have rows.
LEMMA RowType ==
    ASSUME NEW t \in Table, NEW i \in Undeleted(t)
    PROVE  i \in Ids /\ t[i] \in Row
BY DEF Table, Undeleted, Rows

\* gen_random_uuid() finds an unused id while there is one.
LEMMA FreshIdType ==
    ASSUME FreshIds # {}
    PROVE  FreshId \in FreshIds /\ FreshId \in Ids
BY DEF FreshId, FreshIds

\* write_audit keeps the counters natural numbers.
LEMMA LogType ==
    ASSUME NEW log \in [AuditKeys -> Nat], NEW keys
    PROVE  Log(log, keys) \in [AuditKeys -> Nat]
BY DEF Log

\* The loop of persist_candidates continues in a well-typed state.
LEMMA ContinueType ==
    ASSUME NEW todo \in Seq(Candidate)
    PROVE  /\ Continue(todo) \in Tx
           /\ Continue(todo).pc \in Holding
           /\ Continue(todo).pc # "commit" => Continue(todo).todo # <<>>
           /\ Continue(todo).pc # "waiting"
BY DEF Continue, Tx, Holding

\* The first candidate and the rest of a batch.
LEMMA HeadTail ==
    ASSUME NEW todo \in Seq(Candidate), todo # <<>>
    PROVE  Head(todo) \in Candidate /\ Tail(todo) \in Seq(Candidate)
OBVIOUS

\* A similarity search returns one of the rows it searched, or none.
LEMMA NearestType ==
    ASSUME NEW t, NEW S \in SUBSET Ids, NEW f, NEW i \in NearestAbove(t, S, f)
    PROVE  i \in S \cup {NoId}
BY DEF NearestAbove

\* Capture steps keep the types.
LEMMA CaptureTyped ==
    ASSUME TypeOK, LockInv, NEW w \in Workers, CaptureNext(w),
           UNCHANGED <<governanceVars, reflectionVars>>
    PROVE  TypeOK'
<1> USE DEF TypeOK, StoreTypeOK, CaptureTypeOK, GovernanceTypeOK, ReflectionTypeOK,
            storeVars, captureVars, governanceVars, reflectionVars
<1>0. View(w) \in Table /\ tx[w] \in Tx /\ IdleTx \in Tx
  BY ViewType DEF IdleTx, Tx
<1>1. CASE CaptureStart(w)
  <2>1. \A b \in Batches : [pc |-> "waiting", todo |-> b, match |-> NoId] \in Tx
    BY CaptureAssumption DEF Tx
  <2>2. QED
    BY <1>1, <2>1 DEF CaptureStart
<1>2. CASE CaptureLock(w)
  BY <1>0, <1>2, ContinueType DEF CaptureLock, Tx
<1>3. CASE CaptureLockTimeout(w)
  BY <1>0, <1>3 DEF CaptureLockTimeout
<1>4. CASE CaptureTombstones(w)
  <2>1. Tail(tx[w].todo) \in Seq(Candidate)
    BY <1>0, <1>4, HeadTail DEF CaptureTombstones, LockInv, Tx
  <2>2. [tx[w] EXCEPT !.pc = "similar"] \in Tx
    BY <1>0 DEF Tx
  <2>3. QED
    BY <1>4, <2>1, <2>2, ContinueType DEF CaptureTombstones
<1>5. CASE CaptureFindSimilar(w)
  <2>1. PICK found \in find_similar(View(w), Head(tx[w].todo).text) :
          tx' = [tx EXCEPT ![w].pc = "act",
                           ![w].match = Match(View(w), Head(tx[w].todo), found)]
    BY <1>5 DEF CaptureFindSimilar
  <2>2. Match(View(w), Head(tx[w].todo), found) \in Ids \cup {NoId}
    BY NearestType DEF find_similar, Match, Live, Undeleted, Rows
  <2>3. tx' \in [Workers -> Tx]
    BY <1>0, <2>1, <2>2 DEF Tx
  <2>4. QED
    BY <1>5, <2>3 DEF CaptureFindSimilar
<1>6. CASE CaptureIgnore(w)
  BY <1>0, <1>6, HeadTail, ContinueType DEF CaptureIgnore, LockInv, Tx
<1>7. CASE CaptureReinforce(w)
  <2>1. Tail(tx[w].todo) \in Seq(Candidate) /\ tx[w].match \in Ids
    BY <1>0, <1>7, HeadTail DEF CaptureReinforce, LockInv, Tx
  <2>2. tx' \in [Workers -> Tx]
    BY <1>7, <2>1, ContinueType DEF CaptureReinforce
  <2>3. pend' \in [Workers -> [AuditKeys -> Nat]]
    BY <1>7, LogType DEF CaptureReinforce
  <2>4. writes' \in [Workers -> Table]
    <3>1. CASE tx[w].match \in Undeleted(View(w))
      <4>1. View(w)[tx[w].match] \in Row
        BY <1>0, <3>1, RowType
      <4>2. [View(w)[tx[w].match] EXCEPT !.reinforced = @ + 1] \in Row
        BY <4>1, UpdateType
      <4>3. QED
        BY <1>7, <2>1, <3>1, <4>2 DEF CaptureReinforce, reinforce, Table
    <3>2. QED
      BY <1>7, <3>1 DEF CaptureReinforce, reinforce
  <2>5. QED
    BY <1>7, <2>2, <2>3, <2>4 DEF CaptureReinforce
<1>8. CASE CaptureInsert(w)
  <2> DEFINE c == Head(tx[w].todo)
             retired == IF is_single_valued(SlotOf(c))
                        THEN SlotRetires(View(w), SlotOf(c), FreshId) ELSE {}
             stale == StaleTargets(View(w), retired)
             after == Superseded(View(w), retired, stale, FreshId)
  <2>1. c \in Candidate /\ Tail(tx[w].todo) \in Seq(Candidate)
    BY <1>0, <1>8, HeadTail DEF CaptureInsert, LockInv, Tx
  <2>2. NewRow({c.text}, SlotOf(c), c.source) \in Row
    <3>1. {c.text} \in SUBSET Facts /\ c.source \in Sources
          /\ SlotOf(c) \in Attributes \cup {NoAttr}
      BY <2>1 DEF Candidate, Sources, SlotOf
    <3>2. QED
      BY <3>1, NewRowType
  <2>3. \A i \in Ids : after[i] \in Row \cup {NoRow}
    <3> SUFFICES ASSUME NEW i \in Ids, i \in retired \cup stale
                 PROVE  [View(w)[i] EXCEPT
                           !.superseded_by = IF i \in retired THEN FreshId ELSE @,
                           !.stale = @ \/ i \in stale] \in Row
      BY DEF Superseded
    <3>1. View(w)[i] \in Row
      BY <1>0, RowType DEF SlotRetires, StaleTargets, Live
    <3>2. FreshId \in Ids
      BY <1>8, FreshIdType DEF CaptureInsert
    <3> HIDE DEF retired, stale
    <3>3. (IF i \in retired THEN FreshId ELSE View(w)[i].superseded_by) \in Ids \cup {NoId}
      BY <3>1, <3>2 DEF Row
    <3>4. (View(w)[i].stale \/ i \in stale) \in BOOLEAN
      OBVIOUS
    <3>5. QED
      BY <3>1, <3>3, <3>4, UpdateType
  <2> HIDE DEF after
  <2>4. writes' = [writes EXCEPT ![w] =
           [i \in Ids |-> IF i = FreshId THEN NewRow({c.text}, SlotOf(c), c.source)
                          ELSE IF after[i] # NoRow THEN after[i] ELSE writes[w][i]]]
    BY <1>8 DEF CaptureInsert, after
  <2>5. writes' \in [Workers -> Table]
    BY <2>2, <2>3, <2>4 DEF Table
  <2>6. pend' \in [Workers -> [AuditKeys -> Nat]]
    BY <1>8, LogType DEF CaptureInsert
  <2>7. tx' \in [Workers -> Tx]
    BY <1>8, <2>1, ContinueType DEF CaptureInsert
  <2>8. QED
    BY <1>8, <2>5, <2>6, <2>7 DEF CaptureInsert
<1>9. ASSUME EndTx(w)
      PROVE  /\ writes' \in [Workers -> Table]
             /\ pend' \in [Workers -> [AuditKeys -> Nat]]
             /\ CaptureTypeOK'
  BY <1>0, <1>9 DEF EndTx, NoWrites, NoAudit, Table
<1>10. CASE CaptureCommit(w)
  <2>1. audit' \in [AuditKeys -> Nat]
    BY <1>10 DEF CaptureCommit
  <2>2. QED
    BY <1>0, <1>9, <1>10, <2>1 DEF CaptureCommit
<1>11. CASE CaptureRollback(w)
  BY <1>9, <1>11 DEF CaptureRollback
<1>12. QED
  BY <1>1, <1>2, <1>3, <1>4, <1>5, <1>6, <1>7, <1>8, <1>10, <1>11
     DEF CaptureNext, CaptureStep

\* Governance steps keep the types.
LEMMA GovernanceTyped ==
    ASSUME TypeOK, NEW r \in Requests, GovernanceNext(r),
           UNCHANGED <<captureVars, reflectionVars>>
    PROVE  TypeOK'
<1> USE DEF TypeOK, StoreTypeOK, CaptureTypeOK, GovernanceTypeOK, ReflectionTypeOK,
            storeVars, captureVars, governanceVars, reflectionVars
<1>0. req[r] \in Request /\ IdleRequest \in Request
  BY DEF Request, IdleRequest
<1>1. ASSUME NEW i \in Ids, DeleteCheck(r, i) PROVE TypeOK'
  BY <1>1 DEF DeleteCheck, Request
<1>2. ASSUME NEW i \in Ids, NEW f \in Facts, PatchCheck(r, i, f) PROVE TypeOK'
  BY <1>2 DEF PatchCheck, Request
<1>3. ASSUME NEW from, NEW to \in {"delete_invalidated", "patch_invalidated"},
             invalidate_summaries_for(r, from, to)
      PROVE  TypeOK'
  <2>1. req' \in [Requests -> Request]
    BY <1>0, <1>3 DEF invalidate_summaries_for, Request
  <2>2. mem' \in Table
    <3>1. \A i \in StaleTargets(mem, {req[r].id}) :
            i \in Ids /\ [mem[i] EXCEPT !.stale = TRUE] \in Row
      BY RowType, UpdateType DEF StaleTargets
    <3>2. QED
      BY <1>3, <3>1 DEF invalidate_summaries_for, Table
  <2>3. audit' \in [AuditKeys -> Nat]
    BY <1>3, LogType DEF invalidate_summaries_for
  <2>4. QED
    BY <1>3, <2>1, <2>2, <2>3 DEF invalidate_summaries_for
<1>4. ASSUME NEW outcome, NEW row, Mutate(r, outcome, row),
             req[r].id \in Undeleted(mem) => row \in Row
      PROVE  TypeOK'
  <2>1. audit' \in [AuditKeys -> Nat]
    BY <1>4, LogType DEF Mutate
  <2>2. mem' \in Table
    BY <1>4 DEF Mutate, Undeleted, Rows, Table
  <2>3. QED
    BY <1>0, <1>4, <2>1, <2>2 DEF Mutate
<1>5. CASE DeleteCommit(r)
  <2>1. req[r].id \in Undeleted(mem) => [mem[req[r].id] EXCEPT !.deleted = TRUE] \in Row
    BY RowType, UpdateType
  <2>2. QED
    BY <1>4, <1>5, <2>1 DEF DeleteCommit
<1>6. CASE PatchCommit(r)
  <2>1. req[r].id \in Undeleted(mem) => [mem[req[r].id] EXCEPT !.asserts = req[r].text] \in Row
    BY <1>0, RowType, UpdateType DEF Request
  <2>2. QED
    BY <1>4, <1>6, <2>1 DEF PatchCommit
<1>7. CASE RequestAbort(r)
  BY <1>0, <1>7 DEF RequestAbort
<1>8. QED
  BY <1>1, <1>2, <1>3, <1>5, <1>6, <1>7
     DEF GovernanceNext, RequestStep, DeleteInvalidate, PatchInvalidate

\* Reflection steps keep the types.
LEMMA ReflectionTyped ==
    ASSUME TypeOK, NEW k \in Runs, ReflectionNext(k),
           UNCHANGED <<captureVars, governanceVars>>
    PROVE  TypeOK'
<1> USE DEF TypeOK, StoreTypeOK, CaptureTypeOK, GovernanceTypeOK, ReflectionTypeOK,
            storeVars, captureVars, governanceVars, reflectionVars
<1>0. run[k] \in Run /\ IdleRun \in Run
  BY DEF Run, IdleRun
<1>1. ASSUME NEW p \in {"targeted", "rebuilt"} PROVE [run[k] EXCEPT !.pc = p] \in Run
  BY <1>0 DEF Run
<1>2. CASE ReflectionScheduled(k) \/ ReflectionForSubject(k)
  BY <1>1, <1>2 DEF ReflectionScheduled, ReflectionForSubject
<1>3. CASE rebuild_stale_summaries(k)
  <2>1. PICK S \in SUBSET StaleSummaries(mem) :
          /\ mem' = [i \in Ids |->
                IF i \in S \cup FreedSources(mem, S)
                THEN [mem[i] EXCEPT
                        !.deleted = @ \/ i \in S,
                        !.consolidated_into = IF i \in FreedSources(mem, S) THEN NoId ELSE @]
                ELSE mem[i]]
          /\ audit' = Log(audit, ({"retired"} \X S)
                                   \cup ({"unconsolidated"} \X FreedSources(mem, S)))
    BY <1>3 DEF rebuild_stale_summaries
  <2>2. mem' \in Table
    <3> SUFFICES ASSUME NEW i \in Ids, i \in S \cup FreedSources(mem, S)
                 PROVE  mem'[i] \in Row
      BY <2>1 DEF Table
    <3>1. mem[i] \in Row
      BY RowType DEF StaleSummaries, FreedSources, Live
    <3> DEFINE c == IF i \in FreedSources(mem, S) THEN NoId ELSE mem[i].consolidated_into
               d == mem[i].deleted \/ i \in S
    <3>2. c \in Ids \cup {NoId} /\ d \in BOOLEAN
      BY <3>1 DEF Row
    <3>3. mem'[i] = [mem[i] EXCEPT !.deleted = d, !.consolidated_into = c]
      BY <2>1
    <3> HIDE DEF c, d
    <3>4. [mem[i] EXCEPT !.deleted = d, !.consolidated_into = c] \in Row
      BY <3>1, <3>2, UpdateType, Zenon
    <3>5. QED
      BY <3>3, <3>4, Zenon
  <2>3. audit' \in [AuditKeys -> Nat]
    BY <2>1, LogType
  <2>4. QED
    BY <1>1, <1>3, <2>2, <2>3 DEF rebuild_stale_summaries
<1>4. CASE SelectCluster(k)
  <2>1. PICK C \in Clusters(mem) :
          run' = [run EXCEPT ![k] = [pc |-> "selected", cluster |-> C,
                                     texts |-> UNION {mem[j].asserts : j \in C}]]
    BY <1>4 DEF SelectCluster
  <2>2. C \subseteq ClusterCandidates(mem)
    BY DEF Clusters
  <2>3. \A j \in C : j \in Ids /\ mem[j].asserts \subseteq Facts
    BY <2>2, RowType DEF ClusterCandidates, Live, Row
  <2>4. UNION {mem[j].asserts : j \in C} \in SUBSET Facts
    BY <2>3
  <2>5. QED
    BY <1>4, <2>1, <2>3, <2>4 DEF SelectCluster, Run
<1>5. CASE NoCluster(k) \/ ReflectionAbort(k)
  BY <1>0, <1>5 DEF NoCluster, ReflectionAbort
<1>6. CASE write_summary(k)
  <2>1. FreshId \in Ids
    BY <1>6, FreshIdType DEF write_summary
  <2>2. NewRow(run[k].texts, NoAttr, "reflection") \in Row
    BY <1>0, NewRowType DEF Run, Sources
  <2>3. \A i \in Consolidated(mem, run[k].cluster) :
          [mem[i] EXCEPT !.consolidated_into = FreshId] \in Row
    BY <2>1, RowType, UpdateType DEF Consolidated
  <2>4. mem' \in Table
    BY <1>6, <2>2, <2>3 DEF write_summary, Table
  <2>5. audit' \in [AuditKeys -> Nat]
    BY <1>6, LogType DEF write_summary
  <2>6. source_ids' \in [Ids -> SUBSET Ids]
    BY <1>0, <1>6 DEF write_summary, Run
  <2>7. QED
    BY <1>0, <1>6, <2>4, <2>5, <2>6 DEF write_summary
<1>7. QED
  BY <1>2, <1>3, <1>4, <1>5, <1>6 DEF ReflectionNext, ReflectionStep

-----------------------------------------------------------------------------
(* Slots. *)

\* If every live slot value of u is one of t's, u inherits single values.
LEMMA SlotsShrink ==
    ASSUME NEW t, NEW u, OneLivePerSlot(t),
           \A i \in Live(u) : u[i].attribute \in SingleValued =>
               i \in Live(t) /\ u[i].attribute = t[i].attribute
    PROVE  OneLivePerSlot(u)
BY DEF OneLivePerSlot

\* What governance requests and reflection runs may do to row i: add a row
\* without a slot, or change a row that is neither deleted nor locked without
\* touching its slot or its successor.
OutsideChange(i) ==
    /\ \A w \in Workers : writes[w][i] = NoRow
    /\ \/ mem[i] = NoRow /\ mem'[i].attribute = NoAttr
       \/ /\ i \in Undeleted(mem)
          /\ mem'[i] # NoRow
          /\ mem'[i].attribute = mem[i].attribute
          /\ mem'[i].superseded_by = mem[i].superseded_by

\* Row y is row x with other columns changed.
SameSlot(y, x) ==
    y \in Row /\ y.attribute = x.attribute /\ y.superseded_by = x.superseded_by

\* The UPDATEs of governance and reflection touch neither slot nor pointer.
LEMMA UpdateKeepsSlot ==
    ASSUME NEW x \in Row
    PROVE  /\ SameSlot([x EXCEPT !.reinforced = @ + 1], x)
           /\ SameSlot([x EXCEPT !.stale = TRUE], x)
           /\ SameSlot([x EXCEPT !.deleted = TRUE], x)
           /\ \A a \in SUBSET Facts : SameSlot([x EXCEPT !.asserts = a], x)
           /\ \A i \in Ids \cup {NoId} : SameSlot([x EXCEPT !.consolidated_into = i], x)
           /\ \A i \in Ids \cup {NoId}, b \in BOOLEAN :
                SameSlot([x EXCEPT !.deleted = b, !.consolidated_into = i], x)
<1>1. SameSlot([x EXCEPT !.reinforced = @ + 1], x)
  BY DEF SameSlot, Row
<1>2. SameSlot([x EXCEPT !.stale = TRUE], x)
  BY DEF SameSlot, Row
<1>3. SameSlot([x EXCEPT !.deleted = TRUE], x)
  BY DEF SameSlot, Row
<1>4. \A a \in SUBSET Facts : SameSlot([x EXCEPT !.asserts = a], x)
  BY DEF SameSlot, Row
<1>5. \A i \in Ids \cup {NoId} : SameSlot([x EXCEPT !.consolidated_into = i], x)
  BY DEF SameSlot, Row
<1>6. \A i \in Ids \cup {NoId}, b \in BOOLEAN :
        SameSlot([x EXCEPT !.deleted = b, !.consolidated_into = i], x)
  BY DEF SameSlot, Row
<1>7. QED
  BY <1>1, <1>2, <1>3, <1>4, <1>5, <1>6

\* Such changes keep the lock discipline and every slot single-valued.
LEMMA OutsideStep ==
    ASSUME IInv, UNCHANGED <<writes, tx, subjectLock>>,
           \A i \in Ids : mem'[i] = mem[i] \/ OutsideChange(i)
    PROVE  LockInv' /\ WritesUndeleted' /\ ViewSlots' /\ SlotSingleValued'
<1>1. LockInv'
  BY DEF IInv, LockInv
<1>2. WritesUndeleted'
  BY DEF IInv, WritesUndeleted, OutsideChange
<1>3. SlotSingleValued'
  <2>1. \A i \in Live(mem') : mem'[i].attribute \in SingleValued =>
            i \in Live(mem) /\ mem'[i].attribute = mem[i].attribute
    BY MemoriesAssumption DEF Live, Undeleted, Rows, OutsideChange
  <2>2. QED
    BY <2>1, SlotsShrink DEF IInv, SlotSingleValued
<1>4. ViewSlots'
  <2> SUFFICES ASSUME NEW w \in Workers PROVE OneLivePerSlot(View(w)')
    BY DEF ViewSlots
  <2>1. \A i \in Ids : \/ View(w)'[i] = View(w)[i]
                       \/ /\ View(w)[i] = mem[i]
                          /\ View(w)'[i] = mem'[i]
                          /\ OutsideChange(i)
    BY DEF View, OutsideChange
  <2>2. \A i \in Live(View(w)') : View(w)'[i].attribute \in SingleValued =>
            i \in Live(View(w)) /\ View(w)'[i].attribute = View(w)[i].attribute
    BY <2>1, MemoriesAssumption DEF Live, Undeleted, Rows, OutsideChange
  <2>3. QED
    BY <2>2, SlotsShrink DEF IInv, ViewSlots
<1>5. QED
  BY <1>1, <1>2, <1>3, <1>4

\* A row that nobody has to wait for is in no transaction's writes.
LEMMA UnlockedRows ==
    ASSUME NEW S, Unlocked(S), NEW i \in S, NEW w \in Workers
    PROVE  writes[w][i] = NoRow
BY DEF Unlocked, LockedBy

\* Every governance step changes rows in that way only.
LEMMA GovernanceOutside ==
    ASSUME IInv, NEW r \in Requests, GovernanceNext(r)
    PROVE  /\ UNCHANGED writes
           /\ \A i \in Ids : mem'[i] = mem[i] \/ OutsideChange(i)
<1>0. mem \in Table
  BY DEF IInv, TypeOK, StoreTypeOK
<1>1. ASSUME UNCHANGED storeVars
      PROVE  UNCHANGED writes /\ \A i \in Ids : mem'[i] = mem[i] \/ OutsideChange(i)
  BY <1>1 DEF storeVars
<1>2. ASSUME NEW from, NEW to, invalidate_summaries_for(r, from, to)
      PROVE  UNCHANGED writes /\ \A i \in Ids : mem'[i] = mem[i] \/ OutsideChange(i)
  <2> DEFINE S == StaleTargets(mem, {req[r].id})
  <2> SUFFICES ASSUME NEW i \in S PROVE OutsideChange(i)
    BY <1>2 DEF invalidate_summaries_for
  <2>1. i \in Undeleted(mem) /\ i \in Ids /\ mem[i] \in Row
    BY <1>0, RowType DEF StaleTargets
  <2>2. mem'[i] = [mem[i] EXCEPT !.stale = TRUE]
    BY <1>2, <2>1 DEF invalidate_summaries_for
  <2>3. SameSlot(mem'[i], mem[i])
    BY <2>1, <2>2, UpdateKeepsSlot
  <2>4. QED
    BY <1>2, <2>1, <2>3, UnlockedRows, NoRowAssumption
       DEF invalidate_summaries_for, OutsideChange, SameSlot
<1>3. ASSUME NEW outcome, NEW row, Mutate(r, outcome, row),
             req[r].id \in Undeleted(mem) => SameSlot(row, mem[req[r].id])
      PROVE  UNCHANGED writes /\ \A i \in Ids : mem'[i] = mem[i] \/ OutsideChange(i)
  <2>1. CASE req[r].id \in Undeleted(mem)
    <3>1. mem' = [mem EXCEPT ![req[r].id] = row] /\ UNCHANGED writes
      BY <1>3, <2>1 DEF Mutate
    <3>2. OutsideChange(req[r].id)
      BY <1>0, <1>3, <2>1, <3>1, RowType, UnlockedRows, NoRowAssumption
         DEF Mutate, OutsideChange, SameSlot, Table
    <3>3. QED
      BY <1>0, <3>1, <3>2 DEF Table
  <2>2. QED
    BY <1>3, <2>1 DEF Mutate
<1>4. CASE DeleteCommit(r)
  <2>1. req[r].id \in Undeleted(mem) =>
            SameSlot([mem[req[r].id] EXCEPT !.deleted = TRUE], mem[req[r].id])
    BY <1>0, RowType, UpdateKeepsSlot
  <2>2. QED
    BY <1>3, <1>4, <2>1 DEF DeleteCommit
<1>5. CASE PatchCommit(r)
  <2>1. req[r].text \in SUBSET Facts
    BY DEF IInv, TypeOK, GovernanceTypeOK, Request
  <2>2. req[r].id \in Undeleted(mem) =>
            SameSlot([mem[req[r].id] EXCEPT !.asserts = req[r].text], mem[req[r].id])
    BY <1>0, <2>1, RowType, UpdateKeepsSlot
  <2>3. QED
    BY <1>3, <1>5, <2>2 DEF PatchCommit
<1>6. QED
  BY <1>1, <1>2, <1>4, <1>5
     DEF GovernanceNext, RequestStep, DeleteCheck, PatchCheck, DeleteInvalidate,
         PatchInvalidate, RequestAbort, storeVars

\* Every reflection step changes rows in that way only.
LEMMA ReflectionOutside ==
    ASSUME IInv, NEW k \in Runs, ReflectionNext(k)
    PROVE  /\ UNCHANGED writes
           /\ \A i \in Ids : mem'[i] = mem[i] \/ OutsideChange(i)
<1>0. mem \in Table
  BY DEF IInv, TypeOK, StoreTypeOK
<1>1. ASSUME UNCHANGED storeVars
      PROVE  UNCHANGED writes /\ \A i \in Ids : mem'[i] = mem[i] \/ OutsideChange(i)
  BY <1>1 DEF storeVars
<1>2. CASE rebuild_stale_summaries(k)
  <2>1. PICK S \in SUBSET StaleSummaries(mem) :
          /\ Unlocked(S \cup FreedSources(mem, S))
          /\ mem' = [i \in Ids |->
                IF i \in S \cup FreedSources(mem, S)
                THEN [mem[i] EXCEPT
                        !.deleted = @ \/ i \in S,
                        !.consolidated_into = IF i \in FreedSources(mem, S) THEN NoId ELSE @]
                ELSE mem[i]]
    BY <1>2 DEF rebuild_stale_summaries
  <2>2. ASSUME NEW i \in S \cup FreedSources(mem, S) PROVE OutsideChange(i)
    <3>1. i \in Undeleted(mem) /\ i \in Ids /\ mem[i] \in Row
      BY <1>0, RowType DEF StaleSummaries, FreedSources, Live
    <3> DEFINE c == IF i \in FreedSources(mem, S) THEN NoId ELSE mem[i].consolidated_into
               d == mem[i].deleted \/ i \in S
    <3>2. c \in Ids \cup {NoId} /\ d \in BOOLEAN
      BY <3>1 DEF Row
    <3>3. mem'[i] = [mem[i] EXCEPT !.deleted = d, !.consolidated_into = c]
      BY <2>1, <3>1
    <3> HIDE DEF c, d
    <3>4. SameSlot([mem[i] EXCEPT !.deleted = d, !.consolidated_into = c], mem[i])
      BY <3>1, <3>2, UpdateKeepsSlot, Zenon
    <3>5. QED
      BY <2>1, <3>1, <3>3, <3>4, UnlockedRows, NoRowAssumption DEF OutsideChange, SameSlot
  <2>3. QED
    BY <1>2, <2>1, <2>2 DEF rebuild_stale_summaries
<1>3. CASE write_summary(k)
  <2> DEFINE C == Consolidated(mem, run[k].cluster)
  <2>1. /\ mem[FreshId] = NoRow
        /\ \A w \in Workers : writes[w][FreshId] = NoRow
        /\ FreshId \in Ids
    BY <1>3, FreshIdType DEF write_summary, FreshIds
  <2>2. OutsideChange(FreshId)
    BY <1>3, <2>1 DEF write_summary, OutsideChange, NewRow
  <2>3. ASSUME NEW i \in C PROVE OutsideChange(i)
    <3>1. i \in Undeleted(mem) /\ i \in Ids /\ mem[i] \in Row
      BY <1>0, RowType DEF Consolidated
    <3>2. i # FreshId
      BY <2>1, <3>1 DEF Undeleted, Rows
    <3>3. mem'[i] = [mem[i] EXCEPT !.consolidated_into = FreshId]
      BY <1>3, <3>1, <3>2 DEF write_summary
    <3>4. SameSlot([mem[i] EXCEPT !.consolidated_into = FreshId], mem[i])
      BY <2>1, <3>1, UpdateKeepsSlot
    <3>5. QED
      BY <1>3, <3>1, <3>3, <3>4, UnlockedRows, NoRowAssumption
         DEF write_summary, OutsideChange, SameSlot
  <2>4. QED
    BY <1>3, <2>2, <2>3 DEF write_summary
<1>4. QED
  BY <1>1, <1>2, <1>3
     DEF ReflectionNext, ReflectionStep, ReflectionScheduled, ReflectionForSubject,
         SelectCluster, NoCluster, ReflectionAbort, storeVars

\* Capture steps keep the lock discipline.
LEMMA CaptureLocks ==
    ASSUME IInv, NEW w \in Workers, CaptureNext(w)
    PROVE  LockInv'
<1> USE DEF IInv, LockInv, Holding
<1>0. /\ tx \in [Workers -> Tx] /\ tx[w] \in Tx /\ IdleTx.pc = "idle"
      /\ writes \in [Workers -> Table] /\ NoWorker \notin Workers
  BY CaptureAssumption DEF TypeOK, CaptureTypeOK, StoreTypeOK, IdleTx
<1>a. ASSUME tx[w].pc \in {"waiting", "tombstones", "similar", "act"}
      PROVE  tx[w].todo \in Seq(Candidate) /\ Tail(tx[w].todo) \in Seq(Candidate)
  BY <1>0, <1>a, HeadTail DEF Tx
<1>1. CASE CaptureStart(w)
  <2>1. PICK b \in Batches :
          tx' = [tx EXCEPT ![w] = [pc |-> "waiting", todo |-> b, match |-> NoId]]
    BY <1>1 DEF CaptureStart
  <2>2. b # <<>>
    BY CaptureAssumption
  <2>3. QED
    BY <1>0, <1>1, <2>1, <2>2 DEF CaptureStart, storeVars
<1>2. CASE CaptureLock(w)
  BY <1>0, <1>a, <1>2, ContinueType DEF CaptureLock, storeVars
<1>3. CASE CaptureLockTimeout(w)
  BY <1>0, <1>3 DEF CaptureLockTimeout, storeVars
<1>4. CASE CaptureTombstones(w)
  <2>1. \/ tx' = [tx EXCEPT ![w] = Continue(Tail(tx[w].todo))]
        \/ tx' = [tx EXCEPT ![w] = [tx[w] EXCEPT !.pc = "similar"]]
    BY <1>4 DEF CaptureTombstones
  <2>2. UNCHANGED <<writes, subjectLock>> /\ tx[w].pc = "tombstones"
    BY <1>4 DEF CaptureTombstones, storeVars
  <2>3. CASE tx' = [tx EXCEPT ![w] = Continue(Tail(tx[w].todo))]
    BY <1>0, <1>a, <2>2, <2>3, ContinueType
  <2>4. CASE tx' = [tx EXCEPT ![w] = [tx[w] EXCEPT !.pc = "similar"]]
    BY <1>0, <2>2, <2>4 DEF Tx
  <2>5. QED
    BY <2>1, <2>3, <2>4
<1>5. CASE CaptureFindSimilar(w)
  <2>1. PICK m : tx' = [tx EXCEPT ![w].pc = "act", ![w].match = m]
    BY <1>5 DEF CaptureFindSimilar
  <2>2. UNCHANGED <<writes, subjectLock>> /\ tx[w].pc = "similar"
    BY <1>5 DEF CaptureFindSimilar, storeVars
  <2>3. tx'[w].pc = "act" /\ tx'[w].todo = tx[w].todo
    BY <1>0, <2>1 DEF Tx
  <2>4. \A v \in Workers \ {w} : tx'[v] = tx[v]
    BY <1>0, <2>1
  <2>5. QED
    BY <2>2, <2>3, <2>4
<1>6. CASE CaptureIgnore(w)
  BY <1>0, <1>a, <1>6, ContinueType DEF CaptureIgnore, storeVars
<1>7. ASSUME tx[w].pc = "act",
             tx' = [tx EXCEPT ![w] = Continue(Tail(tx[w].todo))],
             UNCHANGED subjectLock,
             \A v \in Workers \ {w} : writes'[v] = writes[v]
      PROVE  LockInv'
  BY <1>0, <1>a, <1>7, ContinueType
<1>8. CASE CaptureReinforce(w)
  <2>1. \A v \in Workers \ {w} : writes'[v] = writes[v]
    BY <1>0, <1>8 DEF CaptureReinforce, reinforce
  <2>2. QED
    BY <1>7, <1>8, <2>1 DEF CaptureReinforce
<1>9. CASE CaptureInsert(w)
  <2>1. \A v \in Workers \ {w} : writes'[v] = writes[v]
    BY <1>0, <1>9 DEF CaptureInsert
  <2>2. QED
    BY <1>7, <1>9, <2>1 DEF CaptureInsert
<1>10. ASSUME EndTx(w), tx[w].pc \in Holding PROVE LockInv'
  BY <1>0, <1>10 DEF EndTx, NoWrites
<1>11. CASE CaptureCommit(w) \/ CaptureRollback(w)
  BY <1>10, <1>11 DEF CaptureCommit, CaptureRollback
<1>12. QED
  BY <1>1, <1>2, <1>3, <1>4, <1>5, <1>6, <1>8, <1>9, <1>11 DEF CaptureNext, CaptureStep

\* A transaction writes only rows that are not deleted, here and in mem.
LEMMA ViewUndeleted ==
    ASSUME IInv, NEW w \in Workers, NEW i \in Undeleted(View(w))
    PROVE  mem[i] = NoRow \/ ~mem[i].deleted
BY DEF IInv, WritesUndeleted, View, Undeleted, Rows

\* Inserting and superseding leave one live value in the slot.
LEMMA InsertKeepsSlots ==
    ASSUME IInv, NEW w \in Workers, CaptureInsert(w)
    PROVE  /\ WritesUndeleted'
           /\ OneLivePerSlot(View(w)')
<1> DEFINE c == Head(tx[w].todo)
           n == FreshId
           slot == SlotOf(c)
           V == View(w)
           retired == IF is_single_valued(slot) THEN SlotRetires(V, slot, n) ELSE {}
           stale == StaleTargets(V, retired)
           after == Superseded(V, retired, stale, n)
           new == NewRow({c.text}, slot, c.source)
<1>0. /\ V \in Table /\ writes \in [Workers -> Table]
      /\ n \in Ids /\ mem[n] = NoRow /\ V[n] = NoRow
  <2>1. V \in Table /\ writes \in [Workers -> Table]
    BY ViewType DEF IInv, TypeOK, StoreTypeOK
  <2>2. n \in FreshIds /\ n \in Ids
    BY FreshIdType DEF CaptureInsert
  <2>3. QED
    BY <2>1, <2>2 DEF FreshIds, View
<1>1. writes' = [writes EXCEPT ![w] =
         [i \in Ids |-> IF i = n THEN new
                        ELSE IF after[i] # NoRow THEN after[i] ELSE writes[w][i]]]
      /\ UNCHANGED mem
  BY DEF CaptureInsert
<1>2. retired \subseteq Live(V) /\ stale \subseteq Undeleted(V)
  BY DEF SlotRetires, StaleTargets
<1>3. \A i \in retired \cup stale : i \in Undeleted(V) /\ i \in Ids /\ i # n
  BY <1>0, <1>2 DEF Live, Undeleted, Rows
<1>4. ASSUME NEW i \in retired \cup stale
      PROVE  /\ after[i] # NoRow
             /\ after[i].attribute = V[i].attribute
             /\ after[i].superseded_by = IF i \in retired THEN n ELSE V[i].superseded_by
  <2>1. V[i] \in Row /\ i \in Ids
    BY <1>0, <1>3, RowType
  <2> DEFINE s == IF i \in retired THEN n ELSE V[i].superseded_by
             b == V[i].stale \/ i \in stale
  <2>2. s \in Ids \cup {NoId} /\ b \in BOOLEAN
    BY <1>0, <2>1 DEF Row
  <2>3. after[i] = [V[i] EXCEPT !.superseded_by = s, !.stale = b]
    BY <2>1 DEF Superseded
  <2> HIDE DEF s, b, V, retired, stale, after
  <2>4. [V[i] EXCEPT !.superseded_by = s, !.stale = b] \in Row
    BY <2>1, <2>2, UpdateType, Zenon
  <2>5. /\ [V[i] EXCEPT !.superseded_by = s, !.stale = b].attribute = V[i].attribute
        /\ [V[i] EXCEPT !.superseded_by = s, !.stale = b].superseded_by = s
    BY <2>1 DEF Row
  <2>6. QED
    BY <2>3, <2>4, <2>5, NoRowAssumption DEF s
<1>5. \A i \in Ids : i \notin retired \cup stale => after[i] = NoRow
  BY DEF Superseded
<1>6. new # NoRow /\ new.attribute = slot
  <2>1. c \in Candidate
    BY HeadTail DEF IInv, TypeOK, CaptureTypeOK, LockInv, CaptureInsert, Tx
  <2>2. {c.text} \in SUBSET Facts /\ c.source \in Sources /\ slot \in Attributes \cup {NoAttr}
    BY <2>1 DEF Candidate, Sources, SlotOf
  <2>3. QED
    BY <2>2, NewRowType, NoRowAssumption DEF NewRow
<1> HIDE DEF new, after, stale, V
<1>7. WritesUndeleted'
  <2> SUFFICES ASSUME NEW v \in Workers, NEW i \in Ids, writes'[v][i] # NoRow
               PROVE  mem[i] = NoRow \/ ~mem[i].deleted
    BY <1>1 DEF WritesUndeleted
  <2>1. CASE v = w /\ i = n
    BY <1>0, <2>1
  <2>2. CASE v = w /\ i \in retired \cup stale
    BY <1>3, <2>2, ViewUndeleted DEF V
  <2>3. CASE writes[v][i] # NoRow
    BY <2>3 DEF IInv, WritesUndeleted
  <2>4. QED
    BY <1>0, <1>1, <1>5, <2>1, <2>2, <2>3
<1>8. /\ View(w)'[n] = new
      /\ \A i \in retired \cup stale : View(w)'[i] = after[i]
      /\ \A i \in Ids : i # n /\ i \notin retired \cup stale => View(w)'[i] = V[i]
  BY <1>0, <1>1, <1>3, <1>4, <1>5, <1>6 DEF View, V
<1>9. OneLivePerSlot(V)
  BY DEF IInv, ViewSlots, V
<1>10. ASSUME NEW i \in Live(View(w)'), i # n
       PROVE  i \in Live(V) /\ View(w)'[i].attribute = V[i].attribute /\ i \notin retired
  <2>1. i \in Ids /\ View(w)'[i] # NoRow /\ View(w)'[i].superseded_by = NoId
        /\ ~View(w)'[i].deleted
    BY DEF Live, Undeleted, Rows
  <2>2. i \notin retired
    BY <1>0, <1>4, <1>8, <2>1, MemoriesAssumption
  <2>3. CASE i \in stale
    BY <1>3, <1>4, <1>8, <2>1, <2>2, <2>3 DEF Live
  <2>4. CASE i \notin stale
    BY <1>8, <1>10, <2>1, <2>2, <2>4 DEF Live, Undeleted, Rows
  <2>5. QED
    BY <2>2, <2>3, <2>4
<1>11. ASSUME NEW i \in Live(View(w)'), i # n, View(w)'[i].attribute = slot
       PROVE  slot \notin SingleValued
  BY <1>10, <1>11 DEF SlotRetires, is_single_valued
<1>12. OneLivePerSlot(View(w)')
  BY <1>6, <1>8, <1>9, <1>10, <1>11 DEF OneLivePerSlot
<1>13. QED
  BY <1>7, <1>12

\* Capture steps, the commit included, keep every slot single-valued.
LEMMA CaptureSlots ==
    ASSUME IInv, NEW w \in Workers, CaptureNext(w)
    PROVE  WritesUndeleted' /\ ViewSlots' /\ SlotSingleValued'
<1>0. /\ writes \in [Workers -> Table] /\ View(w) \in Table
      /\ tx[w].match \in Ids \cup {NoId}
  BY ViewType DEF IInv, TypeOK, StoreTypeOK, CaptureTypeOK, Tx
<1>1. ASSUME UNCHANGED storeVars
      PROVE  WritesUndeleted' /\ ViewSlots' /\ SlotSingleValued'
  BY <1>1 DEF storeVars, IInv, WritesUndeleted, ViewSlots, SlotSingleValued, View
<1>2. ASSUME UNCHANGED mem, \A v \in Workers \ {w} : writes'[v] = writes[v],
             OneLivePerSlot(View(w)')
      PROVE  ViewSlots' /\ SlotSingleValued'
  <2>1. \A v \in Workers \ {w} : View(v)' = View(v)
    BY <1>2 DEF View
  <2>2. QED
    BY <1>2, <2>1 DEF IInv, ViewSlots, SlotSingleValued
<1>3. CASE CaptureReinforce(w)
  <2> DEFINE i == tx[w].match
             V == View(w)
  <2>0. UNCHANGED mem /\ i \in Ids
    BY <1>0, <1>3 DEF CaptureReinforce
  <2>1. CASE i \in Undeleted(V)
    <3>1. writes' = [writes EXCEPT ![w][i] = [V[i] EXCEPT !.reinforced = @ + 1]]
      BY <1>3, <2>1 DEF CaptureReinforce, reinforce
    <3>2. V[i] \in Row /\ SameSlot([V[i] EXCEPT !.reinforced = @ + 1], V[i])
      BY <1>0, <2>1, RowType, UpdateKeepsSlot
    <3> DEFINE x == [V[i] EXCEPT !.reinforced = @ + 1]
    <3>3. x # NoRow /\ x.attribute = V[i].attribute /\ x.superseded_by = V[i].superseded_by
      BY <3>2, NoRowAssumption DEF SameSlot
    <3> HIDE DEF x
    <3>4. /\ writes'[w] = [writes[w] EXCEPT ![i] = x]
          /\ \A v \in Workers \ {w} : writes'[v] = writes[v]
      BY <1>0, <3>1 DEF x
    <3>5. View(w)'[i] = x /\ \A j \in Ids \ {i} : View(w)'[j] = V[j]
      BY <1>0, <2>0, <3>3, <3>4 DEF View, Table
    <3>6. WritesUndeleted'
      <4>1. mem[i] = NoRow \/ ~mem[i].deleted
        BY <2>1, ViewUndeleted
      <4>2. QED
        BY <1>0, <2>0, <3>4, <4>1 DEF IInv, WritesUndeleted, Table
    <3> HIDE DEF i, V
    <3>7. \A j \in Live(View(w)') : View(w)'[j].attribute \in SingleValued =>
              j \in Live(V) /\ View(w)'[j].attribute = V[j].attribute
      BY <2>1, <3>3, <3>5 DEF Live, Undeleted, Rows
    <3>8. OneLivePerSlot(View(w)')
      BY <3>7, SlotsShrink DEF IInv, ViewSlots, V
    <3>9. QED
      BY <1>2, <2>0, <3>4, <3>6, <3>8
  <2>2. CASE i \notin Undeleted(V)
    BY <1>3, <2>2, <2>0 DEF CaptureReinforce, reinforce, IInv, WritesUndeleted,
       ViewSlots, SlotSingleValued, View
  <2>3. QED
    BY <2>1, <2>2
<1>4. CASE CaptureInsert(w)
  <2>1. UNCHANGED mem /\ \A v \in Workers \ {w} : writes'[v] = writes[v]
    BY <1>0, <1>4 DEF CaptureInsert
  <2>2. QED
    BY <1>2, <1>4, <2>1, InsertKeepsSlots
<1>5. ASSUME EndTx(w), tx[w].pc \in Holding
      PROVE  \A v \in Workers : \A i \in Ids : writes'[v][i] = NoRow
  BY <1>0, <1>5 DEF EndTx, NoWrites, IInv, LockInv
<1>6. CASE CaptureCommit(w) \/ CaptureRollback(w)
  <2>1. \A v \in Workers : \A i \in Ids : writes'[v][i] = NoRow
    BY <1>5, <1>6 DEF CaptureCommit, CaptureRollback, Holding
  <2>2. mem' = View(w) \/ mem' = mem
    BY <1>6 DEF CaptureCommit, CaptureRollback
  <2>3. OneLivePerSlot(mem')
    BY <2>2 DEF IInv, ViewSlots, SlotSingleValued
  <2>4. \A v \in Workers : View(v)' = mem'
    <3>1. mem' \in Table
      BY <1>0, <2>2 DEF IInv, TypeOK, StoreTypeOK
    <3>2. QED
      BY <2>1, <3>1 DEF View, Table
  <2>5. QED
    BY <2>1, <2>3, <2>4 DEF WritesUndeleted, ViewSlots, SlotSingleValued
<1>7. QED
  BY <1>1, <1>3, <1>4, <1>6
     DEF CaptureNext, CaptureStep, CaptureStart, CaptureLock, CaptureLockTimeout,
         CaptureTombstones, CaptureFindSimilar, CaptureIgnore, storeVars

-----------------------------------------------------------------------------
(* Theorems. *)

\* The empty table satisfies the invariant.
LEMMA InitIInv == Init => IInv
<1> SUFFICES ASSUME Init PROVE IInv
  OBVIOUS
<1> USE DEF Init, StoreInit, CaptureInit, GovernanceInit, ReflectionInit
<1>1. StoreTypeOK
  BY DEF StoreTypeOK, Table, NoWrites, NoAudit
<1>2. CaptureTypeOK /\ GovernanceTypeOK /\ ReflectionTypeOK
  BY DEF CaptureTypeOK, GovernanceTypeOK, ReflectionTypeOK, Tx, IdleTx, Request,
         IdleRequest, Run, IdleRun
<1>3. LockInv /\ WritesUndeleted
  BY CaptureAssumption DEF LockInv, WritesUndeleted, Holding, IdleTx, NoWrites
<1>4. Live(mem) = {} /\ \A w \in Workers : Live(View(w)) = {}
  BY DEF Live, Undeleted, Rows, View, NoWrites
<1>5. QED
  BY <1>1, <1>2, <1>3, <1>4 DEF IInv, TypeOK, ViewSlots, SlotSingleValued, OneLivePerSlot

\* Every step preserves it.
LEMMA NextIInv == IInv /\ [Next]_vars => IInv'
<1> SUFFICES ASSUME IInv, [Next]_vars PROVE IInv'
  OBVIOUS
<1>0. TypeOK /\ LockInv
  BY DEF IInv
<1>1. ASSUME NEW w \in Workers, CaptureNext(w), UNCHANGED <<governanceVars, reflectionVars>>
      PROVE  IInv'
  BY <1>0, <1>1, CaptureTyped, CaptureLocks, CaptureSlots DEF IInv
<1>2. ASSUME NEW r \in Requests, GovernanceNext(r), UNCHANGED <<captureVars, reflectionVars>>
      PROVE  IInv'
  BY <1>0, <1>2, GovernanceTyped, GovernanceOutside, OutsideStep DEF IInv, captureVars
<1>3. ASSUME NEW k \in Runs, ReflectionNext(k), UNCHANGED <<captureVars, governanceVars>>
      PROVE  IInv'
  BY <1>0, <1>3, ReflectionTyped, ReflectionOutside, OutsideStep DEF IInv, captureVars
<1>4. CASE UNCHANGED vars
  BY <1>4 DEF vars, storeVars, captureVars, governanceVars, reflectionVars, IInv, TypeOK,
     StoreTypeOK, CaptureTypeOK, GovernanceTypeOK, ReflectionTypeOK, LockInv,
     WritesUndeleted, ViewSlots, SlotSingleValued, View
<1>5. QED
  BY <1>1, <1>2, <1>3, <1>4 DEF Next

\* The strengthened invariant holds in every reachable state.
THEOREM Invariance == Spec => []IInv
BY InitIInv, NextIInv, PTL DEF Spec

\* Rows, transactions, requests and runs keep their types (columns, control
\* states) through every interleaving.
THEOREM TypeCorrect == Spec => []TypeOK
<1>1. IInv => TypeOK
  BY DEF IInv
<1>2. QED
  BY <1>1, Invariance, PTL

\* supersede_slot's promise, for every number of workers, requests and runs:
\* no reader sees two live values in a single-valued slot.
THEOREM SlotsSingleValued == Spec => []SlotSingleValued
<1>1. IInv => SlotSingleValued
  BY DEF IInv
<1>2. QED
  BY <1>1, Invariance, PTL

\* No step of any actor changes a soft-deleted row (the deleted_at IS NULL
\* conditions and the row locks of uncommitted captures).
THEOREM DeletedRowsFrozen == Spec => DeletedFrozen
<1>1. IInv /\ [Next]_vars => [\A i \in Rows(mem) : mem[i].deleted => mem'[i] = mem[i]]_vars
  <2> SUFFICES ASSUME IInv, Next, NEW i \in Rows(mem), mem[i].deleted
               PROVE  mem'[i] = mem[i]
    BY DEF vars
  <2>0. i \in Ids /\ mem[i] # NoRow /\ i \notin Undeleted(mem)
    BY DEF Rows, Undeleted
  <2>1. ASSUME OutsideChange(i) PROVE FALSE
    BY <2>0, <2>1 DEF OutsideChange
  <2>2. ASSUME NEW w \in Workers, CaptureNext(w) PROVE mem'[i] = mem[i]
    <3>1. CASE CaptureCommit(w)
      <4>1. writes[w][i] = NoRow
        BY <2>0 DEF IInv, WritesUndeleted
      <4>2. QED
        BY <2>0, <3>1, <4>1 DEF CaptureCommit, View
    <3>2. CASE ~CaptureCommit(w)
      BY <2>2, <3>2 DEF CaptureNext, CaptureStep, CaptureStart, CaptureLock, CaptureRollback,
         CaptureLockTimeout, CaptureTombstones, CaptureFindSimilar, CaptureIgnore,
         CaptureReinforce, CaptureInsert, storeVars
    <3>3. QED
      BY <3>1, <3>2
  <2>3. QED
    BY <2>0, <2>1, <2>2, GovernanceOutside, ReflectionOutside DEF Next
<1>2. QED
  BY <1>1, Invariance, PTL DEF Spec, DeletedFrozen
=============================================================================
