------------------------------ MODULE Memories ------------------------------
(***************************************************************************)
(* The `memories` and `audit_log` tables of one (subject, actor) pair, and *)
(* the SQL statements of store/memories.py and jobs/reflection.py that     *)
(* read and change them, as operators on a table.                          *)
(*                                                                         *)
(* One pair is enough: both row-level-security policies of migration 0004  *)
(* compare subject_id AND actor_id, every session runs under them, and the *)
(* advisory lock is per subject.                                           *)
(*                                                                         *)
(* Isolation is READ COMMITTED: every statement sees what is committed     *)
(* when it starts plus what its own transaction wrote.  `writes[w]` holds  *)
(* the uncommitted row versions of capture transaction w, the only         *)
(* transaction that other transactions can observe half-way (it reads,     *)
(* writes and reads again); a row in it is row-locked until commit.        *)
(***************************************************************************)
EXTENDS Naturals, FiniteSets, Sequences

CONSTANTS
    Ids,            \* primary keys (uuids)
    NoId,           \* NULL in a uuid column
    NoRow,          \* "no such row" / "not written by this transaction"
    Workers,        \* capture workers, in any process
    Facts,          \* what one sentence of content can assert
    Attributes,     \* KNOWN_ATTRIBUTES
    SingleValued,   \* SINGLE_VALUED
    NoAttr,         \* NULL in the attribute column
    Similar         \* pairs whose cosine similarity reaches the threshold

ASSUME MemoriesAssumption ==
    /\ NoId \notin Ids
    /\ SingleValued \subseteq Attributes
    /\ NoAttr \notin Attributes
    /\ Similar \subseteq Facts \X Facts
    /\ \A f \in Facts : <<f, f>> \in Similar
    /\ \A p \in Similar : <<p[2], p[1]>> \in Similar

VARIABLES
    mem,            \* committed rows
    audit,          \* committed audit rows, counted per outcome and memory
    writes,         \* uncommitted row versions per capture transaction
    pend            \* uncommitted audit rows per capture transaction

storeVars == <<mem, audit, writes, pend>>

Sources == {"user_message", "assistant_note", "reflection"}

\* deleted_at, stale_at: only whether they are set.  superseded_at is set
\* exactly when superseded_by is (CHECK constraint of migration 0009), and
\* consolidated_at exactly when consolidated_into is.
Row == [asserts : SUBSET Facts,
        attribute : Attributes \cup {NoAttr},
        source : Sources,
        deleted : BOOLEAN,
        superseded_by : Ids \cup {NoId},
        stale : BOOLEAN,
        consolidated_into : Ids \cup {NoId},
        reinforced : Nat]

ASSUME NoRowAssumption == NoRow \notin Row

Table == [Ids -> Row \cup {NoRow}]

NewRow(asserts, attribute, source) ==
    [asserts |-> asserts, attribute |-> attribute, source |-> source,
     deleted |-> FALSE, superseded_by |-> NoId, stale |-> FALSE,
     consolidated_into |-> NoId, reinforced |-> 0]

Outcomes == {"insert", "reinforce", "superseded", "stale", "delete", "edit",
             "retired", "consolidated", "unconsolidated"}
AuditKeys == Outcomes \X Ids
NoAudit == [k \in AuditKeys |-> 0]

\* write_audit: one more row for every key in `keys`.
Log(log, keys) == [k \in AuditKeys |-> log[k] + (IF k \in keys THEN 1 ELSE 0)]

-----------------------------------------------------------------------------
(* Reading a table t. *)

Rows(t) == {i \in Ids : t[i] # NoRow}
Undeleted(t) == {i \in Rows(t) : ~t[i].deleted}
Live(t) == {i \in Undeleted(t) : t[i].superseded_by = NoId}
Tombstones(t) == Rows(t) \ Live(t)

\* The ids `ORDER BY embedding <=> v LIMIT 1` may return from S with a
\* similarity above the threshold; NoId is "nothing near enough".  Equal text
\* is at distance 0 and wins.  Whether a text that asserts several facts (a
\* summary) is near one of them is the embedding model's business: either.
NearestAbove(t, S, fact) ==
    LET exact == {i \in S : t[i].asserts = {fact}}
        near  == {i \in S : \E g \in t[i].asserts : <<fact, g>> \in Similar}
        sure  == {i \in near : \E g \in Facts : t[i].asserts = {g}}
    IN  IF exact # {} THEN exact
        ELSE near \cup (IF sure = {} THEN {NoId} ELSE {})

find_similar(t, fact) == NearestAbove(t, Live(t), fact)

find_similar_tombstones(t, fact) == NearestAbove(t, Tombstones(t), fact)

\* Mutants of SlotRetires: no attribute clause; no superseded_at clause.
SlotRetiresAnySlot(t, attribute, new_id) == {i \in Live(t) : i # new_id}
SlotRetiresAgain(t, attribute, new_id) ==
    {i \in Undeleted(t) : t[i].attribute = attribute /\ i # new_id}

\* Rows _SUPERSEDE_SQL retires when new_id takes the slot.
SlotRetires(t, attribute, new_id) ==
    {i \in Live(t) : t[i].attribute = attribute /\ i # new_id}

\* Mutant of StaleTargets: no stale_at IS NULL.
StaleTargetsAgain(t, S) ==
    {i \in Undeleted(t) : \E s \in S : t[s].consolidated_into = i}

\* Summaries _STALE_SQL / _STALE_ANY_ACTOR_SQL mark for the sources in S.
StaleTargets(t, S) ==
    {i \in Undeleted(t) : ~t[i].stale /\ \E s \in S : t[s].consolidated_into = i}

-----------------------------------------------------------------------------
(* Transactions. *)

NoWrites == [i \in Ids |-> NoRow]

\* What a statement of capture transaction w reads.
View(w) == [i \in Ids |-> IF writes[w][i] # NoRow THEN writes[w][i] ELSE mem[i]]

\* An UPDATE of a row in S would wait for capture transaction v.
LockedBy(v, S) == \E i \in S : writes[v][i] # NoRow

\* No UPDATE of a row in S, outside capture transactions, has to wait.
Unlocked(S) == \A v \in Workers : ~LockedBy(v, S)

\* gen_random_uuid(): some id no transaction uses.  Ids are never ordered, so
\* which one does not matter.
FreshIds == {i \in Ids : mem[i] = NoRow /\ \A v \in Workers : writes[v][i] = NoRow}
FreshId == CHOOSE i \in FreshIds : TRUE

StoreInit ==
    /\ mem = NoWrites
    /\ audit = NoAudit
    /\ writes = [w \in Workers |-> NoWrites]
    /\ pend = [w \in Workers |-> NoAudit]

StoreTypeOK ==
    /\ mem \in Table
    /\ audit \in [AuditKeys -> Nat]
    /\ writes \in [Workers -> Table]
    /\ pend \in [Workers -> [AuditKeys -> Nat]]
=============================================================================
