------------------------------- MODULE Export -------------------------------
(* The read side of the governance API for one subject: GET /memories/me     *)
(* (api/memories.py) and GET /memories/export (api/governance.py), each      *)
(* statement with its own READ COMMITTED snapshot, between captures, deletes *)
(* and reads that commit a row and its audit entry together. Row-level       *)
(* security (0004, 0005) hides the rows of other actors. No code of the      *)
(* repository writes feedback, so that table is left out.                    *)
EXTENDS Integers, FiniteSets, FiniteSetsExt

CONSTANTS
    Stored,     \* memories that can be captured
    Actors,     \* X-Actor-Id values used with the subject
    RowCap,     \* row_cap of the export
    PageSize,   \* limit of the list
    MaxExports  \* bound on the exports

ASSUME ExportAssumption ==
    /\ IsFiniteSet(Stored)
    /\ RowCap \in Nat \ {0} /\ PageSize \in Nat \ {0} /\ MaxExports \in Nat

VARIABLES
    table,      \* memories: id |-> its state and actor
    log,        \* audit_log: set of [action, id, actor]; exports are numbered
    listed,     \* actor |-> ids that a finished list has shown it
    dump,       \* the running or last export
    exports

exportVars == <<table, log, listed, dump, exports>>

Absent == [state |-> "absent", actor |-> "none"]
Entry(action, id, actor) == [action |-> action, id |-> id, actor |-> actor]

\* What an actor's SELECT can see.
Visible(actor) == {id \in Stored : table[id].state # "absent" /\ table[id].actor = actor}
VisibleLog(actor) == {e \in log : e.actor = actor}

NoDump == [pc |-> "idle", actor |-> "none", known |-> {},
           rows |-> {}, deleted |-> {}, log |-> {}, truncated |-> {}]

ExportTypeOK ==
    /\ \A id \in Stored : table[id].state \in {"absent", "live", "deleted"}
    /\ \A a \in Actors : listed[a] \subseteq Stored
    /\ dump.pc \in {"idle", "memories", "audit", "insert", "sent"}
    /\ dump.deleted \subseteq dump.rows /\ Cardinality(dump.rows) <= RowCap
    /\ Cardinality(dump.log) <= RowCap
    /\ dump.truncated \subseteq {"memories", "audit_log"}
    /\ exports \in 0 .. MaxExports

ExportInit ==
    /\ table = [id \in Stored |-> Absent] /\ log = {}
    /\ listed = [a \in Actors |-> {}] /\ dump = NoDump /\ exports = 0

\* A capture's transaction: the row and its audit entry.
CaptureCommits ==
    /\ \E id \in Stored, a \in Actors :
          /\ table[id] = Absent
          /\ table' = [table EXCEPT ![id] = [state |-> "live", actor |-> a]]
          /\ log' = log \union {Entry("write", id, a)}
    /\ UNCHANGED <<listed, dump, exports>>

\* delete_memory's transaction.
DeleteCommits ==
    /\ \E a \in Actors : \E id \in Visible(a) :
          /\ table[id].state = "live"
          /\ table' = [table EXCEPT ![id].state = "deleted"]
          /\ log' = log \union {Entry("delete", id, a)}
    /\ UNCHANGED <<listed, dump, exports>>

\* LIMIT n: the rows beyond it are cut, the ones before it come in some order.
Limited(rows, n) == {s \in SUBSET rows : Cardinality(s) = Min({n, Cardinality(rows)})}

\* list_my_memories: a page of the live rows. Superseded rows are among them.
List(a) ==
    /\ \E page \in Limited({id \in Visible(a) : table[id].state = "live"}, PageSize) :
          listed' = [listed EXCEPT ![a] = @ \union page]
    /\ UNCHANGED <<table, log, dump, exports>>

\* A request for an export arrives. known remembers what the caller had been
\* shown, for the properties.
ExportBegins(a) ==
    /\ dump.pc \in {"idle", "sent"} /\ exports < MaxExports
    /\ exports' = exports + 1
    /\ dump' = [NoDump EXCEPT !.pc = "memories", !.actor = a, !.known = listed[a]]
    /\ UNCHANGED <<table, log, listed>>

\* Mutant of Exported: the export takes the curated view's WHERE clause.
ExportedLive(a) == {id \in Visible(a) : table[id].state = "live"}

\* The WHERE clause of the first SELECT: soft-deleted rows are included.
Exported(a) == Visible(a)

\* SELECT ... FROM memories, with the deleted marker.
ReadMemories ==
    /\ dump.pc = "memories"
    /\ \E rows \in Limited(Exported(dump.actor), RowCap) :
          dump' = [dump EXCEPT !.pc = "audit", !.rows = rows,
                               !.deleted = {id \in rows : table[id].state = "deleted"}]
    /\ UNCHANGED <<table, log, listed, exports>>

\* SELECT ... FROM audit_log
ReadAudit ==
    /\ dump.pc = "audit"
    /\ \E rows \in Limited(VisibleLog(dump.actor), RowCap) :
          dump' = [dump EXCEPT !.pc = "insert", !.log = rows]
    /\ UNCHANGED <<table, log, listed, exports>>

\* Mutant of Truncated: a table that fills the cap exactly is taken as whole.
TruncatedBeyond(n) == n > RowCap

\* truncated: n >= row_cap
Truncated(n) == n >= RowCap

\* write_audit(EXPORT), COMMIT, and the response.
ExportCommits ==
    /\ dump.pc = "insert"
    /\ log' = log \union {Entry("export", exports, dump.actor)}
    /\ dump' = [dump EXCEPT !.pc = "sent", !.truncated =
             (IF Truncated(Cardinality(dump.rows)) THEN {"memories"} ELSE {})
            \union (IF Truncated(Cardinality(dump.log)) THEN {"audit_log"} ELSE {})]
    /\ UNCHANGED <<table, listed, exports>>

\* The transaction fails: no response, and no audit entry.
ExportFails ==
    /\ dump.pc \in {"memories", "audit", "insert"}
    /\ dump' = NoDump
    /\ UNCHANGED <<table, log, listed, exports>>

ExportNext ==
    \/ CaptureCommits \/ DeleteCommits \/ (\E a \in Actors : List(a) \/ ExportBegins(a))
    \/ ReadMemories \/ ReadAudit \/ ExportCommits \/ ExportFails

ExportSpec == ExportInit /\ [][ExportNext]_exportVars

-----------------------------------------------------------------------------
(* Properties. *)

\* The export is a superset of the curated view: whatever the caller has been
\* shown is in it, also when it was deleted since, or the dump says that it is
\* truncated (api/governance.py: "a strict superset").
SupersetOfCurated ==
    dump.pc = "sent" => dump.known \subseteq dump.rows \/ "memories" \in dump.truncated

\* Although the two tables are read in two snapshots, the dump explains itself:
\* each memory in it comes with the audit entry of its write, and each one
\* flagged deleted with the entry of its deletion, unless the trail is marked as
\* truncated (export_my_data reads memories before audit_log).
DumpExplainsItself ==
    dump.pc = "sent" /\ "audit_log" \notin dump.truncated =>
        /\ \A id \in dump.rows : Entry("write", id, dump.actor) \in dump.log
        /\ \A id \in dump.deleted : Entry("delete", id, dump.actor) \in dump.log
=============================================================================
