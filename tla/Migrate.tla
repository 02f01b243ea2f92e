------------------------------- MODULE Migrate ------------------------------
(* `python -m store.migrate` (store/migrate.py): every invocation re-applies *)
(* every migration file in order, one transaction per file, and records it   *)
(* in the ledger. Of what the files do, the model keeps the application      *)
(* role's right to change audit_log (0005 grants it, 0006 revokes it) and    *)
(* the body of the append-only trigger (0006 installs the first version,     *)
(* 0008 the second). PostgreSQL serialises two runs that touch the same      *)
(* objects, or makes one fail.                                               *)
EXTENDS Integers, FiniteSets

CONSTANTS
    Runners,    \* processes that run the migrations
    MaxRuns     \* bound on the invocations of each

ASSUME MigrateAssumption == MaxRuns \in Nat

Files == 1 .. 10    \* store/migrations/*.sql, by number

VARIABLES
    ledger,     \* schema_migrations: file |-> run_count, 0 when absent
    granted,    \* the application role may UPDATE and DELETE audit_log
    trigger,    \* body of audit_log_append_only: "none", "shape" (0006) or "owner" (0008)
    runner,     \* process |-> pc, the next file, invocations; alone: nobody else
                \* has run since it started; fresh: it started when settled
    settled     \* the last thing that happened is a whole run, alone

migrateVars == <<ledger, granted, trigger, runner, settled>>

Running == {r \in Runners : runner[r].pc = "running"}

Run == [pc : {"idle", "running", "done", "failed"}, next : 1 .. 11,
        runs : 0 .. MaxRuns, alone : BOOLEAN, fresh : BOOLEAN]

MigrateTypeOK ==
    /\ ledger \in [Files -> Nat]
    /\ granted \in BOOLEAN /\ trigger \in {"none", "shape", "owner"}
    /\ runner \in [Runners -> Run]
    /\ settled \in BOOLEAN

MigrateInit ==
    /\ ledger = [f \in Files |-> 0] /\ granted = FALSE /\ trigger = "none"
    /\ runner = [r \in Runners |-> [pc |-> "idle", next |-> 1, runs |-> 0,
                                 alone |-> FALSE, fresh |-> FALSE]]
    /\ settled = FALSE

\* The application role can change a row of the audit trail: the statement is
\* permitted, and the trigger does not refuse every such change.
TrailOpen == granted /\ trigger # "owner"

\* apply_all up to the loop: connect, create the ledger.
Start(r) ==
    /\ runner[r].pc # "running" /\ runner[r].runs < MaxRuns
    /\ runner' = [q \in Runners |->
         IF q = r THEN [pc |-> "running", next |-> 1, runs |-> runner[r].runs + 1,
                        alone |-> Running = {}, fresh |-> settled]
         ELSE [runner[q] EXCEPT !.alone = FALSE]]
    /\ settled' = FALSE
    /\ UNCHANGED <<ledger, granted, trigger>>

\* Mutant of Trigger: 0008 is skipped because the ledger already has it.
TriggerSkipped(f) ==
    CASE f = 6 -> "shape" [] f = 8 /\ ledger[8] = 0 -> "owner" [] OTHER -> trigger

\* CREATE OR REPLACE FUNCTION audit_log_append_only
Trigger(f) == CASE f = 6 -> "shape" [] f = 8 -> "owner" [] OTHER -> trigger

\* Mutant of Granted: the revocation comes with 0008, not with 0006.
GrantedLonger(f) == CASE f = 5 -> TRUE [] f = 8 -> FALSE [] OTHER -> granted

\* GRANT and REVOKE on audit_log
Granted(f) == CASE f = 5 -> TRUE [] f = 6 -> FALSE [] OTHER -> granted

\* INSERT INTO schema_migrations ... ON CONFLICT DO UPDATE
Recorded(f) == [ledger EXCEPT ![f] = @ + 1]

\* One file and its ledger row, in one transaction.
Apply(r) ==
    /\ runner[r].pc = "running" /\ runner[r].next \in Files
    /\ LET f == runner[r].next
       IN  /\ granted' = Granted(f) /\ trigger' = Trigger(f) /\ ledger' = Recorded(f)
           /\ runner' = [runner EXCEPT ![r].next = f + 1]
    /\ UNCHANGED settled

\* A file fails: it is rolled back and the exception ends the run. A crash or a
\* lost connection does the same.
FileFails(r) ==
    /\ runner[r].pc = "running" /\ runner[r].next \in Files
    /\ runner' = [runner EXCEPT ![r].pc = "failed"]
    /\ UNCHANGED <<ledger, granted, trigger, settled>>

Finish(r) ==
    /\ runner[r].pc = "running" /\ runner[r].next \notin Files
    /\ runner' = [runner EXCEPT ![r].pc = "done"]
    /\ settled' = runner[r].alone
    /\ UNCHANGED <<ledger, granted, trigger>>

MigrateNext == \E r \in Runners : Start(r) \/ Apply(r) \/ FileFails(r) \/ Finish(r)

MigrateSpec == MigrateInit /\ [][MigrateNext]_migrateVars

-----------------------------------------------------------------------------
(* Properties. *)

\* A whole run, with nobody else running, repairs what any failed or concurrent
\* runs left behind.
WholeRunRepairs == settled => ~granted /\ trigger = "owner" /\ \A f \in Files : ledger[f] > 0

\* A run right after a whole one, with nobody else running, never opens the
\* audit trail, not even between its own transactions: 0005's grant meets 0008's
\* trigger, and 0006's trigger comes with its revocation (0006: "0005 re-grants it
\* on every run - this file runs after it and takes it back").
RerunKeepsTrail ==
    \A r \in Runners :
        runner[r].pc = "running" /\ runner[r].alone /\ runner[r].fresh => ~TrailOpen
=============================================================================
