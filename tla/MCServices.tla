----------------------------- MODULE MCServices -----------------------------
(* Five pieces that share no variable: the capture of one turn, the retry    *)
(* loops around its embedding call, retrieval and composition of one prompt, *)
(* the migrations, and the export. As in MCApplication a behaviour runs one  *)
(* of them, chosen at the start, and the others stay in an initial state.    *)
EXTENDS CapturePipeline, RateLimit, Composer, Migrate, Export

\* The repository's own numbers.
EMBED_RETRY_DELAYS == <<5, 15, 30, 45, 60, 60, 60>>

\* A row just written, stamped in the future by the clocks' difference, and one
\* two half-lives old, often confirmed, with columns missing.
MCSignals ==
    {[created |-> -1, accessed |-> 1, count |-> 0, importance |-> 1, length |-> 0],
     [created |-> 2, accessed |-> Null, count |-> 3, importance |-> Null, length |-> 0]}

MCSemanticRaw == {-1, 3}
MCBudgets == {-1, 4}

VARIABLE part       \* the piece that runs

vars == <<part, pipelineVars, retryVars, composeVars, migrateVars, exportVars>>

\* Where a piece that does not run starts, of the several states it may start in.
AtRest ==
    /\ part # "retry" => /\ clock = 0 /\ start = 0
                         /\ window = CHOOSE w \in Windows : TRUE
    /\ part # "compose" => /\ blank = TRUE /\ budget = -1
                           /\ index = [p \in Path |-> Nothing]
                           /\ rows = [id \in Ids |-> CHOOSE r \in Rows : TRUE]

Init ==
    /\ part \in {"pipeline", "retry", "compose", "migrate", "export"}
    /\ AtRest
    /\ PipelineInit /\ RetryInit /\ ComposeInit /\ MigrateInit /\ ExportInit

Capturing ==
    /\ part = "pipeline"
    /\ UNCHANGED <<part, retryVars, composeVars, migrateVars, exportVars>>
Retrying ==
    /\ part = "retry"
    /\ UNCHANGED <<part, pipelineVars, composeVars, migrateVars, exportVars>>
Composing ==
    /\ part = "compose"
    /\ UNCHANGED <<part, pipelineVars, retryVars, migrateVars, exportVars>>
Migrating ==
    /\ part = "migrate"
    /\ UNCHANGED <<part, pipelineVars, retryVars, composeVars, exportVars>>
Exporting ==
    /\ part = "export"
    /\ UNCHANGED <<part, pipelineVars, retryVars, composeVars, migrateVars>>

\* Every step of the five pieces, one disjunct each so that TLC counts them apart.
Next ==
    \/ Capturing /\ Extract
    \/ Capturing /\ Pii
    \/ Capturing /\ Evaluate
    \/ Capturing /\ EmbedOk
    \/ Capturing /\ EmbedError
    \/ Capturing /\ Dedup
    \/ Capturing /\ Write
    \/ Capturing /\ Timeout
    \/ Retrying /\ CallOk
    \/ Retrying /\ CallAgain
    \/ Retrying /\ CallExhausted
    \/ Retrying /\ CallBroken
    \/ Retrying /\ CallRejected
    \/ \E p \in Path : Composing /\ PathReturns(p)
    \/ \E p \in Path : Composing /\ PathDegrades(p)
    \/ Composing /\ Rank
    \/ Composing /\ Drop
    \/ Composing /\ Compose
    \/ \E r \in Runners : Migrating /\ Start(r)
    \/ \E r \in Runners : Migrating /\ Apply(r)
    \/ \E r \in Runners : Migrating /\ FileFails(r)
    \/ \E r \in Runners : Migrating /\ Finish(r)
    \/ Exporting /\ CaptureCommits
    \/ Exporting /\ DeleteCommits
    \/ \E a \in Actors : Exporting /\ List(a)
    \/ \E a \in Actors : Exporting /\ ExportBegins(a)
    \/ Exporting /\ ReadMemories
    \/ Exporting /\ ReadAudit
    \/ Exporting /\ ExportCommits
    \/ Exporting /\ ExportFails

Spec == Init /\ [][Next]_vars

\* The state of each piece has its type: no more candidates than the cap, no
\* second beyond the time limit, no more memories than top-k, one ledger entry
\* per application, no more rows than the export's cap.
TypeOK == PipelineTypeOK /\ RetryTypeOK /\ ComposeTypeOK /\ MigrateTypeOK /\ ExportTypeOK
=============================================================================
