----------------------------- MODULE Reflection -----------------------------
(***************************************************************************)
(* The reflection job (jobs/reflection.py, graphs/reflection_graph.py) for *)
(* one subject: retire stale summaries and free their sources, select the  *)
(* densest cluster, summarise it, and write the summary in a second        *)
(* transaction.  Several runs may overlap: cron in every replica, and the  *)
(* jobs/run.py command line.                                               *)
(***************************************************************************)
EXTENDS Memories

CONSTANTS
    Runs,           \* concurrent runs of the job
    Related,        \* pairs within cluster_max_distance
    MinCluster,     \* min_cluster_size()
    MaxCluster,     \* max_cluster_size()
    RebuildLimit    \* rebuild_stale_summaries(limit)

ASSUME ReflectionAssumption ==
    /\ Related \subseteq Facts \X Facts
    /\ {MinCluster, MaxCluster, RebuildLimit} \subseteq Nat \ {0}
    /\ MinCluster <= MaxCluster

VARIABLES
    run,            \* progress of each run
    source_ids      \* the source_ids each summary's audit row records

reflectionVars == <<run, source_ids>>

Run == [pc : {"idle", "targeted", "rebuilt", "selected"},
        cluster : SUBSET Ids,
        texts : SUBSET Facts]

IdleRun == [pc |-> "idle", cluster |-> {}, texts |-> {}]

-----------------------------------------------------------------------------
\* What _SUBJECTS_SQL asks of the subject: it does not ask for superseded_at IS NULL.
\* That a run reaches the subject takes more, a place within the LIMIT and no error at
\* a subject before it: module ReflectionWeeks. A run that does not is no step here.
HasCandidates ==
    MinCluster <= Cardinality({i \in Undeleted(mem) :
        mem[i].consolidated_into = NoId /\ mem[i].source # "reflection"})

\* list_subjects_with_candidates listed the subject, and the loop of the scheduled run
\* has come to it.
ReflectionScheduled(k) ==
    /\ run[k].pc = "idle"
    /\ HasCandidates
    /\ run' = [run EXCEPT ![k].pc = "targeted"]
    /\ UNCHANGED <<storeVars, source_ids>>

\* An operator names the subject on the command line.
ReflectionForSubject(k) ==
    /\ run[k].pc = "idle"
    /\ run' = [run EXCEPT ![k].pc = "targeted"]
    /\ UNCHANGED <<storeVars, source_ids>>

StaleSummaries(t) == {i \in Undeleted(t) : t[i].stale}

\* Mutant of FreedSources: the sources stay consolidated.
FreedSourcesNone(t, S) == {}

\* _FREE_SOURCES_SQL for the summaries in S.
FreedSources(t, S) == {i \in Live(t) : t[i].consolidated_into \in S}

\* rebuild_stale_summaries: at most RebuildLimit summaries, oldest first (any).
rebuild_stale_summaries(k) ==
    /\ run[k].pc = "targeted"
    /\ \E S \in SUBSET StaleSummaries(mem) :
         LET freed == FreedSources(mem, S)
         IN  /\ \/ S = StaleSummaries(mem) /\ Cardinality(S) <= RebuildLimit
                \/ Cardinality(S) = RebuildLimit
             /\ Unlocked(S \cup freed)
             /\ mem' = [i \in Ids |->
                   IF i \in S \cup freed
                   THEN [mem[i] EXCEPT !.deleted = @ \/ i \in S,
                                       !.consolidated_into = IF i \in freed THEN NoId ELSE @]
                   ELSE mem[i]]
             /\ audit' = Log(audit, ({"retired"} \X S) \cup ({"unconsolidated"} \X freed))
    /\ run' = [run EXCEPT ![k].pc = "rebuilt"]
    /\ UNCHANGED <<writes, pend, source_ids>>

\* _CANDIDATES_CTE.
ClusterCandidates(t) ==
    {i \in Live(t) : t[i].consolidated_into = NoId /\ t[i].source # "reflection"}

Neighbours(t, i) ==
    {j \in ClusterCandidates(t) \ {i} :
        \E f \in t[i].asserts, g \in t[j].asserts : <<f, g>> \in Related}

\* _SEED_SQL and _CLUSTER_SQL: a densest seed with its nearest neighbours.
Seeds(t) ==
    LET size(i) == Cardinality(Neighbours(t, i))
    IN  {i \in ClusterCandidates(t) :
            0 < size(i) /\ \A j \in ClusterCandidates(t) : size(j) <= size(i)}

Clusters(t) ==
    {C \in SUBSET ClusterCandidates(t) :
        /\ MinCluster <= Cardinality(C)
        /\ \E i \in Seeds(t) \cap C :
             LET around == {i} \cup Neighbours(t, i)
             IN  \/ C = around /\ Cardinality(C) <= MaxCluster
                 \/ C \subseteq around /\ Cardinality(C) = MaxCluster}

\* select_node: the cluster and its texts leave the transaction.
SelectCluster(k) ==
    /\ run[k].pc = "rebuilt"
    /\ \E C \in Clusters(mem) :
         run' = [run EXCEPT ![k] = [pc |-> "selected", cluster |-> C,
                                    texts |-> UNION {mem[i].asserts : i \in C}]]
    /\ UNCHANGED <<storeVars, source_ids>>

\* No cluster: the run ends well.
NoCluster(k) ==
    /\ run[k].pc = "rebuilt"
    /\ Clusters(mem) = {}
    /\ run' = [run EXCEPT ![k] = IdleRun]
    /\ UNCHANGED <<storeVars, source_ids>>

\* _CONSOLIDATE_SQL: superseded_at is not asked about.
Consolidated(t, C) == {i \in C \cap Undeleted(t) : t[i].consolidated_into = NoId}

\* write_node: the summary of the texts read at select, whatever happened to
\* the sources since.
write_summary(k) ==
    LET C == Consolidated(mem, run[k].cluster)
        n == FreshId
    IN  /\ run[k].pc = "selected"
        /\ FreshIds # {}
        /\ Unlocked(C)
        /\ mem' = [i \in Ids |->
              IF i = n THEN NewRow(run[k].texts, NoAttr, "reflection")
              ELSE IF i \in C THEN [mem[i] EXCEPT !.consolidated_into = n]
              ELSE mem[i]]
        /\ audit' = Log(audit, {<<"insert", n>>} \cup ({"consolidated"} \X C))
        /\ source_ids' = [source_ids EXCEPT ![n] = run[k].cluster]
        /\ run' = [run EXCEPT ![k] = IdleRun]
        /\ UNCHANGED <<writes, pend>>

\* The summary or its embedding comes back empty, an exception, or a crash.
ReflectionAbort(k) ==
    /\ run[k].pc # "idle"
    /\ run' = [run EXCEPT ![k] = IdleRun]
    /\ UNCHANGED <<storeVars, source_ids>>

ReflectionInit ==
    /\ run = [k \in Runs |-> IdleRun]
    /\ source_ids = [i \in Ids |-> {}]

ReflectionStep(k) ==
    \/ rebuild_stale_summaries(k) \/ SelectCluster(k)
    \/ NoCluster(k) \/ write_summary(k)

ReflectionNext(k) ==
    \/ ReflectionScheduled(k) \/ ReflectionForSubject(k)
    \/ ReflectionStep(k) \/ ReflectionAbort(k)

ReflectionTypeOK ==
    /\ run \in [Runs -> Run]
    /\ source_ids \in [Ids -> SUBSET Ids]
=============================================================================
