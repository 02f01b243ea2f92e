-------------------------- MODULE ReflectionWeeks --------------------------
(* The weekly reflection job over all subjects (jobs/reflection.py,          *)
(* run_reflection_worker; jobs/scheduler.py): which subjects a run is given, *)
(* the loop over them and what ends it early. What a run does to the table   *)
(* of one subject is module Reflection; here a subject is the number of its  *)
(* unconsolidated rows and of its summaries. One run at a time: those an     *)
(* operator starts for one subject overlap with it in that module.           *)
EXTENDS Naturals, Sequences, FiniteSets

CONSTANTS
    Subjects,       \* pairs (subject_id, actor_id), as integers: their order breaks ties
    MaxSubjects,    \* max_subjects, the LIMIT of _SUBJECTS_SQL
    MinCluster,     \* min_cluster_size()
    RebuildLimit,   \* rebuild_stale_summaries(limit)
    MaxRows,        \* bound on a subject's unconsolidated rows
    MaxSummaries    \* bound on a subject's live summaries

ASSUME WeeksAssumption ==
    /\ Subjects \subseteq Nat /\ IsFiniteSet(Subjects)
    /\ MaxSubjects \in Nat \ {0} /\ MinCluster \in Nat \ {0} /\ RebuildLimit \in Nat \ {0}
    /\ MaxRows \in Nat /\ MaxSummaries \in Nat

VARIABLES
    open,       \* subject |-> rows that _SUBJECTS_SQL counts
    fresh,      \* subject |-> live summaries that are not stale
    stale,      \* subject |-> live summaries that are
    todo,       \* the subjects the run has still to finish
    step,       \* what comes next for the first of them
    report      \* the outcome of the run so far, or of the last one

weeksVars == <<open, fresh, stale, todo, step, report>>

WeeksTypeOK ==
    /\ open \in [Subjects -> 0 .. MaxRows]
    /\ fresh \in [Subjects -> 0 .. MaxSummaries] /\ stale \in [Subjects -> 0 .. MaxSummaries]
    /\ \A s \in Subjects : fresh[s] + stale[s] <= MaxSummaries
    /\ todo \in Seq(Subjects)
    /\ step \in {"rebuild", "select", "write"} /\ report \in {"ok", "barren", "error"}

WeeksInit ==
    /\ open = [s \in Subjects |-> 0]
    /\ fresh = [s \in Subjects |-> 0] /\ stale = [s \in Subjects |-> 0]
    /\ todo = <<>> /\ step = "rebuild" /\ report = "ok"

-----------------------------------------------------------------------------
(* Captures, deletes and edits, at any time. *)

RowAdded(s) ==
    /\ open[s] < MaxRows
    /\ open' = [open EXCEPT ![s] = @ + 1]
    /\ UNCHANGED <<fresh, stale, todo, step, report>>

RowDeleted(s) ==
    /\ open[s] > 0
    /\ open' = [open EXCEPT ![s] = @ - 1]
    /\ UNCHANGED <<fresh, stale, todo, step, report>>

\* A source is deleted, edited or superseded: mark_summary_stale.
SourceChanged(s) ==
    /\ fresh[s] > 0
    /\ fresh' = [fresh EXCEPT ![s] = @ - 1]
    /\ stale' = [stale EXCEPT ![s] = @ + 1]
    /\ UNCHANGED <<open, todo, step, report>>

\* A summary is a memory the user can delete too.
SummaryDeleted(s) ==
    /\ \/ fresh[s] > 0 /\ fresh' = [fresh EXCEPT ![s] = @ - 1] /\ UNCHANGED stale
       \/ stale[s] > 0 /\ stale' = [stale EXCEPT ![s] = @ - 1] /\ UNCHANGED fresh
    /\ UNCHANGED <<open, todo, step, report>>

-----------------------------------------------------------------------------
(* The job. *)

Eligible == {s \in Subjects : open[s] >= MinCluster}

\* ORDER BY n DESC, subject_id
Ahead(s, t) == open[s] > open[t] \/ (open[s] = open[t] /\ s < t)

Fewer(a, b) == IF a <= b THEN a ELSE b

\* list_subjects_with_candidates. There is one such sequence.
Targets ==
    {list \in [1 .. Fewer(MaxSubjects, Cardinality(Eligible)) -> Eligible] :
        /\ \A a, b \in DOMAIN list : a < b => Ahead(list[a], list[b])
        /\ \A s \in Eligible :
              \/ \E a \in DOMAIN list : list[a] = s
              \/ \A a \in DOMAIN list : Ahead(list[a], s)}

\* scheduled_reflection, or jobs/run.py without --subject.
JobFires ==
    /\ todo = <<>>
    /\ todo' \in Targets
    /\ step' = "rebuild" /\ report' = "ok"
    /\ UNCHANGED <<open, fresh, stale>>

At(what) == todo # <<>> /\ step = what

\* rebuild_stale_summaries: the oldest are retired, and whatever survives of their
\* sources counts again.
Rebuild ==
    /\ At("rebuild")
    /\ LET s == Head(todo)
           retired == Fewer(stale[s], RebuildLimit)
       IN  /\ stale' = [stale EXCEPT ![s] = @ - retired]
           /\ \E n \in open[s] .. MaxRows :
                 /\ retired = 0 => n = open[s]
                 /\ open' = [open EXCEPT ![s] = n]
    /\ step' = "select"
    /\ UNCHANGED <<fresh, todo, report>>

\* The loop goes on with the next subject.
NextSubject == todo' = Tail(todo) /\ step' = "rebuild"

\* select_node finds a cluster; the model call follows, and others go on.
Selected ==
    /\ At("select") /\ open[Head(todo)] >= MinCluster
    /\ step' = "write"
    /\ UNCHANGED <<open, fresh, stale, todo, report>>

\* No cluster: the subject's rows are too far apart, or too few by now.
Unclustered ==
    /\ At("select")
    /\ NextSubject
    /\ UNCHANGED <<open, fresh, stale, report>>

\* write_summary: whichever of the cluster's rows are left are consolidated.
Summarised ==
    /\ At("write")
    /\ LET s == Head(todo)
       IN  /\ fresh[s] + stale[s] < MaxSummaries
           /\ fresh' = [fresh EXCEPT ![s] = @ + 1]
           /\ \E n \in 0 .. open[s] : open' = [open EXCEPT ![s] = n]
    /\ NextSubject
    /\ UNCHANGED <<stale, report>>

\* Mutant of Barren: ReflectionProducedNothing is raised at once.
BarrenRaises ==
    /\ At("write")
    /\ report' = "barren" /\ todo' = <<>> /\ step' = "rebuild"
    /\ UNCHANGED <<open, fresh, stale>>

\* A cluster and no summary: noted, and raised after the last subject.
Barren ==
    /\ At("write")
    /\ report' = "barren"
    /\ NextSubject
    /\ UNCHANGED <<open, fresh, stale>>

\* An exception, or the end of the process: the subjects behind this one are not
\* visited.
Raises ==
    /\ todo # <<>>
    /\ todo' = <<>> /\ step' = "rebuild" /\ report' = "error"
    /\ UNCHANGED <<open, fresh, stale>>

VisitStep == Rebuild \/ Selected \/ Unclustered \/ Summarised \/ Barren \/ Raises

WeeksNext ==
    \/ JobFires \/ VisitStep
    \/ \E s \in Subjects :
          RowAdded(s) \/ RowDeleted(s) \/ SourceChanged(s) \/ SummaryDeleted(s)

WeeksSpec == WeeksInit /\ [][WeeksNext]_weeksVars

\* Sunday 04:00 comes round, and a run that has begun goes on or raises.
WeeksFairSpec == WeeksSpec /\ WF_weeksVars(JobFires) /\ WF_weeksVars(VisitStep)

-----------------------------------------------------------------------------
(* Properties. *)

\* The subject has enough rows, and fewer than MaxSubjects others come before it.
WithinLimit(s) ==
    /\ open[s] >= MinCluster
    /\ Cardinality({t \in Subjects : Ahead(t, s)}) < MaxSubjects

\* A subject that stays among those a run is given is rid of its stale summaries
\* again and again, once runs no longer end in an error: whatever the other subjects'
\* runs find or fail to write, and whatever captures and deletes come in between
\* (rebuild_stale_summaries: "This closes that gap on the next reflection run").
\* Behind the LIMIT, below the minimum, or behind a subject whose visit raises
\* every time, a subject is never visited and its summaries stay.
StaleRetiredInReach ==
    \A s \in Subjects : <>[](WithinLimit(s) /\ report # "error") => []<>(stale[s] = 0)
=============================================================================
