--------------------------- MODULE MCApplication ---------------------------
(* Four pieces of the API process, a chat request, the capture worker, the   *)
(* registry of pools and the retrieval breaker, and the weekly job of the    *)
(* scheduler process. No variable belongs to two of them, so interleaving    *)
(* their steps would show nothing and multiply the states: a behaviour runs  *)
(* one piece, chosen at the start, while the others rest.                    *)
EXTENDS Chat, CaptureWorker, Pool, Breaker, ReflectionWeeks

VARIABLE part       \* the piece that runs

appVars == <<part, chatVars, workerVars, poolVars, vars, weeksVars>>

\* A request that ended before: retrieval raised, and the answer was an error.
AnsweredBefore ==
    /\ request = [stream |-> FALSE, capture |-> TRUE, blank |-> FALSE, faults |-> TRUE]
    /\ graph = [pc |-> "finished", exc |-> "error", cancel |-> FALSE]
    /\ prompt = NoMeta /\ produced = 0 /\ events = <<>>
    /\ handler = "error500" /\ headers = MetadataHeaders(NoMeta) /\ sent = 0
    /\ client = "waiting" /\ captures = <<>> /\ audited = {}

AppInit ==
    /\ part \in {"chat", "worker", "pool", "breaker", "weeks"}
    /\ IF part = "chat" THEN ChatInit ELSE AnsweredBefore
    /\ WorkerInit
    /\ PoolInit /\ (part # "pool" => ~overlap)
    /\ Init
    /\ WeeksInit

Chatting == part = "chat" /\ UNCHANGED <<part, workerVars, poolVars, vars, weeksVars>>
Working == part = "worker" /\ UNCHANGED <<part, chatVars, poolVars, vars, weeksVars>>
Pooling == part = "pool" /\ UNCHANGED <<part, chatVars, workerVars, vars, weeksVars>>
Breaking == part = "breaker" /\ UNCHANGED <<part, chatVars, workerVars, poolVars, weeksVars>>
Reflecting == part = "weeks" /\ UNCHANGED <<part, chatVars, workerVars, poolVars, vars>>

\* Every step of ChatNext, WorkerNext, PoolNext, the breaker's Next and WeeksNext,
\* one disjunct each so that TLC counts them apart.
AppNext ==
    \/ Chatting /\ RetrievalFailed
    \/ Chatting /\ Retrieved
    \/ Chatting /\ ReadAudit
    \/ Chatting /\ EmitMetadata
    \/ Chatting /\ EmitToken
    \/ Chatting /\ EmitDone
    \/ Chatting /\ GraphRaises
    \/ Chatting /\ GraphCancelled
    \/ Chatting /\ AnswerJson
    \/ Chatting /\ FirstEvent
    \/ Chatting /\ BodyStarts
    \/ Chatting /\ BodyEvent
    \/ Chatting /\ BodyEnds
    \/ Chatting /\ BodyAborted
    \/ Chatting /\ CloseReturns
    \/ Chatting /\ Disconnect
    \/ \E j \in Jobs : Working /\ Enqueue(j)
    \/ \E t \in Tasks : Working /\ Begin(t)
    \/ \E t \in Tasks : Working /\ Get(t)
    \/ \E t \in Tasks : Working /\ CommitWrites(t)
    \/ \E t \in Tasks : Working /\ EndJob(t)
    \/ \E t \in Tasks : Working /\ CancelGet(t)
    \/ Working /\ Stop
    \/ Working /\ StopReturns
    \/ Working /\ Drain
    \/ Working /\ DrainReturns
    \/ Working /\ Exit
    \/ \E c \in Callers : Pooling /\ GetPool(c)
    \/ \E c \in Callers : Pooling /\ Acquired(c)
    \/ \E c \in Callers : Pooling /\ Opened(c)
    \/ \E c \in Callers : Pooling /\ OpenFails(c)
    \/ Pooling /\ ClosePools
    \/ Pooling /\ Forget
    \/ \E c \in Calls : Breaking /\ Allow(c)
    \/ \E c \in Calls : Breaking /\ AllowBlind(c)
    \/ \E c \in Calls : Breaking /\ SearchFails(c)
    \/ \E c \in Calls : Breaking /\ SearchCancelled(c)
    \/ \E c \in Calls : Breaking /\ Record(c)
    \/ \E c \in Calls : Breaking /\ RecordLost(c)
    \/ \E c \in Calls, degraded \in SUBSET Paths : Breaking /\ SearchReturns(c, degraded)
    \/ Breaking /\ Reset
    \/ Breaking /\ ForceOpenSet
    \/ Breaking /\ ForceOpenDel
    \/ Breaking /\ Tick
    \/ Breaking /\ Heal
    \/ \E s \in Subjects : Reflecting /\ RowAdded(s)
    \/ \E s \in Subjects : Reflecting /\ RowDeleted(s)
    \/ \E s \in Subjects : Reflecting /\ SourceChanged(s)
    \/ \E s \in Subjects : Reflecting /\ SummaryDeleted(s)
    \/ Reflecting /\ JobFires
    \/ Reflecting /\ Rebuild
    \/ Reflecting /\ Selected
    \/ Reflecting /\ Unclustered
    \/ Reflecting /\ Summarised
    \/ Reflecting /\ Barren
    \/ Reflecting /\ Raises

\* The fairness of the five pieces.
AppFairSpec ==
    /\ AppInit /\ [][AppNext]_appVars
    /\ WF_appVars(Graph /\ Chatting) /\ WF_appVars(Serve /\ Chatting)
    /\ \A t \in Tasks : WF_appVars(Consume(t) /\ Working)
    /\ \A c \in Callers : WF_appVars(Step(c) /\ Pooling)
    /\ WF_appVars(Tick /\ Breaking) /\ WF_appVars(ForceOpenDel /\ Breaking)
    /\ \A c \in Calls :
        /\ WF_appVars(Allow(c) /\ Breaking) /\ WF_appVars(Record(c) /\ Breaking)
        /\ WF_appVars(\E degraded \in SUBSET Paths : SearchReturns(c, degraded) /\ Breaking)
    /\ WF_appVars(JobFires /\ Reflecting) /\ WF_appVars(VisitStep /\ Reflecting)

\* The state of each piece has its type: no queue grows beyond
\* CAPTURE_QUEUE_MAXSIZE, a pool is opened by the holder of its lock, no timer of
\* the breaker exceeds what it was set to.
AppTypeOK == ChatTypeOK /\ WorkerTypeOK /\ PoolTypeOK /\ TypeOK /\ WeeksTypeOK
=============================================================================
