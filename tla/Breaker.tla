------------------------------ MODULE Breaker ------------------------------
(***************************************************************************)
(* The retrieval circuit breaker: one record and one probe lock in Redis   *)
(* (retrieve/breaker.py), and the guarded calls of all replicas that ask   *)
(* it for admission and report back (retrieve/guarded.py).                 *)
(*                                                                         *)
(* Time is counted in ticks, all replicas' clocks agree, and timers run    *)
(* down: `cooling` is what is left of cooldown_seconds since opened_at,    *)
(* `probeLock` what is left of the lock's TTL (0: no key), `left` what is  *)
(* left of a call's budget.  The scripts compare `failures` only with the  *)
(* threshold, so it saturates there.                                       *)
(***************************************************************************)
EXTENDS Naturals

CONSTANTS
    Calls,          \* guarded calls in flight at once, in any replica
    Paths,          \* the retrieval paths hybrid_search runs
    Threshold,      \* breaker_failure_threshold()
    Cooldown,       \* breaker_cooldown_seconds()
    ProbeTtl,       \* _probe_lock_ttl
    Budget,         \* retrieval_timeout_seconds()
    Rtt             \* longest round trip to Redis (connect_timeout)

\* A call is in flight for at most this long after its admission: the reply
\* to allow, the search, the outcome on its way.
Flight == Rtt + Budget + Rtt

\* failure_threshold is max(1, ...); the lock's TTL is twice the budget plus a
\* margin, and the default cooldown is five budgets.
ASSUME BreakerAssumption ==
    /\ Paths # {}
    /\ {Threshold, Cooldown, ProbeTtl, Budget} \subseteq Nat \ {0}
    /\ Rtt \in Nat
    /\ Flight < ProbeTtl
    /\ Flight < Cooldown

VARIABLES
    state, failures, cooling,   \* the record
    probeLock,                  \* the lock's remaining TTL
    call,                       \* guarded_hybrid_search, per call
    force,                      \* force_open, between its two commands
    healthy                     \* the outage is over for good

record == <<state, failures, cooling>>
vars == <<record, probeLock, call, force, healthy>>

States == {"closed", "open", "half_open"}

Call == [pc : {"idle", "search", "succeeded", "failed"},
         probe : BOOLEAN,
         left : 0..Flight]

IdleCall == [pc |-> "idle", probe |-> FALSE, left |-> 0]

Init ==
    /\ state = "closed" /\ failures = 0 /\ cooling = 0
    /\ probeLock = 0
    /\ call = [c \in Calls |-> IdleCall]
    /\ force = [pc |-> "idle", left |-> 0]
    /\ healthy = FALSE

-----------------------------------------------------------------------------
(* The three scripts, each atomic in Redis. *)

\* _ALLOW_LUA: what the record is after the cooldown was looked at.
Gate == IF state = "open" /\ cooling = 0 THEN "half_open" ELSE state

\* Mutant of Verdict: the lock is tried on the way to half_open only.
VerdictOnce == IF Gate = "closed" THEN "allowed"
               ELSE IF state = "open" /\ cooling = 0 /\ probeLock = 0 THEN "probe"
               ELSE "blocked"

\* The verdict, and the lock taken for verdict "probe".
Verdict == IF Gate = "closed" THEN "allowed"
           ELSE IF Gate = "half_open" /\ probeLock = 0 THEN "probe"
           ELSE "blocked"

AllowScript ==
    /\ state' = Gate
    /\ probeLock' = IF Verdict = "probe" THEN ProbeTtl ELSE probeLock
    /\ UNCHANGED <<failures, cooling>>

\* Mutant of FailureScript: > in place of >=.
FailureScriptAbove(was_probe) ==
    LET opens == state = "half_open" \/ was_probe \/ Threshold < failures + 1
    IN  /\ state' = IF opens THEN "open" ELSE state
        /\ cooling' = IF opens THEN Cooldown ELSE cooling
        /\ failures' = IF opens THEN Threshold ELSE failures + 1
        /\ probeLock' = 0

\* _FAILURE_LUA.
FailureScript(was_probe) ==
    LET opens == state = "half_open" \/ was_probe \/ Threshold <= failures + 1
    IN  /\ state' = IF opens THEN "open" ELSE state
        /\ cooling' = IF opens THEN Cooldown ELSE cooling
        /\ failures' = IF opens THEN Threshold ELSE failures + 1
        /\ probeLock' = 0

\* Mutants of SuccessScript: a straggler deletes the lock; a straggler closes.
SuccessScriptUnlocks(was_probe) ==
    /\ IF was_probe \/ state = "closed"
       THEN state' = "closed" /\ failures' = 0 /\ cooling' = 0
       ELSE UNCHANGED record
    /\ probeLock' = 0
SuccessScriptAlways(was_probe) ==
    state' = "closed" /\ failures' = 0 /\ cooling' = 0 /\ probeLock' = 0

\* _SUCCESS_LUA, with its straggler guard.
SuccessScript(was_probe) ==
    IF was_probe \/ state = "closed"
    THEN state' = "closed" /\ failures' = 0 /\ cooling' = 0 /\ probeLock' = 0
    ELSE UNCHANGED <<record, probeLock>>

-----------------------------------------------------------------------------
(* guarded_hybrid_search. *)

Admit(c, probe) ==
    call' = [call EXCEPT ![c] = [pc |-> "search", probe |-> probe, left |-> Rtt + Budget]]

\* allow: a blocked call raises RetrievalUnavailable("open_circuit").
Allow(c) ==
    /\ call[c].pc = "idle"
    /\ AllowScript
    /\ IF Verdict = "blocked" THEN UNCHANGED call ELSE Admit(c, Verdict = "probe")
    /\ UNCHANGED <<force, healthy>>

\* A Redis error fails open.  The script may have run all the same, when only
\* its answer was lost; the token in the lock then has no owner.
AllowBlind(c) ==
    /\ ~healthy
    /\ call[c].pc = "idle"
    /\ AllowScript \/ UNCHANGED <<record, probeLock>>
    /\ Admit(c, FALSE)
    /\ UNCHANGED <<force, healthy>>

\* The search ends and its outcome sets out for Redis.
Outcome(c, pc) ==
    /\ call[c].pc = "search"
    /\ call' = [call EXCEPT ![c].pc = pc, ![c].left = Rtt]
    /\ UNCHANGED <<record, probeLock, force, healthy>>

\* _total_failure: every attempted path degraded (_run_path caught its error or timeout).
total_failure(degraded) == Paths \subseteq degraded

\* hybrid_search returns; a partial degradation is a success.
SearchReturns(c, degraded) ==
    /\ healthy => degraded = {}
    /\ Outcome(c, IF total_failure(degraded) THEN "failed" ELSE "succeeded")

\* wait_for gives up, or the search raises.
SearchFails(c) ==
    /\ ~healthy
    /\ Outcome(c, "failed")

\* CancelledError: nothing is recorded, and a probe's lock stays.
SearchCancelled(c) ==
    /\ ~healthy
    /\ call[c].pc # "idle"
    /\ call' = [call EXCEPT ![c] = IdleCall]
    /\ UNCHANGED <<record, probeLock, force, healthy>>

\* record_success, record_failure.
Record(c) ==
    /\ call[c].pc \in {"succeeded", "failed"}
    /\ IF call[c].pc = "failed" THEN FailureScript(call[c].probe)
                                ELSE SuccessScript(call[c].probe)
    /\ call' = [call EXCEPT ![c] = IdleCall]
    /\ UNCHANGED <<force, healthy>>

\* A Redis error while recording is logged and the outcome is lost.
RecordLost(c) ==
    /\ ~healthy
    /\ call[c].pc \in {"succeeded", "failed"}
    /\ call' = [call EXCEPT ![c] = IdleCall]
    /\ UNCHANGED <<record, probeLock, force, healthy>>

-----------------------------------------------------------------------------
(* Administration and the environment. *)

\* reset, and a Redis that lost its data.
Reset ==
    /\ ~healthy
    /\ state' = "closed" /\ failures' = 0 /\ cooling' = 0 /\ probeLock' = 0
    /\ UNCHANGED <<call, force, healthy>>

\* force_open is two commands: SET the record, DEL the lock.
ForceOpenSet ==
    /\ ~healthy
    /\ force.pc = "idle"
    /\ state' = "open" /\ failures' = Threshold /\ cooling' = Cooldown
    /\ force' = [pc |-> "del", left |-> Rtt]
    /\ UNCHANGED <<probeLock, call, healthy>>

ForceOpenDel ==
    /\ force.pc = "del"
    /\ probeLock' = 0
    /\ force' = [pc |-> "idle", left |-> 0]
    /\ UNCHANGED <<record, call, healthy>>

Less(n) == IF n = 0 THEN 0 ELSE n - 1

\* Time passes, unless a timeout is due.
Tick ==
    /\ \A c \in Calls : call[c].pc # "idle" => call[c].left > 0
    /\ force.pc # "idle" => force.left > 0
    /\ cooling' = Less(cooling)
    /\ probeLock' = Less(probeLock)
    /\ call' = [c \in Calls |-> [call[c] EXCEPT !.left = Less(@)]]
    /\ force' = [force EXCEPT !.left = Less(@)]
    /\ UNCHANGED <<state, failures, healthy>>

\* From here on searches succeed, Redis answers and nobody hangs up.
Heal ==
    /\ ~healthy
    /\ healthy' = TRUE
    /\ UNCHANGED <<record, probeLock, call, force>>

CallNext(c) ==
    \/ Allow(c) \/ AllowBlind(c)
    \/ \E degraded \in SUBSET Paths : SearchReturns(c, degraded)
    \/ SearchFails(c) \/ SearchCancelled(c)
    \/ Record(c) \/ RecordLost(c)

Next ==
    \/ \E c \in Calls : CallNext(c)
    \/ Reset \/ ForceOpenSet \/ ForceOpenDel \/ Tick \/ Heal

Spec == Init /\ [][Next]_vars

\* The clock runs, searches end within their budget and outcomes arrive, and
\* chat turns keep asking for memory.
Fairness ==
    /\ WF_vars(Tick) /\ WF_vars(ForceOpenDel)
    /\ \A c \in Calls :
        /\ WF_vars(Allow(c)) /\ WF_vars(Record(c))
        /\ WF_vars(\E degraded \in SUBSET Paths : SearchReturns(c, degraded))

FairSpec == Spec /\ Fairness

-----------------------------------------------------------------------------
(* Properties. *)

\* Every variable keeps to the record, the lock and the calls it stands for.
TypeOK ==
    /\ state \in States
    /\ failures \in 0..Threshold
    /\ cooling \in 0..Cooldown
    /\ probeLock \in 0..ProbeTtl
    /\ call \in [Calls -> Call]
    /\ force \in [pc : {"idle", "del"}, left : 0..Rtt]
    /\ healthy \in BOOLEAN

Probing(x) == x.pc # "idle" /\ x.probe

\* The probe is single-flight (_ALLOW_LUA): two calls never probe at once,
\* whatever stragglers, lost answers, operators and timeouts do to the lock.
SingleProbe == \A c, d \in Calls : Probing(call[c]) /\ Probing(call[d]) => c = d

\* A circuit that counted Threshold failures in a row is not closed
\* (_FAILURE_LUA), and one that is not closed has counted them.
ThresholdOpens == state = "closed" <=> failures < Threshold

\* The straggler guard of _SUCCESS_LUA: apart from a reset, only the success
\* of a call that was elected as probe closes a circuit that is not closed.
ClosedByProbe ==
    [][state # "closed" /\ state' = "closed" =>
          Reset \/ \E c \in Calls : Probing(call[c]) /\ call[c].pc = "succeeded" /\ Record(c)]_vars

\* Once the outage is over the circuit closes for good: neither a probe that
\* was cancelled nor a lock without an owner leaves it half open forever.
Recovers == <>healthy => <>[](state = "closed")
=============================================================================
