----------------------------- MODULE RateLimit -----------------------------
(* Two retry loops inside one time limit: embed_candidates (capture/embed.py)*)
(* retries a batch, each of its attempts is an llm.config.embed() call that  *)
(* retries 429s on its own (llm/config.py, _with_rate_limit_retry), and      *)
(* run_capture cancels the whole after CAPTURE_TIMEOUT_SECONDS.              *)
(* Time is in seconds and passes while a call is under way (litellm waits    *)
(* LLM_TIMEOUT_SECONDS for each of its own LLM_MAX_RETRIES + 1 tries) and    *)
(* while a loop sleeps.                                                      *)
EXTENDS Lists

CONSTANTS
    EmbedDelays,    \* EMBED_RETRY_DELAYS
    CallAttempts,   \* LLM_RATE_LIMIT_ATTEMPTS
    BaseDelay,      \* LLM_RATE_LIMIT_BASE_DELAY
    MaxDelay,       \* LLM_RATE_LIMIT_MAX_DELAY
    Budget,         \* CAPTURE_TIMEOUT_SECONDS
    Leads,          \* seconds the earlier nodes may have used
    CallTimes,      \* seconds one call may last, its own retries included
    RetryAfter,     \* values of the provider's own header
    Windows         \* how long the provider may be in trouble

ASSUME RateLimitAssumption ==
    /\ EmbedDelays \in Seq(Nat)
    /\ CallAttempts \in Nat \ {0} /\ BaseDelay \in Nat /\ MaxDelay \in Nat
    /\ Budget \in Nat /\ Leads \subseteq 0 .. Budget - 1 /\ CallTimes \subseteq Nat
    /\ RetryAfter \subseteq Nat /\ Windows \subseteq Nat

\* What the delays of embed_candidates add up to.
Schedule == Sums(EmbedDelays)[Len(EmbedDelays)]

VARIABLES
    clock,      \* seconds since run_capture began
    start,      \* when the first embedding call was made
    window,     \* how long the provider is in trouble from then on
    round,      \* of embed_candidates, from 0
    call,       \* of _with_rate_limit_retry inside that attempt, from 0
    result      \* "running", or how the capture ended

retryVars == <<clock, start, window, round, call, result>>

RetryTypeOK ==
    /\ clock \in 0 .. Budget /\ start \in Leads /\ window \in Windows
    /\ round \in 0 .. Len(EmbedDelays) /\ call \in 0 .. CallAttempts - 1
    /\ result \in {"running", "embedded", "exhausted", "rejected", "timeout"}

RetryInit ==
    /\ clock \in Leads /\ start = clock /\ window \in Windows
    /\ round = 0 /\ call = 0 /\ result = "running"

Lower(a, b) == IF a <= b THEN a ELSE b

\* Mutant of Backoff: the provider's wait is taken as it is.
BackoffTrusting(n) == {Lower(BaseDelay * 2^n, MaxDelay)} \union RetryAfter

\* The n-th wait of _with_rate_limit_retry: the provider's header if it sent
\* one, else exponential, in any case at most the ceiling.
Backoff(n) == {Lower(BaseDelay * 2^n, MaxDelay)} \union {Lower(r, MaxDelay) : r \in RetryAfter}

\* random.uniform(0, min(1.0, delay * 0.25)), in whole seconds.
Jitter(delay) == 0 .. (IF delay >= 4 THEN 1 ELSE 0)

\* A call, with the sleep after it, inside wait_for: it ends with the outcome
\* unless the time limit is first.
Spend(seconds, outcome) ==
    IF clock + seconds < Budget
    THEN clock' = clock + seconds /\ result' = outcome
    ELSE clock' = Budget /\ result' = "timeout"

\* A call that begins now meets the trouble.
Throttled == clock < start + window

\* The trouble is over before the call is, or one of its own retries gets through.
CallOk ==
    /\ result = "running"
    /\ \E time \in CallTimes : clock + time >= start + window /\ Spend(time, "embedded")
    /\ UNCHANGED <<start, window, round, call>>

\* A 429 with attempts left: sleep and call again.
CallAgain ==
    /\ result = "running" /\ Throttled /\ call < CallAttempts - 1
    /\ \E time \in CallTimes, delay \in Backoff(call) : \E more \in Jitter(delay) :
          Spend(time + delay + more, "running")
    /\ call' = call + 1
    /\ UNCHANGED <<start, window, round>>

DelaysLeft == round < Len(EmbedDelays)

\* An attempt of embed_candidates ends in a retryable error: it waits and sends
\* the batch again, or raises EmbeddingUnavailable when it has used every delay.
NextAttempt ==
    \E time \in CallTimes :
        \/ /\ DelaysLeft
           /\ Spend(time + EmbedDelays[round + 1], "running")
           /\ round' = round + 1 /\ call' = 0
           /\ UNCHANGED <<start, window>>
        \/ /\ ~DelaysLeft
           /\ Spend(time, "exhausted")
           /\ UNCHANGED <<start, window, round, call>>

\* The last 429 of a call. Its RuntimeError names the rate limit: is_retryable.
CallExhausted ==
    /\ result = "running" /\ Throttled /\ call = CallAttempts - 1
    /\ NextAttempt

\* A transport failure or a timeout while the provider is in trouble: the inner
\* loop raises it, the outer one retries it.
CallBroken ==
    /\ result = "running" /\ Throttled
    /\ NextAttempt

\* Any other error (a bad key, a bad request) is retried by neither.
CallRejected ==
    /\ result = "running"
    /\ \E time \in CallTimes : Spend(time, "rejected")
    /\ UNCHANGED <<start, window, round, call>>

RetryNext == CallOk \/ CallAgain \/ CallExhausted \/ CallBroken \/ CallRejected

RetrySpec == RetryInit /\ [][RetryNext]_retryVars

-----------------------------------------------------------------------------
(* Properties. *)

\* The longest sleeps of the two loops.
Waits == {MaxDelay + 1} \union {EmbedDelays[k] : k \in 1 .. Len(EmbedDelays)}

\* What is left of the time limit holds the trouble, one call and one sleep begun
\* before it ended, and the call that succeeds.
Room ==
    \A first, last \in CallTimes, wait \in Waits :
        start + window + first + wait + last <= Budget

\* The batch is given up only for trouble that outlasts all the delays of
\* embed_candidates, and not before (embed.py: the schedule "spans several
\* minute-windows"; "slow and complete rather than fast and lossy"). And as long as
\* the time limit has room for the trouble, it does not cost the turn either,
\* wherever Retry-After headers send the waits and however long calls hang:
\* no sleep of the two nested loops outlives the trouble by more than one ceiling.
TroubleSurvived ==
    /\ result = "exhausted" => Schedule < window /\ Schedule <= clock - start
    /\ Room => result # "timeout"
=============================================================================
