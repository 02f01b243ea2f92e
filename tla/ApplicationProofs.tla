------------------------- MODULE ApplicationProofs -------------------------
(* Proofs about the retrieval breaker: the probe is single-flight, the       *)
(* threshold opens the circuit, and only a probe closes it, for every number *)
(* of calls and every timing that meets BreakerAssumption. And then about    *)
(* the pieces of module MCApplication together: what is proved of each piece *)
(* alone holds when it runs, or rests, beside the others.                    *)
EXTENDS MCApplication, ChatProofs, CaptureWorkerProofs, PoolProofs, TLAPS

(* The breaker. *)

\* How long a call can still be in flight.
Rem(x) == x.left + (IF x.pc = "search" THEN Rtt ELSE 0)

\* The timers of a call never exceed what it was given.
CallBounds ==
    \A c \in Calls : Rem(call[c]) <= Flight /\ (call[c].pc # "search" => call[c].left <= Rtt)

\* What keeps a second probe out while one is in flight: the circuit is
\* closed, or it cools down or is locked for longer than the probe can last.
Covered ==
    \A c \in Calls : Probing(call[c]) =>
        \/ state = "closed"
        \/ state = "open" /\ Rem(call[c]) < cooling
        \/ state = "half_open" /\ Rem(call[c]) < probeLock

\* force_open deletes the lock before the circuit it opened can half-open.
ForceCovered ==
    force.pc = "del" => state = "closed" \/ (state = "open" /\ force.left < cooling)

IInv == TypeOK /\ ThresholdOpens /\ CallBounds /\ Covered /\ ForceCovered /\ SingleProbe

\* The constants as numbers.
LEMMA Numbers ==
    /\ Threshold \in Nat /\ Cooldown \in Nat /\ ProbeTtl \in Nat
    /\ Budget \in Nat /\ Rtt \in Nat /\ Flight \in Nat
    /\ Threshold >= 1 /\ Flight < ProbeTtl /\ Flight < Cooldown
    /\ Flight = Rtt + Budget + Rtt
BY BreakerAssumption DEF Flight

\* A call with its timer or its outcome changed is a call.
LEMMA CallUpdate ==
    ASSUME NEW x \in Call, NEW n \in 0..Flight
    PROVE  /\ \A pc \in {"succeeded", "failed"} : [x EXCEPT !.pc = pc, !.left = n] \in Call
           /\ [x EXCEPT !.left = n] \in Call
<1>1. \A pc \in {"succeeded", "failed"} : [x EXCEPT !.pc = pc, !.left = n] \in Call
    BY DEF Call
<1>2. [x EXCEPT !.left = n] \in Call
    BY DEF Call
<1>. QED
    BY <1>1, <1>2

\* Nobody probes when allow would elect a probe: the lock is free and the
\* cooldown is over.
LEMMA NobodyProbes ==
    ASSUME IInv, Gate = "half_open", state = "open" \/ probeLock = 0
    PROVE  \A c \in Calls : ~Probing(call[c])
<1> SUFFICES ASSUME NEW c \in Calls, Probing(call[c]) PROVE FALSE
    OBVIOUS
<1>1. call[c] \in Call /\ cooling \in Nat /\ probeLock \in Nat
    BY Numbers DEF IInv, TypeOK
<1>2. Rem(call[c]) \in Nat
    BY <1>1, Numbers DEF Rem, Call
<1>3. state = "open" => cooling = 0
    BY DEF Gate
<1>. QED
    BY <1>1, <1>2, <1>3 DEF IInv, Covered, Gate

\* The initial state satisfies the invariant.
LEMMA BreakerInitInv == Init => IInv
<1>. SUFFICES ASSUME Init PROVE IInv
    OBVIOUS
<1>. USE Numbers
<1>0. IdleCall \in Call
    BY DEF IdleCall, Call
<1>1. TypeOK
  <2>1. healthy \in BOOLEAN
    BY DEF Init
  <2>2. force \in [pc : {"idle", "del"}, left : 0..Rtt]
    BY DEF Init
  <2>3. /\ state \in States /\ failures \in 0..Threshold
        /\ cooling \in 0..Cooldown /\ probeLock \in 0..ProbeTtl
    BY DEF Init, States
  <2>4. call \in [Calls -> Call]
    BY <1>0 DEF Init
  <2>. QED
    BY <2>1, <2>2, <2>3, <2>4 DEF TypeOK
<1>2. ThresholdOpens /\ ForceCovered
    BY DEF Init, ThresholdOpens, ForceCovered
<1>3. CallBounds /\ Covered /\ SingleProbe
    BY DEF Init, CallBounds, Covered, SingleProbe, Probing, Rem, IdleCall
<1>. QED
    BY <1>1, <1>2, <1>3 DEF IInv

\* Admission as a probe.
LEMMA AllowInv ==
    ASSUME IInv, NEW c \in Calls, Allow(c)
    PROVE  IInv'
<1>. USE Numbers
<1>0. TypeOK /\ ThresholdOpens /\ CallBounds /\ Covered /\ ForceCovered /\ SingleProbe
    BY DEF IInv
<1>1. CASE Verdict = "probe"
  <2>1. Gate = "half_open" /\ probeLock = 0
    BY <1>1 DEF Verdict
  <2>2. \A d \in Calls : ~Probing(call[d])
    BY <2>1, NobodyProbes
  <2>3. /\ call' = [call EXCEPT ![c] = [pc |-> "search", probe |-> TRUE, left |-> Rtt + Budget]]
        /\ state' = "half_open" /\ probeLock' = ProbeTtl
        /\ UNCHANGED <<failures, cooling, force, healthy>>
    BY <1>1, <2>1 DEF Allow, AllowScript, Admit
  <2>4. TypeOK'
    BY <1>0, <2>3 DEF TypeOK, Call, States
  <2>5. ThresholdOpens' /\ ForceCovered'
    BY <1>0, <2>1, <2>3 DEF ThresholdOpens, ForceCovered, Gate, TypeOK
  <2>6. CallBounds'
    BY <1>0, <2>3 DEF CallBounds, Rem, TypeOK
  <2>7. \A d \in Calls : Probing(call'[d]) => d = c
    BY <2>2, <2>3 DEF Probing
  <2>8. Covered' /\ SingleProbe'
    BY <1>0, <2>3, <2>7 DEF Covered, SingleProbe, Rem, TypeOK
  <2>. QED
    BY <2>4, <2>5, <2>6, <2>8 DEF IInv
<1>2. CASE Verdict = "allowed"
  <2>1. state = "closed"
    BY <1>2 DEF Verdict, Gate
  <2>2. /\ call' = [call EXCEPT ![c] = [pc |-> "search", probe |-> FALSE, left |-> Rtt + Budget]]
        /\ UNCHANGED <<state, failures, cooling, probeLock, force, healthy>>
    BY <1>2, <2>1 DEF Allow, AllowScript, Admit, Gate
  <2>3. TypeOK'
    BY <1>0, <2>2 DEF TypeOK, Call
  <2>4. ThresholdOpens' /\ ForceCovered' /\ Covered'
    BY <1>0, <2>1, <2>2 DEF ThresholdOpens, ForceCovered, Covered
  <2>5. CallBounds'
    BY <1>0, <2>2 DEF CallBounds, Rem, TypeOK
  <2>6. SingleProbe'
    BY <1>0, <2>2 DEF SingleProbe, Probing, TypeOK
  <2>. QED
    BY <2>3, <2>4, <2>5, <2>6 DEF IInv
<1>3. CASE Verdict = "blocked"
  <2>1. /\ state' = Gate
        /\ UNCHANGED <<call, failures, cooling, probeLock, force, healthy>>
    BY <1>3 DEF Allow, AllowScript
  <2>2. CASE state' = state
    BY <1>0, <2>1, <2>2 DEF IInv, TypeOK, ThresholdOpens, CallBounds, Covered,
                            ForceCovered, SingleProbe, Probing, Rem
  <2>3. CASE state' # state
    <3>1. state = "open" /\ cooling = 0 /\ state' = "half_open"
      BY <2>1, <2>3 DEF Gate
    <3>2. \A d \in Calls : ~Probing(call[d])
      BY <3>1, NobodyProbes DEF Gate
    <3>3. force.pc # "del"
      BY <1>0, <3>1 DEF ForceCovered, TypeOK
    <3>. QED
      BY <1>0, <2>1, <3>1, <3>2, <3>3 DEF IInv, TypeOK, ThresholdOpens, CallBounds, Covered,
                            ForceCovered, SingleProbe, Probing, Rem, States
  <2>. QED
    BY <2>2, <2>3
<1>. QED
    BY <1>1, <1>2, <1>3 DEF Verdict

\* Admission without an answer from Redis.
LEMMA AllowBlindInv ==
    ASSUME IInv, NEW c \in Calls, AllowBlind(c)
    PROVE  IInv'
<1>. USE Numbers
<1>0. TypeOK /\ ThresholdOpens /\ CallBounds /\ Covered /\ ForceCovered /\ SingleProbe
    BY DEF IInv
<1>1. /\ call' = [call EXCEPT ![c] = [pc |-> "search", probe |-> FALSE, left |-> Rtt + Budget]]
      /\ UNCHANGED <<failures, cooling, force, healthy>>
    BY DEF AllowBlind, AllowScript, Admit, record
<1>2. CallBounds'
    BY <1>0, <1>1 DEF CallBounds, Rem, TypeOK
<1>3. \A d \in Calls : Probing(call'[d]) => Probing(call[d]) /\ Rem(call'[d]) = Rem(call[d])
    BY <1>0, <1>1 DEF Probing, Rem, TypeOK
<1>4. SingleProbe'
    BY <1>0, <1>3 DEF SingleProbe
<1>5. call' \in [Calls -> Call]
    BY <1>0, <1>1 DEF TypeOK, Call
<1>6. CASE UNCHANGED <<record, probeLock>>
  <2>1. TypeOK'
    BY <1>0, <1>1, <1>5, <1>6 DEF TypeOK, record
  <2>2. ThresholdOpens' /\ ForceCovered' /\ Covered'
    BY <1>0, <1>1, <1>3, <1>6 DEF ThresholdOpens, ForceCovered, Covered, record
  <2>. QED
    BY <1>2, <1>4, <2>1, <2>2 DEF IInv
<1>7. CASE AllowScript /\ state' = state /\ probeLock' = probeLock
    BY <1>0, <1>1, <1>6, <1>7 DEF AllowScript, record
<1>8. CASE AllowScript /\ (state' # state \/ probeLock' # probeLock)
  <2>1. state' = "half_open" /\ Gate = "half_open" /\ (state = "open" \/ probeLock = 0)
    BY <1>8 DEF AllowScript, Verdict, Gate
  <2>2. \A d \in Calls : ~Probing(call[d])
    BY <2>1, NobodyProbes
  <2>3. force.pc # "del"
    BY <1>0, <2>1 DEF ForceCovered, Gate, TypeOK
  <2>4. TypeOK'
    BY <1>0, <1>1, <1>5, <1>8, <2>1 DEF TypeOK, AllowScript, States
  <2>5. ThresholdOpens' /\ ForceCovered' /\ Covered'
    BY <1>0, <1>1, <1>3, <2>1, <2>2, <2>3
       DEF ThresholdOpens, ForceCovered, Covered, Gate
  <2>. QED
    BY <1>2, <1>4, <2>4, <2>5 DEF IInv
<1>. QED
    BY <1>6, <1>7, <1>8 DEF AllowBlind

\* The end of a search shortens the call.
LEMMA OutcomeInv ==
    ASSUME IInv, NEW c \in Calls, NEW pc \in {"succeeded", "failed"}, Outcome(c, pc)
    PROVE  IInv'
<1>. USE Numbers
<1>0. TypeOK /\ ThresholdOpens /\ CallBounds /\ Covered /\ ForceCovered /\ SingleProbe
    BY DEF IInv
<1>1. /\ call[c].pc = "search"
      /\ call' = [call EXCEPT ![c] = [call[c] EXCEPT !.pc = pc, !.left = Rtt]]
      /\ UNCHANGED <<state, failures, cooling, probeLock, force, healthy>>
    BY <1>0 DEF Outcome, record, TypeOK
<1>2. [call[c] EXCEPT !.pc = pc, !.left = Rtt] \in Call
  <2>1. Rtt \in 0..Flight /\ call[c] \in Call
    BY <1>0 DEF TypeOK
  <2>. QED
    BY <2>1, CallUpdate
<1>3. TypeOK'
    BY <1>0, <1>1, <1>2 DEF TypeOK
<1>4. \A d \in Calls : /\ Probing(call'[d]) => Probing(call[d])
                       /\ Rem(call'[d]) \in Nat /\ Rem(call[d]) \in Nat /\ Rem(call'[d]) <= Rem(call[d])
    BY <1>0, <1>1 DEF Probing, Rem, TypeOK, Call
<1>5. CallBounds'
  <2>1. /\ call'[c].pc # "search" /\ call'[c].left = Rtt
        /\ \A d \in Calls \ {c} : call'[d] = call[d]
    BY <1>0, <1>1 DEF TypeOK, Call
  <2>2. ASSUME NEW d \in Calls PROVE Rem(call'[d]) <= Flight
    <3>1. Rem(call[d]) <= Flight
      BY <1>0 DEF CallBounds
    <3>2. Rem(call'[d]) \in Nat /\ Rem(call[d]) \in Nat /\ Rem(call'[d]) <= Rem(call[d])
      BY <1>4
    <3>. QED
      BY <3>1, <3>2
  <2>. QED
    BY <1>0, <2>1, <2>2 DEF CallBounds
<1>6. ThresholdOpens' /\ ForceCovered' /\ SingleProbe'
    BY <1>0, <1>1, <1>4 DEF ThresholdOpens, ForceCovered, SingleProbe
<1>7. Covered'
    BY <1>0, <1>1, <1>4 DEF Covered, TypeOK
<1>. QED
    BY <1>3, <1>5, <1>6, <1>7 DEF IInv

\* A call that ends leaves the others as they are.
LEMMA CallEnds ==
    ASSUME IInv, NEW c \in Calls, call' = [call EXCEPT ![c] = IdleCall]
    PROVE  /\ call' \in [Calls -> Call]
           /\ CallBounds' /\ SingleProbe'
           /\ \A d \in Calls : Probing(call'[d]) => Probing(call[d]) /\ Rem(call'[d]) = Rem(call[d])
           /\ \A d \in Calls : Probing(call'[d]) => Rem(call'[d]) \in 0..Flight
<1>. USE Numbers
<1>0. call \in [Calls -> Call] /\ CallBounds /\ SingleProbe
    BY DEF IInv, TypeOK
<1>1. IdleCall \in Call
    BY DEF IdleCall, Call
<1>2. \A d \in Calls : Probing(call'[d]) => Probing(call[d]) /\ Rem(call'[d]) = Rem(call[d])
    BY <1>0 DEF Probing, Rem, IdleCall
<1>3. CallBounds'
    BY <1>0 DEF CallBounds, Rem, IdleCall
<1>4. \A d \in Calls : Rem(call[d]) \in 0..Flight
    BY <1>0 DEF Rem, CallBounds, Call
<1>. QED
    BY <1>0, <1>1, <1>2, <1>3, <1>4 DEF SingleProbe

\* A call that ends without a word leaves the record as it is.
LEMMA SilentInv ==
    ASSUME IInv, NEW c \in Calls, call' = [call EXCEPT ![c] = IdleCall],
           UNCHANGED <<record, probeLock, force, healthy>>
    PROVE  IInv'
BY CallEnds DEF IInv, TypeOK, record, ThresholdOpens, ForceCovered, Covered

\* An outcome is recorded.
LEMMA RecordInv ==
    ASSUME IInv, NEW c \in Calls, Record(c)
    PROVE  IInv'
<1>. USE Numbers
<1>0. TypeOK /\ ThresholdOpens /\ Covered /\ ForceCovered
    BY DEF IInv
<1>1. call' = [call EXCEPT ![c] = IdleCall] /\ UNCHANGED <<force, healthy>>
    BY DEF Record
<1>2. CASE call[c].pc = "failed"
  <2>1. FailureScript(call[c].probe)
    BY <1>2 DEF Record
  <2>2. TypeOK'
    <3>1. healthy' \in BOOLEAN
      BY <1>0, <1>1 DEF TypeOK
    <3>2. call' \in [Calls -> Call] /\ force' \in [pc : {"idle", "del"}, left : 0..Rtt]
      BY <1>0, <1>1, CallEnds DEF TypeOK
    <3>3. /\ state' \in States /\ failures' \in 0..Threshold
          /\ cooling' \in 0..Cooldown /\ probeLock' \in 0..ProbeTtl
      BY <1>0, <2>1 DEF TypeOK, FailureScript, States
    <3>. QED
      BY <3>1, <3>2, <3>3 DEF TypeOK
  <2>3. \/ state' = "open" /\ cooling' = Cooldown /\ failures' = Threshold
        \/ /\ state' = state /\ cooling' = cooling /\ state # "half_open"
           /\ failures' = failures + 1 /\ failures + 1 < Threshold
    BY <1>0, <2>1 DEF FailureScript, TypeOK
  <2>4. ThresholdOpens'
    BY <1>0, <2>3 DEF ThresholdOpens, TypeOK
  <2>5. ForceCovered'
    BY <1>0, <1>1, <2>3 DEF ForceCovered, TypeOK
  <2>6. Covered'
    <3>. SUFFICES ASSUME NEW d \in Calls, Probing(call'[d])
                  PROVE  \/ state' = "closed"
                         \/ state' = "open" /\ Rem(call'[d]) < cooling'
      BY DEF Covered
    <3>1. Probing(call[d]) /\ Rem(call'[d]) = Rem(call[d]) /\ Rem(call'[d]) \in 0..Flight
      BY <1>1, CallEnds
    <3>. QED
      BY <1>0, <2>3, <3>1 DEF Covered
  <2>. QED
    BY <1>1, <2>2, <2>4, <2>5, <2>6, CallEnds DEF IInv
<1>3. CASE call[c].pc = "succeeded"
  <2>1. SuccessScript(call[c].probe)
    BY <1>3 DEF Record
  <2>2. CASE UNCHANGED <<record, probeLock>>
    BY <1>1, <2>2, SilentInv
  <2>3. CASE state' = "closed" /\ failures' = 0 /\ cooling' = 0 /\ probeLock' = 0
    <3>1. TypeOK'
      <4>1. healthy' \in BOOLEAN
        BY <1>0, <1>1 DEF TypeOK
      <4>2. call' \in [Calls -> Call] /\ force' \in [pc : {"idle", "del"}, left : 0..Rtt]
        BY <1>0, <1>1, CallEnds DEF TypeOK
      <4>. QED
        BY <2>3, <4>1, <4>2 DEF TypeOK, States
    <3>2. ThresholdOpens' /\ ForceCovered' /\ Covered'
      BY <2>3 DEF ThresholdOpens, ForceCovered, Covered
    <3>. QED
      BY <1>1, <3>1, <3>2, CallEnds DEF IInv
  <2>. QED
    BY <2>1, <2>2, <2>3 DEF SuccessScript
<1>. QED
    BY <1>2, <1>3 DEF Record

\* Time runs for all timers alike.
LEMMA TickInv ==
    ASSUME IInv, Tick
    PROVE  IInv'
<1>. USE Numbers
<1>0. TypeOK /\ ThresholdOpens /\ CallBounds /\ Covered /\ ForceCovered /\ SingleProbe
    BY DEF IInv
<1>1. \A n \in Nat : Less(n) \in Nat /\ Less(n) <= n /\ (n > 0 => Less(n) = n - 1)
    BY DEF Less
<1>2. \A c \in Calls : call'[c] = [call[c] EXCEPT !.left = Less(@)]
    BY DEF Tick
<1>3. \A c \in Calls : /\ call[c].left \in 0..Flight
                       /\ call'[c].pc = call[c].pc /\ call'[c].probe = call[c].probe
                       /\ call'[c].left = Less(call[c].left)
                       /\ call'[c] \in Call
  <2>. TAKE c \in Calls
  <2>1. call[c] \in Call /\ call[c].left \in 0..Flight
    BY <1>0 DEF TypeOK, Call
  <2>2. Less(call[c].left) \in 0..Flight
    BY <1>1, <2>1
  <2>3. call'[c] \in Call
    <3>1. [call[c] EXCEPT !.left = Less(call[c].left)] \in Call
      BY <2>1, <2>2, CallUpdate
    <3>. QED
      BY <1>2, <3>1
  <2>. QED
    BY <1>2, <2>1, <2>3 DEF Call
<1>4. call' \in [Calls -> Call]
    BY <1>3 DEF Tick
<1>5. /\ force' = [force EXCEPT !.left = Less(@)]
      /\ force.left \in 0..Rtt /\ Less(force.left) \in 0..Rtt
    BY <1>0, <1>1 DEF TypeOK, Tick
<1>6. TypeOK'
  <2>1. cooling' \in 0..Cooldown /\ probeLock' \in 0..ProbeTtl
    BY <1>0, <1>1 DEF TypeOK, Tick
  <2>. QED
    BY <1>0, <1>4, <1>5, <2>1 DEF TypeOK, Tick
<1>7. \A c \in Calls : /\ Rem(call[c]) \in Nat /\ Rem(call'[c]) \in Nat /\ Rem(call'[c]) <= Rem(call[c])
                       /\ Probing(call'[c]) => Probing(call[c]) /\ Rem(call'[c]) = Rem(call[c]) - 1
    BY <1>0, <1>1, <1>3 DEF Rem, Probing, TypeOK, Tick
<1>8. CallBounds'
  <2>1. ASSUME NEW c \in Calls PROVE Rem(call'[c]) <= Flight
    <3>1. Rem(call[c]) <= Flight
      BY <1>0 DEF CallBounds
    <3>2. Rem(call'[c]) \in Nat /\ Rem(call[c]) \in Nat /\ Rem(call'[c]) <= Rem(call[c])
      BY <1>7
    <3>. QED
      BY <3>1, <3>2
  <2>2. \A c \in Calls : call'[c].pc # "search" => call'[c].left <= Rtt
    BY <1>0, <1>1, <1>3 DEF CallBounds
  <2>. QED
    BY <2>1, <2>2 DEF CallBounds
<1>9. ThresholdOpens' /\ SingleProbe'
  <2>1. \A c \in Calls : Probing(call'[c]) => Probing(call[c])
    BY <1>7
  <2>. QED
    BY <1>0, <2>1 DEF ThresholdOpens, SingleProbe, Tick
<1>10. Covered'
  <2>. SUFFICES ASSUME NEW c \in Calls, Probing(call'[c])
                PROVE  \/ state' = "closed"
                       \/ state' = "open" /\ Rem(call'[c]) < cooling'
                       \/ state' = "half_open" /\ Rem(call'[c]) < probeLock'
    BY DEF Covered
  <2>1. Probing(call[c]) /\ Rem(call[c]) \in Nat /\ Rem(call'[c]) = Rem(call[c]) - 1
    BY <1>7
  <2>2. \/ state = "closed"
        \/ state = "open" /\ Rem(call[c]) < cooling
        \/ state = "half_open" /\ Rem(call[c]) < probeLock
    BY <1>0, <2>1 DEF Covered
  <2>3. cooling \in Nat /\ probeLock \in Nat
    BY <1>0 DEF TypeOK
  <2>. QED
    BY <1>1, <2>1, <2>2, <2>3 DEF Tick
<1>11. ForceCovered'
    BY <1>0, <1>1, <1>5 DEF ForceCovered, Tick, TypeOK
<1>. QED
    BY <1>6, <1>8, <1>9, <1>10, <1>11 DEF IInv

\* reset, force_open and the end of the outage.
LEMMA AdminInv ==
    ASSUME IInv, Reset \/ ForceOpenSet \/ ForceOpenDel \/ Heal
    PROVE  IInv'
<1>. USE Numbers
<1>0. TypeOK /\ ThresholdOpens /\ CallBounds /\ Covered /\ ForceCovered /\ SingleProbe
    BY DEF IInv
<1>1. call' = call
    BY DEF Reset, ForceOpenSet, ForceOpenDel, Heal
<1>2. CallBounds' /\ SingleProbe'
    BY <1>0, <1>1 DEF CallBounds, SingleProbe, Probing, Rem
<1>3. \A c \in Calls : Probing(call'[c]) = Probing(call[c]) /\ Rem(call'[c]) = Rem(call[c]) /\ Rem(call[c]) \in 0..Flight
    BY <1>0, <1>1 DEF Probing, Rem, TypeOK, CallBounds, Call
<1>4. CASE Reset
    BY <1>0, <1>2, <1>4 DEF IInv, Reset, TypeOK, States, ThresholdOpens, Covered, ForceCovered
<1>5. CASE ForceOpenSet
    BY <1>0, <1>2, <1>3, <1>5
       DEF IInv, ForceOpenSet, TypeOK, States, ThresholdOpens, Covered, ForceCovered
<1>6. CASE ForceOpenDel
    BY <1>0, <1>2, <1>3, <1>6
       DEF IInv, ForceOpenDel, TypeOK, record, ThresholdOpens, Covered, ForceCovered
<1>7. CASE Heal
    BY <1>0, <1>2, <1>3, <1>7
       DEF IInv, Heal, TypeOK, record, ThresholdOpens, Covered, ForceCovered
<1>. QED
    BY <1>4, <1>5, <1>6, <1>7

\* Every step keeps the invariant: a probe in flight is covered by the lock or by
\* the cooldown for as long as it can last.
LEMMA BreakerNextInv == ASSUME IInv, [Next]_vars PROVE IInv'
<1>1. CASE UNCHANGED vars
  BY <1>1 DEF vars, record, IInv, TypeOK, ThresholdOpens, CallBounds, Covered,
                    ForceCovered, SingleProbe, Probing, Rem
<1>2. ASSUME NEW c \in Calls, CallNext(c) PROVE IInv'
  <2>1. CASE Allow(c)
    BY <2>1, AllowInv
  <2>2. CASE AllowBlind(c)
    BY <2>2, AllowBlindInv
  <2>3. CASE \E degraded \in SUBSET Paths : SearchReturns(c, degraded)
    BY <2>3, OutcomeInv DEF SearchReturns
  <2>4. CASE SearchFails(c)
    BY <2>4, OutcomeInv DEF SearchFails
  <2>5. CASE SearchCancelled(c) \/ RecordLost(c)
    BY <2>5, SilentInv DEF SearchCancelled, RecordLost
  <2>6. CASE Record(c)
    BY <2>6, RecordInv
  <2>. QED
    BY <1>2, <2>1, <2>2, <2>3, <2>4, <2>5, <2>6 DEF CallNext
<1>3. CASE Tick
  BY <1>3, TickInv
<1>4. CASE Reset \/ ForceOpenSet \/ ForceOpenDel \/ Heal
  BY <1>4, AdminInv
<1>. QED
  BY <1>1, <1>2, <1>3, <1>4 DEF Next

\* IInv holds in every state of the breaker.
THEOREM Invariance == Spec => []IInv
BY BreakerInitInv, BreakerNextInv, PTL DEF Spec

\* Every reachable state is well typed.
THEOREM TypeCorrect == Spec => []TypeOK
BY Invariance, PTL DEF IInv

\* Two calls never probe at once (_ALLOW_LUA's SET NX PX).
THEOREM ProbeSingleFlight == Spec => []SingleProbe
BY Invariance, PTL DEF IInv

\* The circuit is closed exactly while fewer than Threshold failures in a row
\* were counted (_FAILURE_LUA).
THEOREM OpensAtThreshold == Spec => []ThresholdOpens
BY Invariance, PTL DEF IInv

\* Only a probe's success, or a reset, closes a circuit that is not closed
\* (the straggler guard of _SUCCESS_LUA).
THEOREM OnlyProbesClose == Spec => ClosedByProbe
<1>1. ASSUME Next, state # "closed", state' = "closed"
      PROVE  Reset \/ \E c \in Calls : Probing(call[c]) /\ call[c].pc = "succeeded" /\ Record(c)
  <2>1. ASSUME NEW c \in Calls, CallNext(c) PROVE Record(c)
    BY <1>1, <2>1 DEF CallNext, Allow, AllowBlind, AllowScript, Gate, SearchReturns, SearchFails,
                      Outcome, SearchCancelled, RecordLost, record
  <2>2. ASSUME NEW c \in Calls, Record(c) PROVE Probing(call[c]) /\ call[c].pc = "succeeded"
    BY <1>1, <2>2 DEF Record, FailureScript, SuccessScript, Probing, record
  <2>. QED
    BY <1>1, <2>1, <2>2 DEF Next, Tick, ForceOpenSet, ForceOpenDel, Heal, record
<1>2. ASSUME [Next]_vars, state # "closed", state' = "closed"
      PROVE  Next
    BY <1>2 DEF vars, record
<1>. QED
    BY <1>1, <1>2, PTL DEF Spec, ClosedByProbe

-----------------------------------------------------------------------------
(* The weekly job. *)

\* A run is given a list of subjects.
LEMMA TargetsListed == Targets \subseteq Seq(Subjects)
<1>1. Eligible \subseteq Subjects /\ IsFiniteSet(Eligible)
  BY WeeksAssumption, FS_Subset DEF Eligible
<1> DEFINE n == Fewer(MaxSubjects, Cardinality(Eligible))
<1>2. n \in Nat
  BY <1>1, FS_CardinalityType, WeeksAssumption DEF Fewer
<1>3. Targets \subseteq [1 .. n -> Eligible]
  BY DEF Targets
<1> HIDE DEF n
<1> QED BY <1>1, <1>2, <1>3

\* The state of the weekly job has its type.
LEMMA WeeksTypes == WeeksSpec => []WeeksTypeOK
<1>1. WeeksInit => WeeksTypeOK
  BY WeeksAssumption DEF WeeksInit, WeeksTypeOK
<1>2. WeeksTypeOK /\ [WeeksNext]_weeksVars => WeeksTypeOK'
  <2> SUFFICES ASSUME WeeksTypeOK, [WeeksNext]_weeksVars PROVE WeeksTypeOK'
    OBVIOUS
  <2>0. /\ MaxRows \in Nat /\ MaxSummaries \in Nat /\ MinCluster \in Nat /\ RebuildLimit \in Nat
        /\ \A s \in Subjects : open[s] \in Nat /\ fresh[s] \in Nat /\ stale[s] \in Nat
    BY WeeksAssumption DEF WeeksTypeOK
  <2>1. todo # <<>> => Head(todo) \in Subjects /\ Tail(todo) \in Seq(Subjects)
    BY DEF WeeksTypeOK
  <2>2. <<>> \in Seq(Subjects)
    OBVIOUS
  <2>3. CASE UNCHANGED weeksVars
    BY <2>3 DEF WeeksTypeOK, weeksVars
  <2>4. ASSUME NEW s \in Subjects, RowAdded(s) \/ RowDeleted(s) PROVE WeeksTypeOK'
    <3>1. open' \in [Subjects -> 0 .. MaxRows]
      <4>1. open \in [Subjects -> 0 .. MaxRows]
        BY DEF WeeksTypeOK
      <4>2. CASE RowAdded(s)
        BY <2>0, <4>1, <4>2 DEF RowAdded
      <4>3. CASE RowDeleted(s)
        BY <2>0, <4>1, <4>3 DEF RowDeleted
      <4> QED BY <2>4, <4>2, <4>3
    <3>2. fresh' = fresh /\ stale' = stale /\ todo' = todo /\ step' = step /\ report' = report
      BY <2>4 DEF RowAdded, RowDeleted
    <3> QED BY <3>1, <3>2 DEF WeeksTypeOK
  <2>5. ASSUME NEW s \in Subjects, SourceChanged(s) PROVE WeeksTypeOK'
    BY <2>0, <2>5 DEF WeeksTypeOK, SourceChanged
  <2>6. ASSUME NEW s \in Subjects, SummaryDeleted(s) PROVE WeeksTypeOK'
    <3>1. /\ open' = open /\ todo' = todo /\ step' = step /\ report' = report
          /\ open \in [Subjects -> 0 .. MaxRows] /\ todo \in Seq(Subjects)
          /\ step \in {"rebuild", "select", "write"} /\ report \in {"ok", "barren", "error"}
      BY <2>6 DEF SummaryDeleted, WeeksTypeOK
    <3>2. /\ fresh \in [Subjects -> 0 .. MaxSummaries] /\ stale \in [Subjects -> 0 .. MaxSummaries]
          /\ \A t \in Subjects : fresh[t] + stale[t] <= MaxSummaries
      BY DEF WeeksTypeOK
    <3>3. /\ fresh' \in [Subjects -> 0 .. MaxSummaries] /\ stale' \in [Subjects -> 0 .. MaxSummaries]
          /\ \A t \in Subjects : fresh'[t] + stale'[t] <= MaxSummaries
      <4>1. CASE fresh[s] > 0 /\ fresh' = [fresh EXCEPT ![s] = @ - 1] /\ stale' = stale
        BY <2>0, <3>2, <4>1
      <4>2. CASE stale[s] > 0 /\ stale' = [stale EXCEPT ![s] = @ - 1] /\ fresh' = fresh
        BY <2>0, <3>2, <4>2
      <4> QED BY <2>6, <4>1, <4>2 DEF SummaryDeleted
    <3> QED BY <3>1, <3>3 DEF WeeksTypeOK
  <2>7. CASE JobFires
    BY <2>7, TargetsListed DEF WeeksTypeOK, JobFires
  <2>8. CASE Rebuild
    <3> DEFINE s == Head(todo)
               retired == Fewer(stale[s], RebuildLimit)
    <3>1. s \in Subjects /\ retired \in Nat /\ retired <= stale[s]
      BY <2>0, <2>1, <2>8 DEF Rebuild, At, Fewer
    <3>2. PICK n \in open[s] .. MaxRows : open' = [open EXCEPT ![s] = n]
      BY <2>8 DEF Rebuild
    <3>3. stale' = [stale EXCEPT ![s] = @ - retired]
      BY <2>8 DEF Rebuild
    <3>4. UNCHANGED <<fresh, todo, report>> /\ step' = "select"
      BY <2>8 DEF Rebuild
    <3> HIDE DEF s, retired
    <3>5. open' \in [Subjects -> 0 .. MaxRows]
      BY <2>0, <3>1, <3>2 DEF WeeksTypeOK
    <3>6. /\ stale' \in [Subjects -> 0 .. MaxSummaries]
          /\ \A t \in Subjects : fresh'[t] + stale'[t] <= MaxSummaries
      BY <2>0, <3>1, <3>3, <3>4 DEF WeeksTypeOK
    <3> QED BY <3>4, <3>5, <3>6 DEF WeeksTypeOK
  <2>9. CASE Summarised
    <3> DEFINE s == Head(todo)
    <3>1. /\ s \in Subjects /\ fresh[s] + stale[s] < MaxSummaries
          /\ fresh' = [fresh EXCEPT ![s] = @ + 1]
          /\ UNCHANGED <<stale, report>> /\ todo' = Tail(todo) /\ step' = "rebuild"
      BY <2>1, <2>9 DEF Summarised, At, NextSubject
    <3>2. PICK n \in 0 .. open[s] : open' = [open EXCEPT ![s] = n]
      BY <2>9 DEF Summarised
    <3>3. Tail(todo) \in Seq(Subjects)
      BY <2>1, <2>9 DEF Summarised, At
    <3> HIDE DEF s
    <3>4. open' \in [Subjects -> 0 .. MaxRows]
      BY <2>0, <3>1, <3>2 DEF WeeksTypeOK
    <3>5. /\ fresh' \in [Subjects -> 0 .. MaxSummaries]
          /\ \A t \in Subjects : fresh'[t] + stale'[t] <= MaxSummaries
      BY <2>0, <3>1 DEF WeeksTypeOK
    <3> QED BY <3>1, <3>3, <3>4, <3>5 DEF WeeksTypeOK
  <2>10. CASE Selected \/ Unclustered \/ Barren \/ Raises
    BY <2>1, <2>2, <2>10 DEF WeeksTypeOK, Selected, Unclustered, Barren, Raises, NextSubject, At
  <2> QED BY <2>3, <2>4, <2>5, <2>6, <2>7, <2>8, <2>9, <2>10 DEF WeeksNext, VisitStep
<1> QED BY <1>1, <1>2, PTL DEF WeeksSpec

-----------------------------------------------------------------------------
(* The process. *)

\* A request answered before is in a state the invariant of requests allows.
LEMMA AnsweredInv == AnsweredBefore => ChatInv
<1> SUFFICES ASSUME AnsweredBefore PROVE ChatInv
  OBVIOUS
<1>1. TypeInv
  BY ChatAssumption DEF AnsweredBefore, TypeInv, GraphTask, Prompts, NoMeta, Over
<1>2. PhaseInv /\ HeaderInv /\ CaptureInv
  BY DEF AnsweredBefore, PhaseInv, HeaderInv, CaptureInv, GraphFinished, Early, Over
<1>3. QueueInv
  BY DEF AnsweredBefore, QueueInv, Reading
<1> QED BY <1>1, <1>2, <1>3 DEF ChatInv

\* A step of the process is a step or a stutter of each piece: no piece touches
\* what another keeps.
LEMMA AppSteps ==
    ASSUME [AppNext]_appVars
    PROVE  /\ [ChatNext]_chatVars /\ [WorkerNext]_workerVars
           /\ [PoolNext]_poolVars /\ [Next]_vars /\ [WeeksNext]_weeksVars
<1>1. CASE UNCHANGED appVars
  BY <1>1 DEF appVars
<1>2. CASE Chatting /\ ChatNext
  BY <1>2 DEF Chatting
<1>3. CASE Working /\ WorkerNext
  BY <1>3 DEF Working
<1>4. CASE Pooling /\ PoolNext
  BY <1>4 DEF Pooling
<1>5. CASE Breaking /\ Next
  BY <1>5 DEF Breaking
<1>6. CASE Reflecting /\ WeeksNext
  BY <1>6 DEF Reflecting
<1> QED
  BY <1>1, <1>2, <1>3, <1>4, <1>5, <1>6
     DEF AppNext, ChatNext, Graph, Serve, WorkerNext, Consume, PoolNext, Step, Next, CallNext,
         WeeksNext, VisitStep

\* The request in a process obeys the invariant of requests, whether it runs or
\* was answered before.
LEMMA AppChat == AppFairSpec => []ChatInv
<1>1. AppInit => ChatInv
  BY AnsweredInv, ChatInitInv DEF AppInit
<1>2. ChatInv /\ [AppNext]_appVars => ChatInv'
  BY AppSteps, ChatNextInv
<1> QED BY <1>1, <1>2, PTL DEF AppFairSpec

\* Whatever runs beside them, the capture worker, the registry of pools, the
\* breaker and the weekly job behave as they do alone.
THEOREM PartsRun == AppFairSpec => WorkerSpec /\ PoolSpec /\ Spec /\ WeeksSpec
<1>1. AppInit => WorkerInit /\ PoolInit /\ Init /\ WeeksInit
  BY DEF AppInit
<1>2. [AppNext]_appVars => /\ [WorkerNext]_workerVars /\ [PoolNext]_poolVars /\ [Next]_vars
                           /\ [WeeksNext]_weeksVars
  BY AppSteps
<1> QED BY <1>1, <1>2, PTL DEF AppFairSpec, WorkerSpec, PoolSpec, Spec, WeeksSpec

\* The state of every piece keeps its type in the process: no queue beyond
\* CAPTURE_QUEUE_MAXSIZE, no pool opened without its lock, no timer beyond what it
\* was set to.
THEOREM AppTyped == AppFairSpec => []AppTypeOK
<1>1. ChatTypeOK /\ WorkerTypeOK /\ PoolTypeOK /\ TypeOK /\ WeeksTypeOK => AppTypeOK
  BY DEF AppTypeOK
<1> QED BY <1>1, AppChat, ChatTyped, PartsRun, WorkerTypes, PoolTypes, TypeCorrect, WeeksTypes, PTL

\* What holds of each piece alone holds of it in the process.
THEOREM AppSafe ==
    AppFairSpec => /\ [](HeadersTellPrompt /\ CapturedWhole) /\ NothingPulledAfterAbort
                   /\ [](AtMostOnce /\ DrainComplete)
                   /\ [](NoOrphan /\ OnePoolPerDsn)
                   /\ [](SingleProbe /\ ThresholdOpens) /\ ClosedByProbe
<1>1. AppFairSpec => [](HeadersTellPrompt /\ CapturedWhole)
  BY AppChat, HeadersHold, CapturesHold, PTL
<1>2. AppFairSpec => NothingPulledAfterAbort
  <2>1. ChatInv /\ [AppNext]_appVars => [handler = "aborted" => produced' = produced]_chatVars
    BY AppSteps, AbortHolds
  <2> QED BY <2>1, AppChat, PTL DEF AppFairSpec, NothingPulledAfterAbort
<1> QED BY <1>1, <1>2, PartsRun, WritesOnce, DrainIsComplete, NoPoolIsLost, OnePool,
           ProbeSingleFlight, OpensAtThreshold, OnlyProbesClose, PTL
=============================================================================
