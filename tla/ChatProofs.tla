----------------------------- MODULE ChatProofs ----------------------------
(* Proofs about one chat request. Everything rests on what the event queue   *)
(* holds: the part of the graph's stream that the handler has not taken yet, *)
(* in order and without a gap, closed by the sentinel.                       *)
EXTENDS Chat, SequenceTheorems, TLAPS

Prompts == [ids : SUBSET Memories, degraded : BOOLEAN]
GraphTask == [pc : {"retrieve", "audit", "metadata", "respond", "finished"},
              exc : {"none", "error", "cancelled"}, cancel : BOOLEAN]
Events == {Meta(p) : p \in Prompts} \union {Token(k) : k \in Nat} \union {Done, END}

\* The handler or the body generator takes events.
Reading == {"first", "built", "body"}
\* Before the metadata event.
Early == {"retrieve", "audit", "metadata"}

Told == headers = MetadataHeaders(prompt)

TypeInv ==
    /\ request \in [stream : BOOLEAN, capture : BOOLEAN, blank : BOOLEAN, faults : BOOLEAN]
    /\ graph \in GraphTask /\ prompt \in Prompts
    /\ produced \in 0 .. MaxTokens /\ sent \in 0 .. MaxTokens
    /\ events \in Seq(Events)
    /\ handler \in Over \union {"first", "built", "body", "closing"}
    /\ client \in {"waiting", "gone", "served"}
    /\ captures \in Seq(0 .. MaxTokens) /\ audited \subseteq Memories

\* How far the handler and the graph can be apart.
PhaseInv ==
    /\ graph.pc \in Early => handler = "first" /\ produced = 0
    /\ handler \in Over => GraphFinished
    /\ graph.cancel = TRUE \/ graph.exc = "cancelled" => handler \in {"closing", "aborted"}
    /\ request.stream = FALSE => handler \in {"first", "error500", "complete"} /\ events = <<>>

HeaderInv ==
    /\ handler \in {"first", "error500"} => sent = 0
    /\ handler \notin {"first", "error500"} => Told

CaptureInv ==
    /\ handler # "complete" => captures = <<>>
    /\ handler = "complete" =>
          /\ graph.exc = "none" /\ sent = produced
          /\ captures = <<>> \/ (request.capture = TRUE /\ captures = <<produced>>)

-----------------------------------------------------------------------------
\* 1 while the metadata event is still to be taken.
Offset == IF handler = "first" THEN 1 ELSE 0

\* The events after the last token.
Ending == IF ~GraphFinished THEN 0 ELSE IF graph.exc = "none" THEN 2 ELSE 1

\* Of the stream metadata, token 1, token 2, ..., done, sentinel: what is left.
Replying ==
    LET n == Len(events) IN
    /\ n = Offset + (produced - sent) + Ending
    /\ handler = "first" => events[1] = Meta(prompt)
    /\ sent <= produced
    /\ \A k \in 1 .. produced - sent : events[Offset + k] = Token(sent + k)
    /\ GraphFinished => events[n] = END
    /\ GraphFinished /\ graph.exc = "none" => events[n - 1] = Done

QueueInv ==
    request.stream = TRUE /\ handler \in Reading =>
        \/ graph.pc \in Early /\ events = <<>>
        \/ handler = "first" /\ GraphFinished /\ graph.exc = "error" /\ events = <<END>>
        \/ ~(graph.pc \in Early) /\ Replying
        \/ /\ handler # "first" /\ GraphFinished /\ graph.exc = "none"
           /\ sent = produced /\ events = <<END>>

ChatInv == TypeInv /\ PhaseInv /\ HeaderInv /\ CaptureInv /\ QueueInv

-----------------------------------------------------------------------------
\* The kinds of events can be told apart.
LEMMA EventFacts ==
    /\ \A p \in Prompts : /\ Meta(p) \in Events /\ Meta(p).type = "metadata"
                          /\ Meta(p).data = p /\ Meta(p) # END
    /\ \A k \in Nat : /\ Token(k) \in Events /\ Token(k).type = "token"
                      /\ Token(k).data = k /\ Token(k) # END
    /\ Done \in Events /\ Done.type = "done" /\ Done # END
    /\ END \in Events /\ END.type = "end"
<1>1. \A p \in Prompts : Meta(p).type = "metadata" /\ Meta(p).data = p
  BY DEF Meta
<1>2. \A k \in Nat : Token(k).type = "token" /\ Token(k).data = k
  BY DEF Token
<1>3. Done.type = "done" /\ END.type = "end"
  BY DEF Done, END
<1>4. Done \in Events /\ END \in Events /\ (\A k \in Nat : Token(k) \in Events)
      /\ \A p \in Prompts : Meta(p) \in Events
  BY DEF Events
<1> QED BY <1>1, <1>2, <1>3, <1>4

\* The rest of a queue.
LEMMA TailFacts ==
    ASSUME NEW q \in Seq(Events), q # <<>>
    PROVE  /\ Head(q) = q[1] /\ Len(q) \in Nat /\ Len(q) > 0
           /\ Tail(q) \in Seq(Events) /\ Len(Tail(q)) = Len(q) - 1
           /\ \A k \in 1 .. Len(q) - 1 : Tail(q)[k] = q[k + 1]
  OBVIOUS

\* One event, and a last event with the sentinel, put into a queue.
LEMMA ConcatFacts ==
    ASSUME NEW q \in Seq(Events), NEW d \in Events, NEW e \in Events
    PROVE  /\ Len(q) \in Nat /\ (Len(q) = 0 => q = <<>>) /\ <<>> \o <<e>> = <<e>>
           /\ q \o <<e>> \in Seq(Events) /\ Len(q \o <<e>>) = Len(q) + 1
           /\ (q \o <<e>>)[Len(q) + 1] = e
           /\ \A k \in 1 .. Len(q) : (q \o <<e>>)[k] = q[k]
           /\ q \o (<<d>> \o <<e>>) \in Seq(Events)
           /\ Len(q \o (<<d>> \o <<e>>)) = Len(q) + 2
           /\ (q \o (<<d>> \o <<e>>))[Len(q) + 1] = d
           /\ (q \o (<<d>> \o <<e>>))[Len(q) + 2] = e
           /\ \A k \in 1 .. Len(q) : (q \o (<<d>> \o <<e>>))[k] = q[k]
<1>1. <<e>> \in Seq(Events) /\ <<d>> \in Seq(Events) /\ Len(<<e>>) = 1 /\ Len(<<d>>) = 1
      /\ <<e>>[1] = e /\ <<d>>[1] = d
  OBVIOUS
<1>2. Len(q) \in Nat /\ (Len(q) = 0 => q = <<>>)
  OBVIOUS
<1>3. /\ q \o <<e>> \in Seq(Events) /\ Len(q \o <<e>>) = Len(q) + 1
      /\ \A k \in 1 .. Len(q) + 1 :
            (q \o <<e>>)[k] = IF k <= Len(q) THEN q[k] ELSE <<e>>[k - Len(q)]
  BY <1>1, ConcatProperties
<1>4. /\ <<d>> \o <<e>> \in Seq(Events) /\ Len(<<d>> \o <<e>>) = 2
      /\ (<<d>> \o <<e>>)[1] = d /\ (<<d>> \o <<e>>)[2] = e
  BY <1>1, ConcatProperties
<1> DEFINE de == <<d>> \o <<e>>
<1> HIDE DEF de
<1>5. de \in Seq(Events) /\ Len(de) = 2 /\ de[1] = d /\ de[2] = e
  BY <1>4 DEF de
<1>6. /\ q \o de \in Seq(Events) /\ Len(q \o de) = Len(q) + 2
      /\ \A k \in 1 .. Len(q) + 2 :
            (q \o de)[k] = IF k <= Len(q) THEN q[k] ELSE de[k - Len(q)]
  <2>1. /\ q \o de \in Seq(Events) /\ Len(q \o de) = Len(q) + Len(de)
        /\ \A k \in 1 .. Len(q) + Len(de) :
              (q \o de)[k] = IF k <= Len(q) THEN q[k] ELSE de[k - Len(q)]
    BY <1>5, ConcatProperties
  <2> QED BY <1>5, <2>1
<1>7. <<>> \o <<e>> = <<e>>
  BY <1>1, ConcatEmptySeq
<1>8. (q \o <<e>>)[Len(q) + 1] = e /\ \A k \in 1 .. Len(q) : (q \o <<e>>)[k] = q[k]
  BY <1>1, <1>2, <1>3
<1>9. /\ (q \o de)[Len(q) + 1] = d /\ (q \o de)[Len(q) + 2] = e
      /\ \A k \in 1 .. Len(q) : (q \o de)[k] = q[k]
  BY <1>2, <1>5, <1>6
<1> QED BY <1>2, <1>3, <1>6, <1>7, <1>8, <1>9 DEF de

\* The graph task moves on, with or without an exception.
LEMMA GraphTypes ==
    ASSUME graph \in GraphTask,
           NEW pc \in {"retrieve", "audit", "metadata", "respond", "finished"},
           NEW exc \in {"none", "error", "cancelled"}
    PROVE  /\ [graph EXCEPT !.pc = pc] \in GraphTask
           /\ [graph EXCEPT !.pc = pc].pc = pc /\ [graph EXCEPT !.pc = pc].exc = graph.exc
           /\ [graph EXCEPT !.pc = pc].cancel = graph.cancel
           /\ [graph EXCEPT !.pc = pc, !.exc = exc] \in GraphTask
           /\ [graph EXCEPT !.pc = pc, !.exc = exc].pc = pc
           /\ [graph EXCEPT !.pc = pc, !.exc = exc].exc = exc
           /\ [graph EXCEPT !.pc = pc, !.exc = exc].cancel = graph.cancel
  BY DEF GraphTask

\* The handler waits and nothing has been produced.
LEMMA ChatInitInv == ChatInit => ChatInv
<1> SUFFICES ASSUME ChatInit PROVE ChatInv
  OBVIOUS
<1>1. graph \in GraphTask /\ graph.pc = "retrieve" /\ graph.exc = "none" /\ graph.cancel = FALSE
  BY DEF ChatInit, GraphTask
<1>2. prompt \in Prompts
  BY DEF ChatInit, NoMeta, Prompts
<1>3. TypeInv
  BY <1>1, <1>2, ChatAssumption DEF ChatInit, TypeInv
<1>4. PhaseInv
  BY <1>1 DEF ChatInit, PhaseInv, Over, GraphFinished
<1>5. HeaderInv /\ CaptureInv
  BY DEF ChatInit, HeaderInv, CaptureInv
<1>6. QueueInv
  BY <1>1 DEF ChatInit, QueueInv, Early
<1> QED BY <1>3, <1>4, <1>5, <1>6 DEF ChatInv

-----------------------------------------------------------------------------
(* The graph's steps. *)

\* Before the metadata event nothing has left the graph.
LEMMA EarlyStep ==
    ASSUME ChatInv, RetrievalFailed \/ Retrieved \/ ReadAudit
    PROVE  ChatInv'
<1>1. /\ graph \in GraphTask /\ prompt \in Prompts
      /\ graph.pc \in {"retrieve", "audit"}
      /\ UNCHANGED <<request, produced, events, client, handler, headers, sent, captures>>
  BY DEF RetrievalFailed, Retrieved, ReadAudit, handlerVars, ChatInv, TypeInv
<1>2. PICK pc \in {"audit", "metadata"} : graph' = [graph EXCEPT !.pc = pc]
  BY DEF RetrievalFailed, Retrieved, ReadAudit
<1>3. /\ graph' \in GraphTask /\ graph'.pc \in Early /\ graph'.exc = graph.exc
      /\ graph'.cancel = graph.cancel
  BY <1>1, <1>2, GraphTypes DEF Early
<1>4. prompt' \in Prompts /\ audited' \subseteq Memories
  <2>1. audited \subseteq Memories
    BY DEF ChatInv, TypeInv
  <2>2. CASE RetrievalFailed
    BY <2>1, <2>2 DEF RetrievalFailed, Prompts
  <2>3. CASE Retrieved
    BY <2>1, <2>3 DEF Retrieved, Prompts
  <2>4. CASE ReadAudit
    <3>1. prompt' = prompt /\ audited' \in {{}, prompt.ids}
      BY <2>4 DEF ReadAudit
    <3>2. prompt.ids \subseteq Memories
      BY <1>1 DEF Prompts
    <3> QED BY <1>1, <3>1, <3>2
  <2> QED BY <2>2, <2>3, <2>4
<1>5. handler = "first" /\ produced = 0 /\ graph.pc \in Early /\ graph.pc # "finished"
  BY <1>1 DEF ChatInv, PhaseInv, Early
<1>6. TypeInv'
  BY <1>1, <1>3, <1>4 DEF ChatInv, TypeInv
<1>7. PhaseInv'
  BY <1>1, <1>3, <1>5 DEF ChatInv, PhaseInv, Over
<1>8. HeaderInv' /\ CaptureInv'
  BY <1>1, <1>5 DEF ChatInv, HeaderInv, CaptureInv
<1>9. QueueInv'
  BY <1>1, <1>3, <1>5 DEF ChatInv, QueueInv, GraphFinished, Early
<1> QED BY <1>6, <1>7, <1>8, <1>9 DEF ChatInv

\* The metadata event is the first of the stream.
LEMMA MetadataStep == ASSUME ChatInv, EmitMetadata PROVE ChatInv'
<1>1. /\ graph \in GraphTask /\ graph.pc = "metadata" /\ graph' = [graph EXCEPT !.pc = "respond"]
      /\ prompt \in Prompts
      /\ UNCHANGED <<request, prompt, produced, client, audited, handler, headers, sent, captures>>
  BY DEF EmitMetadata, handlerVars, ChatInv, TypeInv
<1>2. graph' \in GraphTask /\ graph'.pc = "respond" /\ graph'.cancel = graph.cancel
      /\ graph'.exc = graph.exc
  BY <1>1, GraphTypes
<1>3. /\ handler = "first" /\ produced = 0 /\ sent = 0
  BY <1>1 DEF ChatInv, PhaseInv, HeaderInv, Early
<1>4. request.stream = TRUE => events' = <<Meta(prompt)>>
  <2> SUFFICES ASSUME request.stream = TRUE PROVE events' = <<Meta(prompt)>>
    OBVIOUS
  <2>1. events = <<>>
    BY <1>1, <1>3 DEF ChatInv, QueueInv, Reading, Early, GraphFinished
  <2>2. events' = events \o <<Meta(prompt)>>
    BY DEF EmitMetadata, Emit
  <2> QED BY <1>1, <2>1, <2>2, EventFacts, ConcatFacts
<1>5. request.stream = FALSE => events' = events
  BY DEF EmitMetadata, Emit
<1>6. Meta(prompt) \in Events /\ request.stream \in BOOLEAN
  BY <1>1, EventFacts DEF ChatInv, TypeInv
<1>7. events' \in Seq(Events)
  <2>1. events \in Seq(Events) /\ <<Meta(prompt)>> \in Seq(Events)
    BY <1>6 DEF ChatInv, TypeInv
  <2> QED BY <1>4, <1>5, <1>6, <2>1
<1>8. TypeInv'
  BY <1>1, <1>2, <1>7 DEF ChatInv, TypeInv
<1>9. PhaseInv'
  BY <1>1, <1>2, <1>3, <1>5 DEF ChatInv, PhaseInv, Over, Early
<1>10. HeaderInv' /\ CaptureInv'
  BY <1>1, <1>3 DEF ChatInv, HeaderInv, CaptureInv
<1>11. QueueInv'
  <2> SUFFICES ASSUME request.stream = TRUE PROVE Replying'
    BY <1>1, <1>2 DEF QueueInv, Early
  <2>1. Len(events') = 1 /\ events'[1] = Meta(prompt)
    BY <1>4, <1>6
  <2>2. ~GraphFinished' /\ Ending' = 0 /\ Offset' = 1
    BY <1>1, <1>2, <1>3 DEF GraphFinished, Ending, Offset
  <2> QED BY <1>1, <1>3, <2>1, <2>2 DEF Replying
<1> QED BY <1>8, <1>9, <1>10, <1>11 DEF ChatInv

\* A token is the last event so far.
LEMMA TokenStep == ASSUME ChatInv, EmitToken PROVE ChatInv'
<1>1. /\ graph.pc = "respond" /\ produced < MaxTokens /\ produced' = produced + 1
      /\ request.stream \in BOOLEAN /\ produced \in 0 .. MaxTokens /\ sent \in 0 .. MaxTokens
      /\ events \in Seq(Events)
      /\ UNCHANGED <<request, graph, prompt, client, audited, handler, headers, sent, captures>>
  BY DEF EmitToken, handlerVars, ChatInv, TypeInv
<1>2. produced + 1 \in 0 .. MaxTokens /\ produced + 1 \in Nat
  BY <1>1, ChatAssumption
<1>3. /\ request.stream = TRUE => events' = events \o <<Token(produced + 1)>>
      /\ request.stream = FALSE => events' = events
  BY <1>1 DEF EmitToken, Emit
<1>4. Token(produced + 1) \in Events
  BY <1>2, EventFacts
<1> DEFINE e == Token(produced + 1)
<1> HIDE DEF e
<1>5. /\ Len(events) \in Nat /\ events \o <<e>> \in Seq(Events)
      /\ Len(events \o <<e>>) = Len(events) + 1 /\ (events \o <<e>>)[Len(events) + 1] = e
      /\ \A k \in 1 .. Len(events) : (events \o <<e>>)[k] = events[k]
  BY <1>1, <1>4, ConcatFacts DEF e
<1>6. TypeInv'
  <2>1. events' \in Seq(Events)
    BY <1>1, <1>3, <1>5 DEF e
  <2> QED BY <1>1, <1>2, <2>1 DEF ChatInv, TypeInv
<1>7. handler \notin Over
  BY <1>1 DEF ChatInv, PhaseInv, GraphFinished
<1>8. PhaseInv'
  BY <1>1, <1>3, <1>7 DEF ChatInv, PhaseInv, Early
<1>9. HeaderInv' /\ CaptureInv'
  BY <1>1, <1>7 DEF ChatInv, HeaderInv, CaptureInv, Told, Over
<1>10. QueueInv'
  <2> SUFFICES ASSUME request.stream = TRUE, handler \in Reading PROVE Replying'
    BY <1>1 DEF QueueInv, Early
  <2>1. Replying /\ ~GraphFinished /\ ~GraphFinished'
    BY <1>1 DEF ChatInv, QueueInv, Early, GraphFinished
  <2>2. Ending = 0 /\ Ending' = 0 /\ Offset' = Offset /\ Offset \in {0, 1}
    BY <1>1, <2>1 DEF Ending, Offset
  <2>3. /\ Len(events) = Offset + (produced - sent) /\ sent <= produced
        /\ handler = "first" => events[1] = Meta(prompt) /\ Offset = 1
        /\ \A k \in 1 .. produced - sent : events[Offset + k] = Token(sent + k)
    BY <1>1, <2>1, <2>2 DEF Replying, Offset
  <2>4. Len(events') = Offset + (produced' - sent) /\ sent <= produced'
    <3>1. produced \in Nat /\ sent \in Nat /\ Len(events') = Len(events) + 1
      BY <1>1, <1>3, <1>5, ChatAssumption DEF e
    <3>2. produced' = produced + 1 /\ Offset \in Nat
      BY <1>1, <2>2
    <3> QED BY <2>3, <3>1, <3>2
  <2>5. handler = "first" => events'[1] = Meta(prompt)
    BY <1>1, <1>3, <1>5, <2>3 DEF e
  <2>6. \A k \in 1 .. produced' - sent : events'[Offset + k] = Token(sent + k)
    <3> TAKE k \in 1 .. produced' - sent
    <3>1. CASE k \in 1 .. produced - sent
      <4>1. Offset + k \in 1 .. Len(events)
        BY <1>1, <2>2, <2>3, <3>1
      <4>2. events'[Offset + k] = events[Offset + k]
        BY <1>3, <1>5, <4>1 DEF e
      <4> QED BY <2>3, <3>1, <4>2
    <3>2. CASE k = produced' - sent
      <4>1. Offset + k = Len(events) + 1 /\ sent + k = produced + 1
        BY <1>1, <2>2, <2>3, <3>2
      <4> QED BY <1>3, <1>5, <4>1 DEF e
    <3> QED BY <1>1, <3>1, <3>2
  <2>7. prompt' = prompt /\ sent' = sent /\ handler' = handler
    BY <1>1
  <2> QED BY <1>1, <2>1, <2>2, <2>4, <2>5, <2>6, <2>7 DEF Replying
<1> QED BY <1>6, <1>8, <1>9, <1>10 DEF ChatInv

\* A graph that ends leaves the sentinel behind, after the event that says the
\* completion is whole, if it is.
LEMMA FinishStep ==
    ASSUME ChatInv, EmitDone \/ GraphRaises \/ GraphCancelled
    PROVE  ChatInv'
<1>1. /\ graph \in GraphTask /\ graph.pc # "finished" /\ request.stream \in BOOLEAN
      /\ events \in Seq(Events) /\ produced \in 0 .. MaxTokens /\ sent \in 0 .. MaxTokens
      /\ UNCHANGED <<request, prompt, produced, client, audited, handler, headers, sent, captures>>
  BY DEF EmitDone, GraphRaises, GraphCancelled, handlerVars, ChatInv, TypeInv
<1>2. PICK exc \in {"none", "error", "cancelled"} :
         /\ graph' = [graph EXCEPT !.pc = "finished", !.exc = exc]
         /\ exc = "none" => graph.pc = "respond" /\ Emit(<<Done>> \o <<END>>)
         /\ exc # "none" => Emit(<<>> \o <<END>>)
         /\ exc = "cancelled" => graph.cancel = TRUE
         /\ exc = "error" => graph.pc \in {"respond", "retrieve"}
  <2>1. CASE EmitDone
    BY <2>1 DEF EmitDone, Finish
  <2>2. CASE GraphRaises
    BY <2>2 DEF GraphRaises, Finish
  <2>3. CASE GraphCancelled
    <3>1. graph.cancel = TRUE
      BY <1>1, <2>3 DEF GraphCancelled, GraphTask
    <3> QED BY <2>3, <3>1 DEF GraphCancelled, Finish
  <2> QED BY <2>1, <2>2, <2>3
<1>3. graph' \in GraphTask /\ graph'.pc = "finished" /\ graph'.exc = exc
      /\ graph'.cancel = graph.cancel
  <2> DEFINE g == [graph EXCEPT !.pc = "finished", !.exc = exc]
  <2>1. g \in GraphTask /\ g.pc = "finished" /\ g.exc = exc /\ g.cancel = graph.cancel
    BY <1>1 DEF GraphTask
  <2> HIDE DEF g
  <2> QED BY <1>2, <2>1 DEF g
<1>4. /\ END \in Events /\ Done \in Events /\ <<>> \o <<END>> = <<END>>
  BY <1>1, EventFacts, ConcatFacts
<1>5. /\ request.stream = FALSE => events' = events
      /\ request.stream = TRUE /\ exc = "none" => events' = events \o (<<Done>> \o <<END>>)
      /\ request.stream = TRUE /\ exc # "none" => events' = events \o <<END>>
  BY <1>2, <1>4 DEF Emit
<1>6. /\ Len(events) \in Nat
      /\ events \o <<END>> \in Seq(Events) /\ Len(events \o <<END>>) = Len(events) + 1
      /\ (events \o <<END>>)[Len(events) + 1] = END
      /\ \A k \in 1 .. Len(events) : (events \o <<END>>)[k] = events[k]
      /\ events \o (<<Done>> \o <<END>>) \in Seq(Events)
      /\ Len(events \o (<<Done>> \o <<END>>)) = Len(events) + 2
      /\ (events \o (<<Done>> \o <<END>>))[Len(events) + 1] = Done
      /\ (events \o (<<Done>> \o <<END>>))[Len(events) + 2] = END
      /\ \A k \in 1 .. Len(events) : (events \o (<<Done>> \o <<END>>))[k] = events[k]
  BY <1>1, <1>4, ConcatFacts
<1>7. TypeInv'
  <2>1. events' \in Seq(Events)
    BY <1>1, <1>5, <1>6
  <2> QED BY <1>1, <1>3, <2>1 DEF ChatInv, TypeInv
<1>8. handler \notin Over
  BY <1>1 DEF ChatInv, PhaseInv, GraphFinished
<1>9. PhaseInv'
  BY <1>1, <1>2, <1>3, <1>5 DEF ChatInv, PhaseInv, Early, GraphFinished
<1>10. HeaderInv' /\ CaptureInv'
  BY <1>1, <1>8 DEF ChatInv, HeaderInv, CaptureInv, Told, Over
<1>11. QueueInv'
  <2> SUFFICES ASSUME request.stream = TRUE, handler \in Reading
               PROVE  \/ handler = "first" /\ exc = "error" /\ events' = <<END>>
                      \/ Replying'
    BY <1>1, <1>3 DEF QueueInv, Early, GraphFinished
  <2>1. exc # "cancelled"
    BY <1>2 DEF ChatInv, PhaseInv, Reading
  <2>2. CASE graph.pc = "retrieve"
    <3>1. handler = "first" /\ events = <<>> /\ exc = "error"
      BY <1>1, <1>2, <2>1, <2>2 DEF ChatInv, PhaseInv, QueueInv, Early, GraphFinished
    <3> QED BY <1>4, <1>5, <3>1
  <2>3. CASE graph.pc = "respond"
    <3>1. Replying /\ ~GraphFinished /\ GraphFinished'
      BY <1>3, <2>3 DEF ChatInv, QueueInv, Early, GraphFinished
    <3>2. /\ Ending = 0 /\ Offset' = Offset /\ Offset \in {0, 1}
          /\ Ending' = IF exc = "none" THEN 2 ELSE 1
      BY <1>1, <1>3, <3>1 DEF Ending, Offset
    <3>3. /\ Len(events) = Offset + (produced - sent) /\ sent <= produced
          /\ handler = "first" => events[1] = Meta(prompt) /\ Offset = 1
          /\ \A k \in 1 .. produced - sent : events[Offset + k] = Token(sent + k)
      BY <1>1, <3>1, <3>2 DEF Replying, Offset
    <3>4. /\ Len(events') = Len(events) + Ending' /\ events'[Len(events')] = END
          /\ exc = "none" => events'[Len(events') - 1] = Done
          /\ \A k \in 1 .. Len(events) : events'[k] = events[k]
      <4>1. CASE exc = "none"
        BY <1>5, <1>6, <3>2, <4>1
      <4>2. CASE exc # "none"
        BY <1>5, <1>6, <3>2, <4>2
      <4> QED BY <4>1, <4>2
    <3>5. \A k \in 1 .. produced - sent : events'[Offset + k] = Token(sent + k)
      <4> TAKE k \in 1 .. produced - sent
      <4>1. Offset + k \in 1 .. Len(events)
        BY <1>1, <3>2, <3>3
      <4> QED BY <3>3, <3>4, <4>1
    <3>6. handler = "first" => events'[1] = Meta(prompt)
      BY <1>1, <3>3, <3>4
    <3>7. Len(events') = Offset + (produced - sent) + Ending'
      BY <3>3, <3>4
    <3> QED BY <1>1, <1>3, <3>1, <3>2, <3>3, <3>4, <3>5, <3>6, <3>7 DEF Replying
  <2> QED BY <1>2, <2>1, <2>2, <2>3
<1> QED BY <1>7, <1>9, <1>10, <1>11 DEF ChatInv

-----------------------------------------------------------------------------
(* The handler's steps. *)

\* The answer in one piece.
LEMMA JsonStep == ASSUME ChatInv, AnswerJson PROVE ChatInv'
<1>1. /\ request.stream = FALSE /\ handler = "first" /\ graph.pc = "finished"
      /\ captures = <<>> /\ graph.exc # "cancelled" /\ graph.cancel = FALSE /\ sent = 0
      /\ events = <<>> /\ request.capture \in BOOLEAN /\ produced \in 0 .. MaxTokens
      /\ UNCHANGED <<request, graph, prompt, produced, events, audited>>
  BY DEF AnswerJson, GraphFinished, ChatInv, TypeInv, GraphTask, PhaseInv, HeaderInv, CaptureInv
<1>2. CASE graph.exc = "none"
  <2>1. /\ handler' = "complete" /\ headers' = MetadataHeaders(prompt) /\ sent' = produced
        /\ client' \in {"gone", "served"}
        /\ captures' = <<>> \/ (request.capture = TRUE /\ captures' = <<produced>>)
    BY <1>1, <1>2 DEF AnswerJson, Captured
  <2>2. captures' \in Seq(0 .. MaxTokens)
    <3>1. <<produced>> \in Seq(0 .. MaxTokens) /\ <<>> \in Seq(0 .. MaxTokens)
      BY <1>1
    <3>2. captures' = <<>> \/ captures' = <<produced>>
      BY <2>1
    <3> QED BY <3>1, <3>2
  <2>3. TypeInv'
    BY <1>1, <2>1, <2>2 DEF ChatInv, TypeInv, Over
  <2>4. PhaseInv' /\ HeaderInv' /\ CaptureInv' /\ QueueInv'
    BY <1>1, <1>2, <2>1 DEF PhaseInv, HeaderInv, CaptureInv, QueueInv, Reading, Told,
       GraphFinished, Early
  <2> QED BY <2>3, <2>4 DEF ChatInv
<1>3. CASE graph.exc # "none"
  <2>1. handler' = "error500" /\ UNCHANGED <<headers, sent, captures, client>>
    BY <1>3 DEF AnswerJson
  <2>2. TypeInv'
    BY <1>1, <2>1 DEF ChatInv, TypeInv, Over
  <2>3. PhaseInv' /\ HeaderInv' /\ CaptureInv' /\ QueueInv'
    BY <1>1, <2>1 DEF PhaseInv, HeaderInv, CaptureInv, QueueInv, Reading, GraphFinished, Early
  <2> QED BY <2>2, <2>3 DEF ChatInv
<1> QED BY <1>2, <1>3

\* The first event is the metadata of the prompt, or the sentinel of a graph that
\* failed before there was one.
LEMMA FirstStep == ASSUME ChatInv, FirstEvent PROVE ChatInv'
<1>1. /\ request.stream = TRUE /\ handler = "first" /\ events # <<>> /\ events' = Tail(events)
      /\ events \in Seq(Events) /\ captures = <<>> /\ sent = 0 /\ prompt \in Prompts
      /\ produced \in Nat /\ graph.cancel = FALSE /\ graph.exc # "cancelled"
      /\ UNCHANGED <<request, graph, prompt, produced, sent, client, captures, audited>>
  <2>1. request.stream = TRUE
    BY DEF FirstEvent, ChatInv, TypeInv
  <2> QED BY <2>1, ChatAssumption DEF FirstEvent, ChatInv, TypeInv, GraphTask, PhaseInv, HeaderInv,
             CaptureInv
<1>2. /\ Head(events) = events[1] /\ Len(events) \in Nat /\ Len(events) > 0
      /\ Tail(events) \in Seq(Events) /\ Len(Tail(events)) = Len(events) - 1
      /\ \A k \in 1 .. Len(events) - 1 : Tail(events)[k] = events[k + 1]
  BY <1>1, TailFacts
<1>3. CASE GraphFinished /\ events = <<END>>
  <2>1. Head(events).type # "metadata"
    BY <1>2, <1>3, EventFacts
  <2>2. handler' = "error500" /\ headers' = headers
    BY <2>1 DEF FirstEvent
  <2>3. TypeInv'
    BY <1>1, <1>2, <2>2 DEF ChatInv, TypeInv, Over
  <2>4. PhaseInv' /\ HeaderInv' /\ CaptureInv' /\ QueueInv'
    BY <1>1, <1>3, <2>2 DEF PhaseInv, HeaderInv, CaptureInv, QueueInv, Reading, GraphFinished, Early
  <2> QED BY <2>3, <2>4 DEF ChatInv
<1>4. CASE ~(graph.pc \in Early) /\ Replying
  <2>1. /\ Len(events) = 1 + (produced - sent) + Ending /\ sent <= produced
        /\ events[1] = Meta(prompt)
        /\ \A k \in 1 .. produced - sent : events[1 + k] = Token(sent + k)
        /\ GraphFinished => events[Len(events)] = END
        /\ GraphFinished /\ graph.exc = "none" => events[Len(events) - 1] = Done
    BY <1>1, <1>4 DEF Replying, Offset
  <2>2. handler' = "built" /\ headers' = MetadataHeaders(prompt)
    <3>1. Head(events).type = "metadata" /\ Head(events).data = prompt
      BY <1>1, <1>2, <2>1, EventFacts
    <3> QED BY <3>1 DEF FirstEvent
  <2>3. TypeInv'
    BY <1>1, <1>2, <2>2 DEF ChatInv, TypeInv
  <2>4. PhaseInv' /\ HeaderInv' /\ CaptureInv'
    BY <1>1, <1>4, <2>2 DEF PhaseInv, HeaderInv, CaptureInv, GraphFinished, Over, Told
  <2>5. /\ Offset' = 0 /\ Ending' = Ending /\ Ending \in {0, 1, 2}
        /\ GraphFinished' <=> GraphFinished
        /\ GraphFinished => Ending >= 1
        /\ GraphFinished /\ graph.exc = "none" => Ending = 2
    BY <1>1, <2>2 DEF Offset, Ending, GraphFinished
  <2>6. Replying'
    <3>1. Len(events') = 0 + (produced - sent) + Ending
      BY <1>1, <1>2, <2>1, <2>5
    <3>2. \A k \in 1 .. produced - sent : events'[0 + k] = Token(sent + k)
      <4> TAKE k \in 1 .. produced - sent
      <4>1. k \in 1 .. Len(events) - 1
        BY <1>1, <2>1, <2>5
      <4>2. events'[k] = events[k + 1] /\ events[1 + k] = events[k + 1] /\ 0 + k = k
        BY <1>1, <1>2, <4>1
      <4> QED BY <2>1, <4>2
    <3>3. GraphFinished => events'[Len(events')] = END
      <4> SUFFICES ASSUME GraphFinished PROVE events'[Len(events')] = END
        OBVIOUS
      <4>1. Len(events') = Len(events) - 1 /\ Len(events) - 1 \in 1 .. Len(events) - 1
        BY <1>1, <1>2, <2>1, <2>5
      <4> QED BY <1>1, <1>2, <2>1, <4>1
    <3>4. GraphFinished /\ graph.exc = "none" => events'[Len(events') - 1] = Done
      <4> SUFFICES ASSUME GraphFinished, graph.exc = "none" PROVE events'[Len(events') - 1] = Done
        OBVIOUS
      <4>1. /\ Len(events') - 1 = Len(events) - 2 /\ Len(events) - 2 \in 1 .. Len(events) - 1
            /\ (Len(events) - 2) + 1 = Len(events) - 1
        BY <1>1, <1>2, <2>1, <2>5
      <4> QED BY <1>1, <1>2, <2>1, <4>1
    <3>5. handler' # "first" /\ sent' = sent /\ produced' = produced /\ graph' = graph
      BY <1>1, <2>2
    <3> QED BY <2>1, <2>5, <3>1, <3>2, <3>3, <3>4, <3>5 DEF Replying
  <2>7. QueueInv'
    BY <1>1, <1>4, <2>6 DEF QueueInv
  <2> QED BY <2>3, <2>4, <2>7 DEF ChatInv
<1>5. \/ GraphFinished /\ events = <<END>>
      \/ ~(graph.pc \in Early) /\ Replying
  BY <1>1 DEF ChatInv, QueueInv, Reading
<1> QED BY <1>3, <1>4, <1>5

\* The body takes a token, or the event that says the completion is whole.
LEMMA BodyStep == ASSUME ChatInv, BodyEvent PROVE ChatInv'
<1>1. /\ handler = "body" /\ events # <<>> /\ Head(events) # END /\ events' = Tail(events)
      /\ sent' = (IF Head(events).type = "token" THEN Head(events).data ELSE sent)
      /\ events \in Seq(Events) /\ captures = <<>> /\ Told
      /\ produced \in 0 .. MaxTokens /\ sent \in 0 .. MaxTokens
      /\ UNCHANGED <<request, graph, prompt, produced, handler, headers, client, captures, audited>>
  BY DEF BodyEvent, ChatInv, TypeInv, HeaderInv, CaptureInv
<1>2. /\ Head(events) = events[1] /\ Len(events) \in Nat /\ Len(events) > 0
      /\ Tail(events) \in Seq(Events) /\ Len(Tail(events)) = Len(events) - 1
      /\ \A k \in 1 .. Len(events) - 1 : Tail(events)[k] = events[k + 1]
  BY <1>1, TailFacts
<1>3. request.stream = TRUE
  BY <1>1 DEF ChatInv, PhaseInv, TypeInv
<1>4. Replying /\ ~(graph.pc \in Early)
  <2>1. events # <<END>>
    BY <1>1
  <2> QED BY <1>1, <1>3, <2>1 DEF ChatInv, QueueInv, Reading
<1>5. /\ Len(events) = (produced - sent) + Ending /\ sent <= produced
      /\ \A k \in 1 .. produced - sent : events[k] = Token(sent + k)
      /\ GraphFinished => events[Len(events)] = END
      /\ GraphFinished /\ graph.exc = "none" => events[Len(events) - 1] = Done
  <2>1. Offset = 0
    BY <1>1 DEF Offset
  <2>2. \A k \in 1 .. produced - sent : 0 + k = k
    BY <1>1, ChatAssumption
  <2>3. Ending \in {0, 1, 2} /\ produced \in Nat /\ sent \in Nat
    BY <1>1, ChatAssumption DEF Ending
  <2> QED BY <1>4, <2>1, <2>2, <2>3 DEF Replying
<1>6. /\ Offset' = 0 /\ Ending' = Ending /\ Ending \in {0, 1, 2}
      /\ GraphFinished' <=> GraphFinished
      /\ GraphFinished => Ending >= 1
      /\ ~GraphFinished => Ending = 0
      /\ Ending = 2 => GraphFinished /\ graph.exc = "none"
      /\ GraphFinished /\ graph.exc = "none" => Ending = 2
  BY <1>1 DEF Offset, Ending, GraphFinished
<1>7. CASE produced - sent > 0
  <2>1. 1 \in 1 .. produced - sent /\ sent + 1 \in Nat
    BY <1>1, <1>7, ChatAssumption
  <2>2. sent' = sent + 1
    <3>1. Head(events) = Token(sent + 1)
      BY <1>2, <1>5, <2>1
    <3> QED BY <1>1, <2>1, <3>1, EventFacts
  <2>3. Replying'
    <3>1. Len(events') = 0 + (produced - sent') + Ending /\ sent' <= produced
      BY <1>1, <1>2, <1>5, <1>6, <1>7, <2>2, ChatAssumption
    <3>2. \A k \in 1 .. produced - sent' : events'[0 + k] = Token(sent' + k)
      <4> TAKE k \in 1 .. produced - sent'
      <4>1. k + 1 \in 1 .. produced - sent /\ k \in 1 .. Len(events) - 1 /\ 0 + k = k
        BY <1>1, <1>5, <1>6, <2>2, ChatAssumption
      <4>2. events'[k] = events[k + 1] /\ events[k + 1] = Token(sent + (k + 1))
        BY <1>1, <1>2, <1>5, <4>1
      <4>3. sent + (k + 1) = sent' + k
        BY <1>1, <2>2, <4>1, ChatAssumption
      <4> QED BY <4>1, <4>2, <4>3
    <3>3. GraphFinished => events'[Len(events')] = END
      <4> SUFFICES ASSUME GraphFinished PROVE events'[Len(events')] = END
        OBVIOUS
      <4>1. Len(events') = Len(events) - 1 /\ Len(events) - 1 \in 1 .. Len(events) - 1
        BY <1>1, <1>2, <1>5, <1>6, <1>7, ChatAssumption
      <4> QED BY <1>1, <1>2, <1>5, <4>1
    <3>4. GraphFinished /\ graph.exc = "none" => events'[Len(events') - 1] = Done
      <4> SUFFICES ASSUME GraphFinished, graph.exc = "none" PROVE events'[Len(events') - 1] = Done
        OBVIOUS
      <4>1. /\ Len(events') - 1 = Len(events) - 2 /\ Len(events) - 2 \in 1 .. Len(events) - 1
            /\ (Len(events) - 2) + 1 = Len(events) - 1
        BY <1>1, <1>2, <1>5, <1>6, <1>7, ChatAssumption
      <4> QED BY <1>1, <1>2, <1>5, <4>1
    <3>5. handler' # "first" /\ produced' = produced /\ graph' = graph
      BY <1>1
    <3> QED BY <1>6, <3>1, <3>2, <3>3, <3>4, <3>5 DEF Replying
  <2>4. sent' \in 0 .. MaxTokens
    BY <1>1, <1>7, <2>2, ChatAssumption
  <2>5. QueueInv'
    BY <1>1, <1>4, <2>3 DEF QueueInv
  <2>6. TypeInv' /\ PhaseInv' /\ HeaderInv' /\ CaptureInv'
    BY <1>1, <1>2, <1>3, <2>4 DEF ChatInv, TypeInv, PhaseInv, HeaderInv, CaptureInv, Told,
       GraphFinished, Over
  <2> QED BY <2>5, <2>6 DEF ChatInv
<1>8. CASE produced - sent = 0
  <2>1. Len(events) = Ending /\ sent = produced
    BY <1>1, <1>5, <1>6, <1>8, ChatAssumption
  <2>2. Ending = 2 /\ events[1] = Done
    <3>1. Ending # 0
      BY <1>2, <2>1
    <3>2. Ending # 1
      BY <1>1, <1>2, <1>5, <1>6, <2>1
    <3> QED BY <1>5, <1>6, <2>1, <3>1, <3>2
  <2>3. sent' = sent
    BY <1>1, <1>2, <2>2, EventFacts
  <2>4. events' = <<END>>
    <3>1. GraphFinished /\ Len(events) = 2
      BY <1>6, <2>1, <2>2
    <3>2. events[2] = END
      BY <1>5, <3>1
    <3>3. 1 \in 1 .. Len(events) - 1 /\ Len(events) - 1 = 1 /\ 1 + 1 = 2
      BY <3>1
    <3>4. Len(events') = 1 /\ events'[1] = events[2] /\ events' \in Seq(Events)
      BY <1>1, <1>2, <3>3
    <3> QED BY <3>2, <3>4
  <2>5. QueueInv'
    BY <1>1, <1>6, <2>1, <2>2, <2>3, <2>4 DEF QueueInv
  <2>6. TypeInv' /\ PhaseInv' /\ HeaderInv' /\ CaptureInv'
    BY <1>1, <1>2, <1>3, <2>3 DEF ChatInv, TypeInv, PhaseInv, HeaderInv, CaptureInv, Told,
       GraphFinished, Over
  <2> QED BY <2>5, <2>6 DEF ChatInv
<1> QED BY <1>1, <1>5, <1>7, <1>8, ChatAssumption

\* At the sentinel every token has been taken; of a completion that ended well
\* the whole reply is then captured.
LEMMA BodyEnd == ASSUME ChatInv, BodyEnds PROVE ChatInv'
<1>1. /\ handler = "body" /\ events # <<>> /\ Head(events) = END /\ events' = Tail(events)
      /\ handler' = (IF graph.exc = "none" THEN "complete" ELSE "truncated")
      /\ client' \in {"gone", "served"}
      /\ captures' = (IF graph.exc = "none" THEN Captured(sent) ELSE captures)
      /\ events \in Seq(Events) /\ captures = <<>> /\ Told
      /\ produced \in 0 .. MaxTokens /\ sent \in 0 .. MaxTokens
      /\ graph.cancel = FALSE /\ graph.exc # "cancelled" /\ request.capture \in BOOLEAN
      /\ UNCHANGED <<request, graph, prompt, produced, headers, sent, audited>>
  BY DEF BodyEnds, ChatInv, TypeInv, GraphTask, PhaseInv, HeaderInv, CaptureInv
<1>2. Head(events) = events[1] /\ Len(events) \in Nat /\ Len(events) > 0 /\ Tail(events) \in Seq(Events)
  BY <1>1, TailFacts
<1>3. request.stream = TRUE
  BY <1>1 DEF ChatInv, PhaseInv, TypeInv
<1>4. GraphFinished /\ (graph.exc = "none" => sent = produced)
  <2>1. CASE ~(graph.pc \in Early) /\ Replying
    <3>1. Offset = 0 /\ produced \in Nat /\ sent \in Nat
      BY <1>1, ChatAssumption DEF Offset
    <3>2. produced = sent
      <4> SUFFICES ASSUME produced # sent PROVE FALSE
        OBVIOUS
      <4>1. 1 \in 1 .. produced - sent /\ 0 + 1 = 1 /\ sent + 1 \in Nat
        BY <2>1, <3>1 DEF Replying
      <4>2. events[1] = Token(sent + 1)
        BY <2>1, <3>1, <4>1 DEF Replying
      <4> QED BY <1>1, <1>2, <4>1, <4>2, EventFacts
    <3>3. Len(events) = Ending
      <4>1. Ending \in {0, 1, 2}
        BY DEF Ending
      <4> QED BY <2>1, <3>1, <3>2, <4>1 DEF Replying
    <3>4. GraphFinished
      BY <1>2, <3>3 DEF Ending
    <3> QED BY <3>2, <3>4
  <2>2. CASE GraphFinished /\ sent = produced
    BY <2>2
  <2> QED BY <1>1, <1>3, <2>1, <2>2 DEF ChatInv, QueueInv, Reading
<1>5. CASE graph.exc = "none"
  <2>1. captures' = <<>> \/ (request.capture = TRUE /\ captures' = <<produced>>)
    BY <1>1, <1>4, <1>5 DEF Captured
  <2>2. captures' \in Seq(0 .. MaxTokens)
    <3>1. <<produced>> \in Seq(0 .. MaxTokens) /\ <<>> \in Seq(0 .. MaxTokens)
      BY <1>1
    <3>2. captures' = <<>> \/ captures' = <<produced>>
      BY <2>1
    <3> QED BY <3>1, <3>2
  <2>3. TypeInv'
    BY <1>1, <1>2, <1>5, <2>2 DEF ChatInv, TypeInv, Over
  <2>4. PhaseInv' /\ HeaderInv' /\ CaptureInv' /\ QueueInv'
    BY <1>1, <1>3, <1>4, <1>5, <2>1 DEF PhaseInv, HeaderInv, CaptureInv, QueueInv, Reading, Told,
       GraphFinished, Early
  <2> QED BY <2>3, <2>4 DEF ChatInv
<1>6. CASE graph.exc # "none"
  <2>1. handler' = "truncated" /\ captures' = <<>>
    BY <1>1, <1>6
  <2>2. TypeInv'
    BY <1>1, <1>2, <2>1 DEF ChatInv, TypeInv, Over
  <2>3. PhaseInv' /\ HeaderInv' /\ CaptureInv' /\ QueueInv'
    BY <1>1, <1>3, <1>4, <2>1 DEF PhaseInv, HeaderInv, CaptureInv, QueueInv, Reading, Told,
       GraphFinished, Early
  <2> QED BY <2>2, <2>3 DEF ChatInv
<1> QED BY <1>5, <1>6

\* The client comes and goes; a body that is broken off takes no event any more.
LEMMA ClientStep ==
    ASSUME ChatInv, BodyStarts \/ Disconnect \/ BodyAborted \/ CloseReturns
    PROVE  ChatInv'
<1>1. graph \in GraphTask /\ graph.cancel \in BOOLEAN
  BY DEF ChatInv, TypeInv, GraphTask
<1>2. CASE BodyStarts
  <2>1. /\ handler = "built" /\ handler' = "body"
        /\ UNCHANGED <<request, graph, prompt, produced, events, headers, sent, client, captures,
                       audited>>
    BY <1>2 DEF BodyStarts
  <2>2. Replying => Replying'
    BY <2>1 DEF Replying, Offset, Ending, GraphFinished
  <2>3. QueueInv'
    BY <2>1, <2>2 DEF ChatInv, QueueInv, Reading, GraphFinished
  <2>4. TypeInv' /\ PhaseInv' /\ HeaderInv' /\ CaptureInv'
    BY <2>1 DEF ChatInv, TypeInv, PhaseInv, HeaderInv, CaptureInv, Told, GraphFinished, Over
  <2> QED BY <2>3, <2>4 DEF ChatInv
<1>3. CASE Disconnect
  <2>1. /\ client' = "gone"
        /\ UNCHANGED <<request, graph, prompt, produced, events, handler, headers, sent, captures,
                       audited>>
    BY <1>3 DEF Disconnect
  <2>2. Replying => Replying'
    BY <2>1 DEF Replying, Offset, Ending, GraphFinished
  <2>3. QueueInv'
    BY <2>1, <2>2 DEF ChatInv, QueueInv, GraphFinished
  <2>4. TypeInv' /\ PhaseInv' /\ HeaderInv' /\ CaptureInv'
    BY <2>1 DEF ChatInv, TypeInv, PhaseInv, HeaderInv, CaptureInv, Told, GraphFinished
  <2> QED BY <2>3, <2>4 DEF ChatInv
<1>4. CASE BodyAborted
  <2>1. /\ handler \in {"built", "body"}
        /\ handler' = (IF GraphFinished THEN "aborted" ELSE "closing")
        /\ graph' = [graph EXCEPT !.cancel = ~GraphFinished]
        /\ UNCHANGED <<request, prompt, produced, events, headers, sent, client, captures, audited>>
    BY <1>4 DEF BodyAborted
  <2>2. graph' \in GraphTask /\ graph'.pc = graph.pc /\ graph'.exc = graph.exc
    BY <1>1, <2>1 DEF GraphTask
  <2>3. TypeInv'
    BY <2>1, <2>2 DEF ChatInv, TypeInv, Over
  <2>4. PhaseInv'
    BY <2>1, <2>2 DEF ChatInv, PhaseInv, Over, GraphFinished
  <2>5. HeaderInv' /\ CaptureInv' /\ QueueInv'
    BY <2>1 DEF ChatInv, HeaderInv, CaptureInv, QueueInv, Reading, Told
  <2> QED BY <2>3, <2>4, <2>5 DEF ChatInv
<1>5. CASE CloseReturns
  <2>1. /\ handler = "closing" /\ GraphFinished /\ handler' = "aborted"
        /\ UNCHANGED <<request, graph, prompt, produced, events, headers, sent, client, captures,
                       audited>>
    BY <1>5 DEF CloseReturns
  <2>2. TypeInv' /\ PhaseInv' /\ HeaderInv' /\ CaptureInv' /\ QueueInv'
    BY <2>1 DEF ChatInv, TypeInv, PhaseInv, HeaderInv, CaptureInv, QueueInv, Reading, Told,
       GraphFinished, Over, Early
  <2> QED BY <2>2 DEF ChatInv
<1> QED BY <1>2, <1>3, <1>4, <1>5

-----------------------------------------------------------------------------
\* Every step keeps the invariant.
LEMMA ChatNextInv == ChatInv /\ [ChatNext]_chatVars => ChatInv'
<1> SUFFICES ASSUME ChatInv, [ChatNext]_chatVars PROVE ChatInv'
  OBVIOUS
<1>1. CASE UNCHANGED chatVars
  <2>1. Replying => Replying'
    BY <1>1 DEF chatVars, Replying, Offset, Ending, GraphFinished
  <2>2. QueueInv'
    BY <1>1, <2>1 DEF chatVars, ChatInv, QueueInv, GraphFinished
  <2>3. TypeInv' /\ PhaseInv' /\ HeaderInv' /\ CaptureInv'
    BY <1>1 DEF chatVars, ChatInv, TypeInv, PhaseInv, HeaderInv, CaptureInv, Told, GraphFinished
  <2> QED BY <2>2, <2>3 DEF ChatInv
<1> QED BY <1>1, EarlyStep, MetadataStep, TokenStep, FinishStep, JsonStep, FirstStep, BodyStep,
           BodyEnd, ClientStep DEF ChatNext, Graph, Serve

\* The invariant holds in every state of a request.
LEMMA ChatAlways == ChatSpec => []ChatInv
  BY ChatInitInv, ChatNextInv, PTL DEF ChatSpec

\* The invariant says what the type of a request's state says.
LEMMA ChatTyped == ChatInv => ChatTypeOK
  BY DEF ChatInv, TypeInv, ChatTypeOK, GraphTask, Prompts

\* A request's state has its type, for replies of any length: in particular no
\* more is written to the response than a reply can hold.
THEOREM ChatTypes == ChatSpec => []ChatTypeOK
  BY ChatTyped, ChatAlways, PTL

\* The invariant on the headers in the words of the property.
LEMMA HeadersHold ==
    ASSUME ChatInv PROVE HeadersTellPrompt
<1>1. Told => /\ headers.ids = prompt.ids /\ headers.count = Cardinality(prompt.ids)
              /\ headers.degraded = prompt.degraded
  BY DEF Told, MetadataHeaders
<1>2. handler \in {"built", "body", "complete", "truncated"} => Told
  BY DEF ChatInv, HeaderInv
<1>3. sent > 0 => Told /\ handler # "first"
  BY DEF ChatInv, HeaderInv
<1> QED BY <1>1, <1>2, <1>3 DEF HeadersTellPrompt

\* For every set of memories and every length of the reply, the headers tell the
\* prompt, and no token precedes them, whatever the client, the provider and the
\* retrieval do (chat.py, stream_response).
THEOREM HeadersAreTrue == ChatSpec => []HeadersTellPrompt
  BY HeadersHold, ChatAlways, PTL

\* The invariant on the captured reply in the words of the property.
LEMMA CapturesHold ==
    ASSUME ChatInv PROVE CapturedWhole
<1>1. captures = <<>> \/ captures = <<produced>>
  BY DEF ChatInv, CaptureInv
<1>2. Len(captures) <= 1
  <2>1. CASE captures = <<>>
    BY <2>1
  <2>2. CASE captures = <<produced>>
    BY <2>2
  <2> QED BY <1>1, <2>1, <2>2
<1>3. captures # <<>> =>
         /\ request.capture = TRUE /\ graph.exc = "none"
         /\ handler = "complete" /\ captures = <<produced>> /\ sent = produced
  BY DEF ChatInv, CaptureInv
<1> QED BY <1>2, <1>3 DEF CapturedWhole

\* A turn is captured at most once and only as the whole reply of a completion that
\* ended well and was sent in full: no disconnect, exception or cancellation between
\* two events of the stream makes a part of it look like the whole (chat.py, body).
THEOREM CapturesAreWhole == ChatSpec => []CapturedWhole
  BY CapturesHold, ChatAlways, PTL

\* No step pulls a token once the body is aborted.
LEMMA AbortHolds ==
    ChatInv /\ [ChatNext]_chatVars => [handler = "aborted" => produced' = produced]_chatVars
<1> SUFFICES ASSUME ChatInv, ChatNext, handler = "aborted" PROVE produced' = produced
  OBVIOUS
<1>1. graph.pc = "finished"
  BY DEF ChatInv, PhaseInv, GraphFinished, Over
<1>2. ~EmitToken
  BY <1>1 DEF EmitToken
<1> QED BY <1>2 DEF ChatNext, Graph, Serve, RetrievalFailed, Retrieved, ReadAudit, EmitMetadata,
           EmitDone, GraphRaises, GraphCancelled, AnswerJson, FirstEvent, BodyStarts, BodyEvent,
           BodyEnds, BodyAborted, CloseReturns, Disconnect

\* Once the body is aborted the graph is over, and the provider is not asked for
\* another token (the finally of stream_response awaits the task it cancelled).
THEOREM AbortStopsGraph == ChatSpec => NothingPulledAfterAbort
  BY AbortHolds, ChatAlways, PTL DEF ChatSpec, NothingPulledAfterAbort
=============================================================================
