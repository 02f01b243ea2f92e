------------------------------- MODULE Chat --------------------------------
(* One POST /chat request (api/chat.py): the handler, the response graph     *)
(* running as a task of its own behind an event queue                        *)
(* (graphs/response_graph.py, stream_response), the body generator Starlette *)
(* drains, the client, and the capture enqueued at the end. With             *)
(* stream=false the handler awaits the graph itself and there is no queue.   *)
(* The provider and the retrieval service are external.                      *)
EXTENDS Integers, Sequences, FiniteSets

CONSTANTS
    Memories,       \* ids retrieval can find
    MaxTokens       \* bound on the length of a reply

ASSUME ChatAssumption == MaxTokens \in Nat

VARIABLES
    request,    \* its options: stream, capture, blank; faults: the provider and
                \* the composer may raise while it is served
    graph,      \* the graph task: pc, the exception it ended with, cancel requested
    prompt,     \* what retrieval put into the prompt: ids and degraded
    produced,   \* number of tokens the provider has sent
    events,     \* the queue between the graph and the handler
    handler,    \* where the handler, and later the body generator, is
    headers,    \* the metadata the response carries
    sent,       \* tokens written to the response
    client,     \* "waiting", "gone" (left early), or "served"
    captures,   \* replies handed to the capture worker, as token counts
    audited     \* read-audit rows

chatVars == <<request, graph, prompt, produced, events, handler, headers, sent, client,
              captures, audited>>

NoMeta == [ids |-> {}, degraded |-> FALSE]

\* _metadata_headers: X-Memory-Ids, X-Memory-Count and X-Memory-Degraded. The count
\* tells an empty list from a header that a proxy cut off.
MetadataHeaders(p) == [ids |-> p.ids, count |-> Cardinality(p.ids), degraded |-> p.degraded]

Meta(p) == [type |-> "metadata", data |-> p]
Token(k) == [type |-> "token", data |-> k]
Done == [type |-> "done", data |-> 0]
END == [type |-> "end", data |-> 0]         \* _END_OF_STREAM

GraphFinished == graph.pc = "finished"

\* The handler answered with an error, or the response is over.
Over == {"error500", "complete", "truncated", "aborted"}

ChatTypeOK ==
    /\ graph.pc \in {"retrieve", "audit", "metadata", "respond", "finished"}
    /\ graph.exc \in {"none", "error", "cancelled"} /\ graph.cancel \in BOOLEAN
    /\ prompt.ids \subseteq Memories /\ prompt.degraded \in BOOLEAN
    /\ produced \in 0 .. MaxTokens /\ sent \in 0 .. MaxTokens
    /\ handler \in Over \union {"first", "built", "body", "closing"}
    /\ client \in {"waiting", "gone", "served"}
    /\ captures \in Seq(0 .. MaxTokens)
    /\ audited \subseteq Memories

ChatInit ==
    /\ request \in [stream : BOOLEAN, capture : BOOLEAN, blank : BOOLEAN, faults : BOOLEAN]
    /\ graph = [pc |-> "retrieve", exc |-> "none", cancel |-> FALSE]
    /\ prompt = NoMeta /\ produced = 0 /\ events = <<>>
    /\ handler = "first" /\ headers = MetadataHeaders(NoMeta) /\ sent = 0
    /\ client = "waiting" /\ captures = <<>> /\ audited = {}

handlerVars == <<handler, headers, sent, captures>>

\* _enqueue_capture, in the body or in the background task of a JSON answer.
Captured(reply) == IF request.capture THEN Append(captures, reply) ELSE captures

-----------------------------------------------------------------------------
(* The graph task. *)

\* With no sink (stream=false) an event goes nowhere.
Emit(evs) == events' = IF request.stream THEN events \o evs ELSE events

\* Mutant of Finish: the sentinel is put on the happy path only.
FinishHappy(exc, evs) ==
    /\ graph' = [graph EXCEPT !.pc = "finished", !.exc = exc]
    /\ Emit(IF exc = "none" THEN evs \o <<END>> ELSE evs)

\* run() ends, and its finally releases the consumer whatever happened.
Finish(exc, evs) ==
    /\ graph' = [graph EXCEPT !.pc = "finished", !.exc = exc]
    /\ Emit(evs \o <<END>>)

\* Mutant of RetrievalFailed: the guard's exception is not caught.
RetrievalFailedRaises ==
    /\ graph.pc = "retrieve" /\ ~graph.cancel /\ ~request.blank
    /\ prompt' = [ids |-> {}, degraded |-> TRUE]
    /\ Finish("error", <<>>)
    /\ UNCHANGED <<request, produced, client, audited, handlerVars>>

\* guarded_hybrid_search raises RetrievalUnavailable: reply without memory.
RetrievalFailed ==
    /\ graph.pc = "retrieve" /\ ~graph.cancel /\ ~request.blank
    /\ prompt' = [ids |-> {}, degraded |-> TRUE]
    /\ graph' = [graph EXCEPT !.pc = "metadata"]
    /\ UNCHANGED <<request, produced, events, client, audited, handlerVars>>

\* retrieval_node up to compose(); a blank turn skips retrieval.
Retrieved ==
    /\ graph.pc = "retrieve" /\ ~graph.cancel
    /\ \E ids \in SUBSET Memories :
          /\ request.blank => ids = {}
          /\ prompt' = [ids |-> ids, degraded |-> FALSE]
          /\ graph' = [graph EXCEPT !.pc = IF ids = {} THEN "metadata" ELSE "audit"]
    /\ UNCHANGED <<request, produced, events, client, audited, handlerVars>>

\* record_read_audit: all rows in one transaction, or none; it never raises.
ReadAudit ==
    /\ graph.pc = "audit" /\ ~graph.cancel
    /\ audited' \in {{}, prompt.ids}
    /\ graph' = [graph EXCEPT !.pc = "metadata"]
    /\ UNCHANGED <<request, prompt, produced, events, client, handlerVars>>

\* Mutant of EmitMetadata: the degradation is left out of the event.
EmitMetadataClean ==
    /\ graph.pc = "metadata"
    /\ Emit(<<Meta([prompt EXCEPT !.degraded = FALSE])>>)
    /\ graph' = [graph EXCEPT !.pc = "respond"]
    /\ UNCHANGED <<request, prompt, produced, client, audited, handlerVars>>

\* The metadata event; the edge to respond is the same on both routes.
EmitMetadata ==
    /\ graph.pc = "metadata"
    /\ Emit(<<Meta(prompt)>>)
    /\ graph' = [graph EXCEPT !.pc = "respond"]
    /\ UNCHANGED <<request, prompt, produced, client, audited, handlerVars>>

\* respond_node: llm.config.stream yields the next piece ...
EmitToken ==
    /\ graph.pc = "respond" /\ ~graph.cancel /\ produced < MaxTokens
    /\ produced' = produced + 1
    /\ Emit(<<Token(produced')>>)
    /\ UNCHANGED <<request, graph, prompt, client, audited, handlerVars>>

\* ... or the completion is over.
EmitDone ==
    /\ graph.pc = "respond" /\ ~graph.cancel
    /\ Finish("none", <<Done>>)
    /\ UNCHANGED <<request, prompt, produced, client, audited, handlerVars>>

\* rank() or compose() raises, or the provider does, before or between tokens.
GraphRaises ==
    /\ request.faults /\ ~graph.cancel
    /\ graph.pc = "respond" \/ (graph.pc = "retrieve" /\ ~request.blank)
    /\ Finish("error", <<>>)
    /\ UNCHANGED <<request, prompt, produced, client, audited, handlerVars>>

\* A cancellation arrives at the task's next await.
GraphCancelled ==
    /\ graph.cancel /\ graph.pc \in {"retrieve", "audit", "respond"}
    /\ Finish("cancelled", <<>>)
    /\ UNCHANGED <<request, prompt, produced, client, audited, handlerVars>>

-----------------------------------------------------------------------------
(* stream=false: the handler awaits the graph, answers with the whole reply, *)
(* and Starlette runs the background task after the response.                *)

AnswerJson ==
    /\ ~request.stream /\ handler = "first" /\ GraphFinished
    /\ IF graph.exc = "none"
       THEN /\ handler' = "complete" /\ headers' = MetadataHeaders(prompt)
            /\ sent' = produced /\ captures' = Captured(produced)
            /\ client' = IF client = "gone" THEN "gone" ELSE "served"
       ELSE /\ handler' = "error500"
            /\ UNCHANGED <<headers, sent, captures, client>>
    /\ UNCHANGED <<request, graph, prompt, produced, events, audited>>

-----------------------------------------------------------------------------
(* stream=true: the handler takes the first event, then the body generator   *)
(* drains the rest.                                                          *)

\* events.__anext__(): the metadata builds the response. If the sentinel is
\* first, the task's exception becomes an ordinary 500.
FirstEvent ==
    /\ request.stream /\ handler = "first" /\ events # <<>>
    /\ events' = Tail(events)
    /\ IF Head(events).type = "metadata"
       THEN handler' = "built" /\ headers' = MetadataHeaders(Head(events).data)
       ELSE handler' = "error500" /\ UNCHANGED headers
    /\ UNCHANGED <<request, graph, prompt, produced, sent, client, captures, audited>>

\* Starlette starts to iterate body().
BodyStarts ==
    /\ handler = "built" /\ client = "waiting"
    /\ handler' = "body"
    /\ UNCHANGED <<request, graph, prompt, produced, events, headers, sent, client,
                   captures, audited>>

\* An event other than the sentinel: a token is sent, the rest is skipped.
BodyEvent ==
    /\ handler = "body" /\ events # <<>> /\ Head(events) # END
    /\ events' = Tail(events)
    /\ sent' = IF Head(events).type = "token" THEN Head(events).data ELSE sent
    /\ UNCHANGED <<request, graph, prompt, produced, handler, headers, client,
                   captures, audited>>

\* Mutant of BodyEnds: capture is enqueued in the finally.
BodyEndsFinally ==
    /\ handler = "body" /\ events # <<>> /\ Head(events) = END
    /\ events' = Tail(events)
    /\ handler' = IF graph.exc = "none" THEN "complete" ELSE "truncated"
    /\ client' = IF client = "gone" THEN "gone" ELSE "served"
    /\ captures' = Captured(sent)
    /\ UNCHANGED <<request, graph, prompt, produced, headers, sent, audited>>

\* The sentinel: `await task` raises what the graph raised, and the response
\* breaks off; otherwise the turn is handed to the capture worker.
BodyEnds ==
    /\ handler = "body" /\ events # <<>> /\ Head(events) = END
    /\ events' = Tail(events)
    /\ handler' = IF graph.exc = "none" THEN "complete" ELSE "truncated"
    /\ client' = IF client = "gone" THEN "gone" ELSE "served"
    /\ captures' = IF graph.exc = "none" THEN Captured(sent) ELSE captures
    /\ UNCHANGED <<request, graph, prompt, produced, headers, sent, audited>>

\* The client leaves. A handler that has not answered yet does not notice.
Disconnect ==
    /\ client = "waiting" /\ handler \notin Over
    /\ client' = "gone"
    /\ UNCHANGED <<request, graph, prompt, produced, events, handler, headers, sent,
                   captures, audited>>

\* Mutant of BodyAborted: the generator of events is not closed.
BodyAbortedOpen ==
    /\ handler \in {"built", "body"} /\ client = "gone"
    /\ handler' = "aborted"
    /\ UNCHANGED <<request, graph, prompt, produced, events, headers, sent, client,
                   captures, audited>>

\* Starlette notices and cancels the body, whose finally closes the events; a
\* body that never started is finalised by the garbage collector, and the events
\* with it. Their finally cancels a graph that is still running and awaits it.
BodyAborted ==
    /\ handler \in {"built", "body"} /\ client = "gone"
    /\ handler' = IF GraphFinished THEN "aborted" ELSE "closing"
    /\ graph' = [graph EXCEPT !.cancel = ~GraphFinished]
    /\ UNCHANGED <<request, prompt, produced, events, headers, sent, client, captures,
                   audited>>

CloseReturns ==
    /\ handler = "closing" /\ GraphFinished
    /\ handler' = "aborted"
    /\ UNCHANGED <<request, graph, prompt, produced, events, headers, sent, client,
                   captures, audited>>

-----------------------------------------------------------------------------
Graph == \/ RetrievalFailed \/ Retrieved \/ ReadAudit \/ EmitMetadata \/ EmitToken
         \/ EmitDone \/ GraphRaises \/ GraphCancelled
Serve == \/ AnswerJson \/ FirstEvent \/ BodyStarts \/ BodyEvent \/ BodyEnds
         \/ BodyAborted \/ CloseReturns

ChatNext == Graph \/ Serve \/ Disconnect

ChatSpec == ChatInit /\ [][ChatNext]_chatVars

\* The event loop resumes whoever can go on; retrieval has a time limit, and so
\* has a completion (request_timeout). A client leaves when it likes.
ChatFairSpec == ChatSpec /\ WF_chatVars(Graph) /\ WF_chatVars(Serve)

-----------------------------------------------------------------------------
(* Properties. *)

\* The headers a client sees tell exactly which memories are in the prompt of
\* the reply it reads, and no token is on the wire before they are known
\* (api/chat.py: retrieval completes before the first token).
HeadersTellPrompt ==
    LET told == /\ headers.ids = prompt.ids /\ headers.count = Cardinality(prompt.ids)
                /\ headers.degraded = prompt.degraded
    IN  /\ handler \in {"built", "body", "complete", "truncated"} => told
        /\ sent > 0 => told /\ handler # "first"

\* A turn is captured at most once, and only with the whole reply of a
\* completion that ended well and was written to the response in full
\* (api/chat.py: "a half-received turn is never captured as if it were the
\* whole reply").
CapturedWhole ==
    /\ Len(captures) <= 1
    /\ captures # <<>> =>
          /\ request.capture /\ graph.exc = "none"
          /\ handler = "complete" /\ captures[1] = produced /\ sent = produced

\* Every request is answered or broken off: no consumer waits for an event that
\* nobody will put (stream_response: the sentinel is put in a finally).
Answered == handler = "first" ~> handler \in Over

\* With a working provider a client that stays is served the whole reply,
\* whatever retrieval did ("there is no path by which an open circuit prevents a
\* reply", graphs/response_graph.py).
ReplyArrives == handler = "first" /\ ~request.faults ~> client # "waiting"

\* A client that leaves does not leave a graph behind that goes on pulling tokens
\* nobody will read: once the body is aborted the provider is not asked again
\* (chat.py, body: events.aclose(), and the finally of stream_response).
NothingPulledAfterAbort ==
    [][handler = "aborted" => produced' = produced]_chatVars
=============================================================================
