---------------------------- MODULE ResponseBody ----------------------------
(***************************************************************************)
(* One inference response from its source to the client, crates/gateway-   *)
(* http-actix/src/lib.rs: the spawned pump that moves events from the      *)
(* upstream source into the bounded stream, and the HTTP body that takes   *)
(* them out, encodes them as SSE frames (or collects them into one JSON    *)
(* object) and commits the first-semantic-event boundary.                  *)
(*                                                                         *)
(* The stream between them is BoundedStream.  Only dropping the consumer   *)
(* cancels it here: the retry gate the router gets has no cancel().        *)
(***************************************************************************)
EXTENDS BoundedStream

VARIABLES mode,       \* "sse" or "json": the request's "stream" flag
          pump,       \* the pump task: where it is, and the event it is sending
          usage,      \* Usage records emitted by the UsageEventObserver
          body,       \* the response body's own state
          committed,  \* FirstSemanticEventTracker
          wrote       \* what the client has been handed

respVars == <<sender, queue, receiver, cancelled, mode, pump, usage, body, committed, wrote>>

PumpStates == {"pull", "sending", "fail", "failing", "done"}
BodyStates == {"open", "finished", "ended", "ok", "error"}

\* A PendingSseChunk: whether it carries the delivery event, whether its frame is
\* semantic, and which terminal event, if any, it belongs to.
Chunks == [deliver : BOOLEAN, semantic : BOOLEAN, ends : {"no", "ResponseEnd", "StreamError"}]

\* The state once start_bounded_transport has sent the first event, which the handler
\* checked to be a ResponseStart, and spawned the pump.
RespStart(responseMode, alive) ==
  /\ sender = [state |-> After(InitialState, Plain("ResponseStart")), open |-> alive,
               pending |-> NoEvent, polled |-> FALSE, alive |-> alive, last |-> "ok"]
  /\ queue = <<Plain("ResponseStart")>>
  /\ receiver = [state |-> InitialState, finished |-> FALSE, polled |-> FALSE,
                 alive |-> alive, last |-> "none"]
  /\ cancelled = ~alive
  /\ mode = responseMode
  /\ pump = [pc |-> IF alive THEN "pull" ELSE "done", event |-> NoEvent]
  /\ usage = 0
  /\ body = [pc |-> "open", pending |-> <<>>, encoder |-> InitialState]
  /\ committed = FALSE
  /\ wrote = [semantic |-> FALSE, success |-> FALSE, terminals |-> 0, late |-> FALSE]

RespInit == \E m \in {"sse", "json"} : RespStart(m, TRUE)

\* The client left at once: nothing of the response moves any more.
RespIdle == RespStart("sse", FALSE)

bodyVars == <<mode, body, committed, wrote>>
pumpVars == <<pump, usage>>

-----------------------------------------------------------------------------
(* pump_source and send_terminal_failure. *)

\* The pump returns: the source, its lease and the sender go with it.
PumpReturns == DropSender /\ pump' = [pc |-> "done", event |-> NoEvent]

\* The biased select! finds the token set.
PumpCancelled ==
  /\ pump.pc = "pull" /\ cancelled
  /\ PumpReturns
  /\ UNCHANGED <<usage, bodyVars>>

\* source.next_event() gives an event, which goes straight into send().  The token may
\* be set after the select! looked at it, so this does not require ~cancelled.
PumpPulls(e) ==
  /\ pump.pc = "pull"
  /\ SendStart(e)
  /\ pump' = [pc |-> "sending", event |-> e]
  /\ UNCHANGED <<usage, bodyVars>>

\* source.next_event() gives Ok(None) or Err.
PumpSourceOver ==
  /\ pump.pc = "pull"
  /\ pump' = [pc |-> "fail", event |-> NoEvent]
  /\ UNCHANGED <<streamVars, usage, bodyVars>>

\* UsageEventObserver::observe: the final usage of an accepted event, once.
Observed ==
  IF sender.last = "ok" /\ pump.event.kind = "UsageDelta" /\ pump.event.flag /\ usage = 0
  THEN 1 ELSE usage

\* send() has returned: go on, stop after a terminal event or a cancellation, or report
\* the refusal to the consumer.
PumpSent ==
  /\ pump.pc = "sending" /\ sender.pending = NoEvent
  /\ usage' = Observed
  /\ IF sender.last = "ok" /\ ~Terminates(pump.event)
     THEN pump' = [pc |-> "pull", event |-> NoEvent] /\ UNCHANGED streamVars
     ELSE IF sender.last = "ok" \/ cancelled
     THEN PumpReturns
     ELSE pump' = [pc |-> "fail", event |-> NoEvent] /\ UNCHANGED streamVars
  /\ UNCHANGED bodyVars

\* send_terminal_failure.
PumpFails ==
  /\ pump.pc = "fail"
  /\ IF cancelled
     THEN PumpReturns
     ELSE /\ SendStart(Plain("StreamError"))
          /\ pump' = [pc |-> "failing", event |-> Plain("StreamError")]
  /\ UNCHANGED <<usage, bodyVars>>

\* ... and whatever became of that send, the pump returns.
PumpFailed ==
  /\ pump.pc = "failing" /\ sender.pending = NoEvent
  /\ PumpReturns
  /\ UNCHANGED <<usage, bodyVars>>

\* The task is polled while it is inside send().
PumpPolled ==
  /\ SendPoll \/ SendOffer
  /\ UNCHANGED <<pumpVars, bodyVars>>

-----------------------------------------------------------------------------
(* The protocol encoders, by what the body sees of them: an event encodes  *)
(* to some frames, or is refused as not representable.  The three          *)
(* protocols differ in how many frames an event gets; a terminal event     *)
(* always gets one, and Chat closes it with a non-semantic [DONE].         *)

Encodings(e) ==
  CASE e.kind = "StreamError" -> {<<TRUE>>, <<TRUE, FALSE>>}
    [] e.kind = "ResponseEnd" -> {<<TRUE>>, <<TRUE, TRUE, FALSE>>}
    [] OTHER -> {<<>>, <<TRUE>>, <<TRUE, TRUE>>}

\* The first event was tried on a fresh encoder before the headers were committed.
Representable(e) == e.kind \in {"ResponseStart", "StreamError"}

\* queue_sse_frames: the first semantic frame takes the delivery event with it.
FramesToChunks(e, frames) ==
  [i \in DOMAIN frames |->
     [deliver  |-> frames[i] /\ \A j \in 1..(i - 1) : ~frames[j],
      semantic |-> frames[i],
      ends     |-> IF Terminates(e) THEN e.kind ELSE "no"]]

\* terminate_sse_with_failure: a failure frame if the encoder can still take one.
Terminated(b, frames) ==
  IF Accepts(b.encoder, Plain("StreamError"))
  THEN [b EXCEPT !.pc = "finished",
                 !.pending = FramesToChunks(Plain("StreamError"), frames),
                 !.encoder = After(b.encoder, Plain("StreamError"))]
  ELSE [b EXCEPT !.pc = "finished"]

Encoded(b, e, frames) ==
  [b EXCEPT !.pending = FramesToChunks(e, frames),
            !.encoder = After(b.encoder, e),
            !.pc = IF Terminates(e) THEN "finished" ELSE "open"]

\* What next_sse_chunk may do with a received event.
BodyAfterEvent(e) ==
  { Encoded(body, e, f) : f \in IF Accepts(body.encoder, e) THEN Encodings(e) ELSE {} }
    \cup { Terminated(body, f) :
             f \in IF Representable(e) /\ Accepts(body.encoder, e)
                   THEN {} ELSE Encodings(Plain("StreamError")) }

-----------------------------------------------------------------------------
(* ProtocolSseBody::poll_next and next_sse_chunk. *)

SseReading == mode = "sse" /\ receiver.alive /\ body.pc = "open" /\ body.pending = <<>>

\* recv() looks at the token; after a cancellation the body just ends.
SsePolls ==
  /\ SseReading /\ RecvPoll
  /\ body' = IF receiver'.last \in {"cancelled", "end"} /\ receiver'.finished
             THEN [body EXCEPT !.pc = "ended"] ELSE body
  /\ UNCHANGED <<pumpVars, mode, committed, wrote>>

\* recv() answers: an event to encode, or an error to report.
SseReceives ==
  /\ SseReading /\ RecvTake
  /\ IF ~receiver'.finished /\ receiver'.state = receiver.state /\ queue' = queue
     THEN body' = body
     ELSE IF receiver'.last = "event"
     THEN body' \in BodyAfterEvent(Head(queue))
     ELSE IF receiver'.last = "end"
     THEN body' = [body EXCEPT !.pc = "finished"]
     ELSE \E f \in Encodings(Plain("StreamError")) : body' = Terminated(body, f)
  /\ UNCHANGED <<pumpVars, mode, committed, wrote>>

\* What the client has seen after one more chunk.
Written(chunk) ==
  [semantic  |-> wrote.semantic \/ chunk.semantic,
   success   |-> wrote.success \/ chunk.ends = "ResponseEnd",
   terminals |-> IF chunk.deliver /\ chunk.ends # "no" THEN wrote.terminals + 1
                                                       ELSE wrote.terminals,
   late      |-> wrote.late \/ (wrote.terminals > 0 /\ chunk.ends = "no")]

\* Fault: the boundary is committed when Actix asks, before a semantic chunk is handed over.
CommittedByAny(chunk) == TRUE

\* poll_next marks the delivery of the chunk it hands to Actix.
CommittedBy(chunk) == committed \/ chunk.deliver

SseHandsOver ==
  /\ mode = "sse" /\ receiver.alive /\ body.pending # <<>>
  /\ committed' = CommittedBy(Head(body.pending))
  /\ wrote' = Written(Head(body.pending))
  /\ body' = [body EXCEPT !.pending = Tail(@)]
  /\ UNCHANGED <<streamVars, pumpVars, mode>>

KeepaliveChunk == [deliver |-> FALSE, semantic |-> FALSE, ends |-> "no"]

\* The idle tick wins against a recv() that is waiting.
SseKeepalive ==
  /\ SseReading /\ ~receiver.polled
  /\ committed' = CommittedBy(KeepaliveChunk)
  /\ wrote' = Written(KeepaliveChunk)
  /\ UNCHANGED <<streamVars, pumpVars, mode, body>>

SseEnds ==
  /\ mode = "sse" /\ receiver.alive /\ body.pc = "finished" /\ body.pending = <<>>
  /\ body' = [body EXCEPT !.pc = "ended"]
  /\ UNCHANGED <<streamVars, pumpVars, mode, committed, wrote>>

-----------------------------------------------------------------------------
(* collect_completed_response and JsonDeliveryBody. *)

JsonReading == mode = "json" /\ receiver.alive /\ body.pc = "open"

\* The loop over recv(): an error answers the request, an event is collected, and the
\* end hands the events to CanonicalResponse::try_new and the JSON encoder, which may
\* still refuse them.
JsonCollects ==
  /\ JsonReading
  /\ RecvPoll \/ RecvTake
  /\ IF receiver'.last = receiver.last /\ receiver'.finished = receiver.finished
     THEN body' = body
     ELSE IF receiver'.last = "event" THEN body' = body
     ELSE IF receiver'.last = "end" /\ RequireSuccess(receiver.state) = "ok"
     THEN \E pc \in {"ok", "error"} : body' = [body EXCEPT !.pc = pc]
     ELSE body' = [body EXCEPT !.pc = "error"]
  /\ UNCHANGED <<pumpVars, mode, committed, wrote>>

\* The handler returned; Actix takes the bytes of a successful body.
JsonHandsOver ==
  /\ mode = "json" /\ body.pc = "ok" /\ wrote.terminals = 0
  /\ committed' = TRUE
  /\ wrote' = Written([deliver |-> TRUE, semantic |-> TRUE, ends |-> "ResponseEnd"])
  /\ UNCHANGED <<streamVars, pumpVars, mode, body>>

\* The consumer is dropped: by a client that went away at any time, by Actix when the
\* body has ended, by the JSON handler when it returns.
ConsumerDropped ==
  /\ DropReceiver
  /\ UNCHANGED <<pumpVars, bodyVars>>

-----------------------------------------------------------------------------
RespNext ==
  \/ PumpCancelled
  \/ \E e \in CanonicalEvents : PumpPulls(e)
  \/ PumpSourceOver
  \/ PumpSent
  \/ PumpFails
  \/ PumpFailed
  \/ PumpPolled
  \/ SsePolls
  \/ SseReceives
  \/ SseHandsOver
  \/ SseKeepalive
  \/ SseEnds
  \/ JsonCollects
  \/ JsonHandsOver
  \/ ConsumerDropped

\* Tokio polls the pump and Actix polls the body; the source owes nothing, and a body
\* that has answered is dropped.
PumpRuns == PumpCancelled \/ PumpSent \/ PumpFails \/ PumpFailed \/ PumpPolled
BodyRuns ==
  \/ SsePolls \/ SseReceives \/ SseHandsOver \/ SseEnds \/ JsonCollects
  \/ ConsumerDropped /\ body.pc \in {"ended", "ok", "error"}

RespFairness == WF_respVars(PumpRuns) /\ WF_respVars(BodyRuns)

RespSpec == RespInit /\ [][RespNext]_respVars /\ RespFairness

-----------------------------------------------------------------------------
(* Properties. *)

RespTypeOK ==
  /\ StreamTypeOK
  /\ mode \in {"sse", "json"}
  /\ pump \in [pc : PumpStates, event : CanonicalEvents \cup {NoEvent}]
  /\ usage \in 0..1
  /\ body \in [pc : BodyStates, pending : Seq(Chunks), encoder : EventStates]
  /\ committed \in BOOLEAN
  /\ wrote \in [semantic : BOOLEAN, success : BOOLEAN, terminals : 0..1, late : BOOLEAN]

\* What the client, the retry boundary and the accounting are told agrees with what the
\* stream carried.  The boundary is committed exactly when the client has been handed
\* semantic bytes: not by queueing or encoding, and not by a keepalive comment.  A
\* streaming body that ends has told the client how, once, with nothing after it.  Success
\* is only told of a response the source completed and the consumer saw in full.  A Usage
\* record exists exactly when the stream accepted a final usage event.
AnswerTruthful ==
  /\ committed <=> wrote.semantic
  /\ (mode = "sse" /\ body.pc = "ended") => wrote.terminals = 1
  /\ ~wrote.late
  /\ wrote.success => sender.state.life = "Completed" /\ receiver.state = sender.state
  /\ pump.pc # "sending" => (usage = 1 <=> sender.state.usage = "Final")

\* When the source is over, a client that stays gets its answer; when the consumer is gone
\* the pump stops, even blocked on a full channel or waiting for its source, and releases
\* the upstream body and the credential lease.
ClientAnswered ==
  /\ pump.pc \in {"fail", "failing", "done"} ~>
         (~receiver.alive \/ body.pc \in {"ended", "ok", "error"})
  /\ ~receiver.alive ~> pump.pc = "done"
=============================================================================
