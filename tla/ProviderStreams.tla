-------------------------- MODULE ProviderStreams ---------------------------
(***************************************************************************)
(* The event stream of Kiro: the binary framing                            *)
(* (provider-kiro/src/event_stream.rs), the meaning of the frames          *)
(* (event_semantics.rs) and the event source around them (inference.rs).   *)
(*                                                                         *)
(* The buffer is the sequence of frames it holds.  A frame is "whole"; its *)
(* message checksum or headers are wrong ("corrupt"); its prelude is wrong *)
(* ("unsynced"), and the search for the next prelude drops it; or its      *)
(* bytes end early ("partial"), until a later chunk brings the "rest".  A  *)
(* chunk of more than MAX_BUFFER_BYTES is a "flood".                       *)
(***************************************************************************)
EXTENDS GrokStreams

CONSTANTS
    MaxConsecutiveErrors,  \* MAX_CONSECUTIVE_ERRORS
    PlanCalls              \* the calls of EnterPlanMode and ExitPlanMode

KiroFrame(event) ==
    [bytes |-> "whole", message |-> TRUE, event |-> event, text |-> <<>>, call |-> NoCall,
     stop |-> FALSE]

\* KiroEventStreamDecoder::new()
Framing == [buffer |-> <<>>, errors |-> 0, stopped |-> FALSE]

\* stop()
StopFraming(f) == [f EXCEPT !.buffer = <<>>, !.stopped = TRUE]

\* feed()
Feed(f, frame) ==
    CASE f.stopped                              -> Refuse(f)
      [] ~f.stopped /\ frame.bytes = "flood"    -> Refuse(StopFraming(f))
      [] ~f.stopped /\ frame.bytes = "rest"     ->
           Return([f EXCEPT !.buffer = <<[Head(@) EXCEPT !.bytes = "whole"]>>], <<>>)
      [] OTHER                                  ->
           Return([f EXCEPT !.buffer = Append(@, frame)], <<>>)

\* recover(): the error is returned, and too many of them end the decoder.
Recover(f) ==
    LET g == [f EXCEPT !.errors = @ + 1]
    IN  Refuse(IF g.errors >= MaxConsecutiveErrors THEN StopFraming(g) ELSE g)

\* discard(), and resynchronize_prelude() for a frame without a prelude.
Discard(f) == [f EXCEPT !.buffer = Tail(@)]

\* try_prelude() and next_frame()
NextFrame(f) ==
    CASE f.stopped -> Refuse(f)
      [] ~f.stopped /\ (f.buffer = <<>> \/ Head(f.buffer).bytes = "partial") -> Return(f, <<>>)
      [] ~f.stopped /\ f.buffer # <<>> /\ Head(f.buffer).bytes \in {"corrupt", "unsynced"} ->
           Recover(Discard(f))
      [] OTHER -> Return([Discard(f) EXCEPT !.errors = 0], <<Head(f.buffer)>>)

\* KiroEventStreamDecoder::finish()
FinishFraming(f) ==
    CASE f.stopped                        -> Refuse(f)
      [] ~f.stopped /\ f.buffer = <<>>    -> Return(f, <<>>)
      [] OTHER                            -> Refuse(StopFraming(f))

-----------------------------------------------------------------------------
(* The meaning of a frame. *)

\* KiroEventSemanticMapper::new(): "open" maps the open Tools to their input.
Mapper == [started |-> FALSE, finished |-> FALSE, open |-> <<>>]

StartMapper(m) ==
    Require(~m.started /\ ~m.finished, m,
            Return([m EXCEPT !.started = TRUE], <<ResponseStart, MessageStart>>))

TextEvents(m, f)      == Return(m, IfAny(f.text, TextDelta(f.text)))
ReasoningEvents(m, f) == Return(m, IfAny(f.text, ReasoningDelta(f.text)))

Input(m, c) == IF c \in DOMAIN m.open THEN m.open[c] ELSE <<>>

\* completed_tool_arguments(): an object; only the plan-mode Tools may have no input.
ArgumentsComplete(c, input) ==
    IF input = <<>> THEN c \in PlanCalls ELSE IsObject(Trim(input))

CompletedToolArguments(input) == IF input = <<>> THEN EmptyObject ELSE Trim(input)

\* tool_events(): a frame for a Tool that is not open opens it, also one that was
\* closed before.
ToolEvents(m, f) ==
    LET c     == f.call
        input == Input(m, c) \o f.text
        begun == (IF c \in DOMAIN m.open THEN <<>> ELSE <<ToolCallStart(c)>>)
                   \o IfAny(f.text, ArgumentsDelta(c, f.text))
    IN  Require(Len(input) <= MaxArgumentBytes, m,
                IF ~f.stop THEN Return([m EXCEPT !.open = (c :> input) @@ @], begun)
                ELSE Require(ArgumentsComplete(c, input), m,
                             Return([m EXCEPT !.open = [x \in DOMAIN @ \ {c} |-> @[x]]],
                                    begun \o <<ToolCallEnd(c, CompletedToolArguments(input))>>)))

\* push_frame()
PushFrame(m, f) ==
    Require(m.started /\ ~m.finished /\ f.message, m,
            CASE f.event = "text"         -> TextEvents(m, f)
              [] f.event = "reasoning"    -> ReasoningEvents(m, f)
              [] f.event = "tool"         -> ToolEvents(m, f)
              [] f.event = "contextUsage" -> Return(m, <<>>)
              [] OTHER                    -> Refuse(m))

\* KiroEventSemanticMapper::finish()
FinishMapper(m) ==
    Require(m.started /\ ~m.finished /\ m.open = <<>>, m,
            Return([m EXCEPT !.finished = TRUE], <<MessageEnd, ResponseEnd("", FALSE)>>))

-----------------------------------------------------------------------------
(* KiroStreamingEventSource.  Events that were mapped before the chunk     *)
(* failed are kept, but the failure is returned ahead of them.             *)

KiroDecoder == [framing |-> Framing, mapper |-> Mapper, lifecycle |-> "AwaitingFirstFrame"]

\* One turn of map_available_frames().
MapFrame(d, f) ==
    LET begun == IF d.lifecycle = "AwaitingFirstFrame" THEN StartMapper(d.mapper)
                 ELSE Return(d.mapper, <<>>)
        next  == PushFrame(begun.after, f)
    IN  IF begun.verdict # "ok" \/ next.verdict # "ok" THEN Refuse(d)
        ELSE Return([d EXCEPT !.mapper = next.after, !.lifecycle = "Streaming"],
                    begun.out \o next.out)

\* feed() and map_available_frames() for a chunk of one frame.
KiroRead(d, f) ==
    LET fed  == Feed(d.framing, f)
        next == NextFrame(fed.after)
        e    == [d EXCEPT !.framing = next.after]
    IN  IF fed.verdict # "ok" \/ next.verdict # "ok" THEN Refuse(e)
        ELSE IF next.out = <<>> THEN Return(e, <<>>)
        ELSE MapFrame(e, Head(next.out))

\* finish_stream()
FinishStream(d) ==
    LET framing == FinishFraming(d.framing)
        mapped  == FinishMapper(d.mapper)
    IN  IF framing.verdict # "ok" \/ d.lifecycle # "Streaming" \/ mapped.verdict # "ok"
        THEN Refuse(d)
        ELSE Return([d EXCEPT !.mapper = mapped.after, !.lifecycle = "Finished"], mapped.out)

-----------------------------------------------------------------------------
(***************************************************************************)
(* The event sources behind a streamed provider response: Grok Build, the  *)
(* official xAI API, Grok Console, the Grok web application and Kiro.  A   *)
(* source reads chunks, decodes the records in them and hands the          *)
(* canonical events to its reader (pump_source in gateway-http-actix),     *)
(* which stops at the first terminal event or error and rejects an event   *)
(* that does not fit the ones before it.                                   *)
(*                                                                         *)
(* The events of a chunk reach the reader only when the whole chunk was    *)
(* decoded: push_bytes works on a copy of the decoder, and Kiro returns    *)
(* the failure ahead of what it has mapped.  "undelivered" are the events  *)
(* of the records read so far of the current chunk; records without events *)
(* may as well be in a chunk of their own.  A source never reads           *)
(* after a failure, so the decoder it would go back to is not kept.        *)
(*                                                                         *)
(* "declared" is what the upstream's final record said of each item, and   *)
(* "late" the items that were given text after that (for Kiro, the Tools   *)
(* that were started again).                                               *)
(***************************************************************************)

CONSTANTS
    MaxLetters,     \* letters of text and reasoning in a response
    MaxUndelivered, \* events of one chunk before its last record
    Arguments,      \* the arguments the upstream may send for a call, in any fragments
    GrokCalls       \* the calls of a Grok upstream

VARIABLES kind, parser, undelivered, reader, outcome, declared, late, retained

streamVars ==
    <<kind, parser, undelivered, reader, outcome, declared, late, retained>>

Sources == {"build", "official", "console", "web", "kiro"}

\* A letter of its own for each item.
Letter(i) == IF i = CHOOSE j \in Items : TRUE THEN <<"v">> ELSE <<"w">>

Of(t, i) == SelectSeq(t, LAMBDA x : <<x>> = Letter(i))

-----------------------------------------------------------------------------
(* The reader: what it was told, and the lifecycle it sees. *)

Reader == [ok |-> TRUE, state |-> InitialState, view |-> Nothing]

Told(r, events) ==
    LET run == ApplyAll(r.state, events)
    IN  [ok |-> r.ok /\ run.ok, state |-> run.s, view |-> HeardAll(r.view, events)]

HasEnd(events) == \E n \in DOMAIN events : events[n].kind \in {"ResponseEnd", "StreamError"}

\* pump_source reads no further than the first terminal event.
UntilEnd(events) ==
    IF ~HasEnd(events) THEN events
    ELSE LET n == CHOOSE m \in DOMAIN events :
                    /\ events[m].kind \in {"ResponseEnd", "StreamError"}
                    /\ \A k \in 1..m - 1 : events[k].kind \notin {"ResponseEnd", "StreamError"}
         IN  SubSeq(events, 1, n)

-----------------------------------------------------------------------------
(* What each source does with the events of a decoded chunk. *)

\* ReasoningPolicy::retains()
Retains(e) == retained \/ e.kind # "ReasoningDelta"

\* StreamingEventSource::next_pending() of Grok Build
BuildPending(events) == SelectSeq(events, Retains)

\* The other sources deliver every event.
OfficialPending(events) == events
KiroPending(events)     == events

ConsolePending(events) == ConsolePushed(events, reader.view.started # {})

Pending(events) ==
    CASE kind = "build"    -> BuildPending(events)
      [] kind = "official" -> OfficialPending(events)
      [] kind = "console"  -> ConsolePending(events)
      [] kind = "web"      -> WebPending(events)
      [] kind = "kiro"     -> KiroPending(events)

\* terminal_failure(): an error before the response started, a StreamError after.
TerminalFailure(r) ==
    IF r.state = InitialState THEN [reader |-> r, outcome |-> "error"]
    ELSE [reader |-> Told(r, <<StreamError>>), outcome |-> "ended"]

Fails ==
    /\ reader' = TerminalFailure(reader).reader
    /\ outcome' = TerminalFailure(reader).outcome
    /\ undelivered' = <<>>

Delivers(events) ==
    LET seen == UntilEnd(Pending(events))
    IN  /\ reader' = Told(reader, seen)
        /\ outcome' = CASE ~Told(reader, seen).ok -> "rejected"
                        [] Told(reader, seen).ok /\ HasEnd(seen) -> "ended"
                        [] OTHER -> outcome
        /\ undelivered' = <<>>

-----------------------------------------------------------------------------
(* The records an upstream may send next. *)

SaidText ==
    LET view == Told(reader, undelivered).view
    IN  IF kind \in {"web", "kiro"} THEN view.text \o view.thought
        ELSE FoldSet(LAMBDA i, t : parser.text[i] \o t, <<>>, Items)

RoomFor(t) == Len(SaidText) + Len(t) <= MaxLetters

\* What may follow the fragments that were sent.
NextFragments(sent) ==
    {<<>>} \cup UNION { { SubSeq(x, Len(sent) + 1, n) : n \in (Len(sent) + 1)..Len(x) } :
                       x \in { t \in Arguments : IsPrefix(sent, t) } }

\* The texts a final record may claim: what was streamed, or another letter.
Claims(i) ==
    {parser.text[i]} \cup (IF RoomFor(Letter(i)) THEN {Letter(i), parser.text[i] \o Letter(i)}
                            ELSE {<<>>})

For(type, i) == [Record(type) EXCEPT !.item = i, !.kind = parser.kinds[i], !.call = parser.calls[i]]

\* The next item and the next call are taken in a fixed order.
Added ==
    LET fresh == { i \in Items : parser.kinds[i] = "none" }
        free  == GrokCalls \ { parser.calls[i] : i \in Items }
    IN  IF fresh = {} THEN {}
        ELSE { [Record("output_item.added") EXCEPT !.item = CHOOSE i \in fresh : TRUE,
                  !.kind = k, !.call = c, !.assistant = a] :
                 k \in OutputItemKinds, a \in BOOLEAN,
                 c \in {NoCall} \cup (IF free = {} THEN GrokCalls ELSE {CHOOSE x \in free : TRUE}) }

IsSane(r) ==
    /\ (r.kind = "function_call") = (r.call # NoCall)
    /\ ~r.assistant => r.kind = "message"

ItemRecords(i) ==
    CASE parser.kinds[i] = "message" ->
           { [For(type, i) EXCEPT !.text = t] :
               type \in {"output_item.done", "content_part.done", "output_text.done"},
               t \in Claims(i) }
             \cup { [For("output_text.delta", i) EXCEPT !.text = t] :
                      t \in { u \in {<<>>, Letter(i)} : RoomFor(u) } }
             \cup { For("content_part.added", i), For("reasoning.delta", i),
                    [For("output_item.done", i) EXCEPT !.completed = FALSE] }
      [] parser.kinds[i] = "reasoning" ->
           { [For(type, i) EXCEPT !.text = t] :
               type \in {"output_item.done", "reasoning.done"}, t \in Claims(i) }
             \cup { [For("reasoning.delta", i) EXCEPT !.text = t] :
                      t \in { u \in {<<>>, Letter(i)} : RoomFor(u) } }
             \cup { For("summary_part", i), [For("output_item.done", i) EXCEPT !.known = FALSE] }
      [] parser.kinds[i] = "function_call" ->
           { [For(type, i) EXCEPT !.text = t] :
               type \in {"output_item.done", "arguments.done"}, t \in {<<>>} \cup Arguments }
             \cup { [For("arguments.delta", i) EXCEPT !.text = t] :
                      t \in NextFragments(parser.arguments[i]) }
      [] OTHER -> { [For("output_item.done", i) EXCEPT !.kind = "message"] }

GrokRecords ==
    UNION { ItemRecords(i) : i \in Items } \cup { r \in Added : IsSane(r) }
      \cup { [Record("completed") EXCEPT !.output = o, !.usage = u] :
               o \in {parser.done, {}}, u \in {{}, {"input", "output"}} }
      \cup { [Record("in_progress") EXCEPT !.id = id] : id \in {"resp", "other"} }
      \cup { Record(type) : type \in {"created", "failed", "comment", "keepalive", "[DONE]",
                                      "malformed"} }

WebFrames ==
    LET more == IF RoomFor(<<"v">>) THEN {<<>>, <<"v">>} ELSE {<<>>}
    IN  { [WebFrame(c, b) EXCEPT !.token = t, !.thinking = h] :
            c \in {"", "conversation"}, b \in BOOLEAN, t \in more, h \in BOOLEAN }
          \cup { [WebFrame("", TRUE) EXCEPT !.final = TRUE, !.text = t, !.token = u] :
                   t \in {parser.visible \o <<"v">>, parser.visible, <<>>}, u \in more }
          \cup { WebFrame("another", FALSE), [WebFrame("", TRUE) EXCEPT !.error = TRUE] }

KiroFrames ==
    IF parser.framing.buffer # <<>> THEN {[KiroFrame("text") EXCEPT !.bytes = "rest"]}
    ELSE { [KiroFrame(e) EXCEPT !.text = t, !.bytes = b] :
             e \in {"text", "reasoning"}, b \in {"whole", "partial"},
             t \in IF RoomFor(<<"v">>) THEN {<<>>, <<"v">>} ELSE {<<>>} }
           \cup UNION { { [KiroFrame("tool") EXCEPT !.text = t, !.call = c, !.stop = s] :
                          t \in IF c \in PlanCalls THEN {<<>>}
                                ELSE NextFragments(Input(parser.mapper, c)),
                          s \in BOOLEAN } :
                        c \in Calls }
           \cup { KiroFrame("contextUsage"), KiroFrame("unsupported"),
                  [KiroFrame("text") EXCEPT !.message = FALSE] }
           \cup { [KiroFrame("text") EXCEPT !.bytes = b] : b \in {"corrupt", "unsynced", "flood"} }

Inputs ==
    CASE kind = "web"  -> WebFrames
      [] kind = "kiro" -> KiroFrames
      [] OTHER         -> GrokRecords

DecoderOf(k) ==
    CASE k = "web"  -> WebDecodeState
      [] k = "kiro" -> KiroDecoder
      [] OTHER      -> DecodeState

Decoded(r) ==
    CASE kind = "build"                  -> HandleSseRecord(parser, r)
      [] kind \in {"official", "console"} -> OfficialSseRecord(parser, r)
      [] kind = "web"                    -> WebHandleFrame(parser, r)
      [] kind = "kiro"                   -> KiroRead(parser, r)

-----------------------------------------------------------------------------
(* The behaviour. *)

NoClaim == [known |-> FALSE, text |-> <<>>]

StreamInit ==
    /\ kind \in Sources /\ parser = DecoderOf(kind)
    /\ undelivered = <<>> /\ reader = Reader /\ outcome = "open"
    /\ declared = [i \in Items \cup {NoItem} |-> NoClaim] /\ late = {}
    /\ retained \in IF kind = "build" THEN BOOLEAN ELSE {TRUE}

\* What a record that was accepted with these events declares.
Declares(r, events) ==
    CASE kind = "web" ->
           /\ declared' = IF r.final
                          THEN [declared EXCEPT ![NoItem] = [known |-> TRUE, text |-> r.text]]
                          ELSE declared
           /\ late' = late
      [] kind = "kiro" ->
           /\ declared' = declared
           /\ late' = IF SawToolCall(events) /\ r.call \in Told(reader, undelivered).view.started
                      THEN late \cup {r.call} ELSE late
      [] OTHER ->
           /\ declared' = IF r.type = "output_item.done"
                          THEN [declared EXCEPT ![r.item] = [known |-> r.known, text |-> r.text]]
                          ELSE declared
           /\ late' = IF events # <<>> /\ r.item \in parser.done THEN late \cup {r.item} ELSE late

\* push_bytes(): one more record of the chunk.
Push(r) ==
    LET o == Decoded(r)
    IN  /\ parser' = o.after
        /\ IF o.verdict # "ok" THEN Fails /\ UNCHANGED <<declared, late>>
           ELSE /\ undelivered' = undelivered \o o.out
                /\ Declares(r, o.out)
                /\ UNCHANGED <<reader, outcome>>

PushRecord ==
    /\ outcome = "open" /\ Len(undelivered) < MaxUndelivered
    /\ \E r \in Inputs : Push(r)
    /\ UNCHANGED <<kind, retained>>

\* next_event(): the chunk was decoded and its events are read one after the other.
ChunkDecoded ==
    /\ outcome = "open" /\ undelivered # <<>>
    /\ Delivers(undelivered)
    /\ UNCHANGED <<kind, parser, declared, late, retained>>

\* next_chunk() fails: the connection is lost or idle too long.
TransportFails ==
    /\ outcome = "open" /\ undelivered = <<>>
    /\ Fails
    /\ UNCHANGED <<kind, parser, declared, late, retained>>

Finished ==
    CASE kind = "web"  -> WebFinish(parser)
      [] kind = "kiro" -> FinishStream(parser)
      [] OTHER         -> Require(IsTerminal(parser.state), parser, Return(parser, <<>>))

\* next_chunk() returns nothing more.  Without a terminal event the reader gets none
\* either, and ends the response itself.
BodyEnds ==
    /\ outcome = "open" /\ undelivered = <<>>
    /\ parser' = Finished.after
    /\ IF Finished.verdict = "ok" THEN Delivers(Finished.out) ELSE Fails
    /\ UNCHANGED <<kind, declared, late, retained>>

StreamNext == PushRecord \/ ChunkDecoded \/ TransportFails \/ BodyEnds
StreamSpec == StreamInit /\ [][StreamNext]_streamVars

-----------------------------------------------------------------------------
(* Properties. *)

Completed == outcome = "ended" /\ reader.state.life = "Completed"

\* What a view says of an item.
ItemText(view, i) == Of(IF parser.kinds[i] = "reasoning" THEN view.thought ELSE view.text, i)

Expected(i) ==
    IF parser.kinds[i] = "reasoning" /\ ~retained THEN <<>> ELSE declared[i].text

\* The items whose final record says what was streamed.
Settled == { i \in parser.done \ late :
               parser.kinds[i] # "function_call" /\ declared[i].known }

FinalItems ==
    LET ids == SetToSeq(parser.done)
    IN  [n \in DOMAIN ids |->
           [For("output_item.done", ids[n]) EXCEPT !.text = declared[ids[n]].text,
                                                   !.known = declared[ids[n]].known]]

\* The same response, not streamed.
Buffered ==
    CASE kind = "build"    -> DecodeNonStreaming(FinalItems)
      [] kind = "official" -> OfficialDecodeNonStreaming(FinalItems)
      [] kind = "console"  -> ConsoleDecodeNonStreaming(FinalItems)

GrokFaithful(view, buffered) ==
    /\ late # {} => kind = "build"
    /\ \A i \in Settled : ItemText(view, i) = Expected(i)
    /\ kind # "official" => view.reason = FilledReason(view.started # {})
    /\ buffered.verdict = "ok"
    /\ LET whole == HeardAll(Nothing, buffered.out)
       IN  /\ \A i \in parser.done : parser.calls[i] # NoCall =>
                  whole.final[parser.calls[i]] = view.final[parser.calls[i]]
           /\ view.started \subseteq whole.started => whole.reason = view.reason
           /\ \A i \in Settled : ItemText(whole, i) = declared[i].text

\* A streamed provider response says what its upstream said.  The reader sees one
\* well-formed sequence of events with one end (next_event, terminal_failure and
\* pump_source); a response that completes has closed every Tool call, with the
\* arguments that were streamed; the text and reasoning of every completed item are the
\* ones its final record declares; the stop reason names Tool use exactly when there is
\* one; and the same items, not streamed, say the same.  Two decoders are laxer:
\* Grok Build still accepts text for an item that is done, and Kiro starts a Tool again
\* that it has ended, which the reader rejects.
StreamsFaithful ==
    /\ outcome = "rejected" => kind = "kiro" /\ late # {}
    /\ outcome = "error" => reader = Reader
    /\ outcome = "ended" => IsTerminal(reader.state)
    /\ Completed =>
         LET view == reader.view
         IN  /\ view.started = view.ended
             /\ \A c \in view.ended :
                  view.parts[c] # <<>> =>
                    view.final[c] = Trim(IF kind = "kiro" THEN view.parts[c]
                                         ELSE NormalizeToolArguments(view.parts[c]))
             /\ kind = "kiro" => \A c \in view.ended : view.parts[c] = <<>> => c \in PlanCalls
             /\ kind = "web" => /\ view.text = declared[NoItem].text
                                /\ view.usage = {"input", "output"}
             /\ kind \in {"build", "official", "console"} => GrokFaithful(view, Buffered)
=============================================================================
