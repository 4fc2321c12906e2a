---------------------------- MODULE GrokStreams -----------------------------
(***************************************************************************)
(* The stream decoder of Grok Build (provider-grok/src/build_responses.rs):*)
(* the records of a Responses event stream, the items they build up and    *)
(* the canonical events each record turns into.                            *)
(*                                                                         *)
(* A record names its event in "type".  "malformed" stands for every       *)
(* record the parser refuses: no JSON, a missing or over-long field, two   *)
(* event lines, an unknown event.  The text of an item, of whatever kind,  *)
(* is kept in one map: text_by_item_id and reasoning_by_item_id hold       *)
(* different items.  A call belongs to one item, so the maps that the code *)
(* keys by call_id are keyed by the item here.                             *)
(***************************************************************************)
EXTENDS CodecEvents

CONSTANTS Items, NoItem

Record(type) ==
    [type |-> type, id |-> "resp", item |-> NoItem, kind |-> "message", call |-> NoCall,
     text |-> <<>>, known |-> TRUE, completed |-> TRUE, assistant |-> TRUE, output |-> {},
     usage |-> {}]

\* OutputItemKind
OutputItemKinds == {"message", "reasoning", "function_call"}

\* GrokBuildResponsesDecodeState::default()
DecodeState ==
    [state |-> InitialState, response |-> "", open |-> FALSE,
     kinds |-> [i \in Items |-> "none"], done |-> {}, active |-> {},
     calls |-> [i \in Items |-> NoCall], arguments |-> [i \in Items |-> <<>>],
     completed |-> {}, text |-> [i \in Items |-> <<>>]]

-----------------------------------------------------------------------------
(* What the handlers share. *)

\* ensure_message()
EnsureMessage(d) == IF d.open THEN <<>> ELSE <<MessageStart>>
Opened(d)        == [d EXCEPT !.open = TRUE]

RequireResponseStarted(d)     == d.response # ""
RequireMatchingResponse(d, r) == d.response # "" /\ d.response = r.id

IsEmptyObject(t) == IsObject(Trim(t)) /\ \A i \in DOMAIN t : t[i] # "v"

IsNormal(t) == Len(t) <= MaxArgumentBytes /\ (Trim(t) = <<>> \/ IsObject(Trim(t)))

\* normalize_tool_arguments(): blank arguments and empty objects become "{}"; any
\* other object stays as it is, padding included.
NormalizeToolArguments(t) == IF Trim(t) = <<>> \/ IsEmptyObject(t) THEN EmptyObject ELSE t

\* finish_text_item()
FinishTextItem(d, i, t) ==
    Require(d.text[i] \in {<<>>, t}, d,
            IF d.text[i] = t THEN Return(d, <<>>)
            ELSE Emit([d EXCEPT !.text[i] = t], <<TextDelta(t)>>))

\* finish_reasoning_item()
FinishReasoningItem(d, i, t) ==
    Require(d.text[i] \in {<<>>, t}, d,
            IF d.text[i] = t THEN Return(d, <<>>)
            ELSE Emit([d EXCEPT !.text[i] = t], <<ReasoningDelta(t)>>))

\* finish_function_call(): a call that was already completed accepts the same
\* arguments again.
FinishFunctionCall(d, i, t) ==
    LET final == NormalizeToolArguments(t)
        sent  == d.arguments[i]
    IN  Require(/\ IsNormal(t) /\ IsNormal(sent)
                /\ sent = <<>> \/ NormalizeToolArguments(sent) = final, d,
                IF i \in d.completed THEN Return(d, <<>>)
                ELSE Emit([d EXCEPT !.arguments[i] = final, !.completed = @ \cup {i}],
                          <<ToolCallEnd(d.calls[i], Trim(final))>>))

-----------------------------------------------------------------------------
(* One handler per event. *)

HandleResponseCreated(d, r) ==
    Require(d.response = "", d, Emit([d EXCEPT !.response = r.id], <<ResponseStart>>))

HandleResponseInProgress(d, r) ==
    Require(RequireMatchingResponse(d, r), d, Return(d, <<>>))

HandleOutputItemAdded(d, r) ==
    LET i == r.item
        e == [Opened(d) EXCEPT !.kinds[i] = r.kind]
    IN  Require(/\ RequireResponseStarted(d) /\ d.kinds[i] = "none" /\ r.kind \in OutputItemKinds
                /\ r.kind = "function_call" => \A j \in Items : d.calls[j] # r.call, d,
                IF r.kind # "function_call" THEN Emit(e, EnsureMessage(d))
                ELSE Emit([e EXCEPT !.calls[i] = r.call],
                          EnsureMessage(d) \o <<ToolCallStart(r.call)>>))

\* The item is complete once its last text or arguments agree with what was streamed.
Completing(outcome, i) ==
    IF outcome.verdict = "ok" THEN [outcome EXCEPT !.after.done = @ \cup {i}] ELSE outcome

HandleOutputItemDone(d, r) ==
    LET i == r.item
    IN  Require(/\ d.kinds[i] = r.kind /\ i \notin d.done \cup d.active /\ r.completed
                /\ r.kind = "function_call" => d.calls[i] = r.call, d,
                Completing(CASE r.kind = "message"   -> FinishTextItem(d, i, r.text)
                             [] r.kind = "reasoning" -> IF r.known
                                                        THEN FinishReasoningItem(d, i, r.text)
                                                        ELSE Return(d, <<>>)
                             [] r.kind = "function_call" -> FinishFunctionCall(d, i, r.text), i))

HandleTextDelta(d, r) ==
    Require(d.kinds[r.item] = "message", d,
            IF r.text = <<>> THEN Return(d, <<>>)
            ELSE Emit([Opened(d) EXCEPT !.text[r.item] = @ \o r.text],
                      EnsureMessage(d) \o <<TextDelta(r.text)>>))

HandleTextContentPartAdded(d, r) ==
    Require(d.kinds[r.item] = "message" /\ r.text = <<>> /\ r.item \notin d.active, d,
            Return([d EXCEPT !.active = @ \cup {r.item}], <<>>))

HandleTextContentPartDone(d, r) ==
    Require(d.kinds[r.item] = "message" /\ r.item \in d.active, d,
            FinishTextItem([d EXCEPT !.active = @ \ {r.item}], r.item, r.text))

HandleTextDone(d, r) ==
    Require(d.kinds[r.item] = "message", d, FinishTextItem(d, r.item, r.text))

HandleReasoningDelta(d, r) ==
    Require(d.kinds[r.item] = "reasoning", d,
            IF r.text = <<>> THEN Return(d, <<>>)
            ELSE Emit([Opened(d) EXCEPT !.text[r.item] = @ \o r.text],
                      EnsureMessage(d) \o <<ReasoningDelta(r.text)>>))

HandleReasoningSummaryPart(d, r) ==
    Require(d.kinds[r.item] = "reasoning", d, Return(d, <<>>))

HandleReasoningTerminalText(d, r) ==
    Require(d.kinds[r.item] = "reasoning" /\ d.text[r.item] \in {<<>>, r.text}, d,
            IF d.text[r.item] = r.text THEN Return(d, <<>>)
            ELSE Emit([Opened(d) EXCEPT !.text[r.item] = r.text],
                      EnsureMessage(d) \o <<ReasoningDelta(r.text)>>))

HandleFunctionArgumentsDelta(d, r) ==
    LET next == d.arguments[r.item] \o r.text
    IN  Require(d.calls[r.item] = r.call /\ r.item \notin d.completed, d,
                IF r.text = <<>> THEN Return(d, <<>>)
                ELSE Require(Len(next) <= MaxArgumentBytes, d,
                             Emit([d EXCEPT !.arguments[r.item] = next],
                                  <<ArgumentsDelta(r.call, r.text)>>)))

HandleFunctionArgumentsDone(d, r) ==
    Require(d.calls[r.item] = r.call /\ r.item \notin d.done, d,
            FinishFunctionCall(d, r.item, r.text))

\* What every completed response ends with, whatever its stop reason.
Closing(d, r, reason) ==
    Emit([d EXCEPT !.open = FALSE],
         (IF r.usage = {} THEN <<>> ELSE <<UsageDelta(r.usage, TRUE)>>)
           \o (IF d.open THEN <<MessageEnd>> ELSE <<>>)
           \o <<ResponseEnd(reason, FALSE)>>)

HandleResponseCompleted(d, r) ==
    Require(RequireMatchingResponse(d, r) /\ r.completed /\ r.output = d.done, d,
            Closing(d, r, IF d.completed = {} THEN "end_turn" ELSE "tool_use"))

HandleResponseFailed(d, r) ==
    Require(RequireMatchingResponse(d, r), d, Emit(d, <<StreamError>>))

\* handle_sse_record()
HandleSseRecord(d, r) ==
    CASE r.type \in {"comment", "keepalive"} -> Return(d, <<>>)
      [] r.type = "[DONE]"              -> Require(IsTerminal(d.state), d, Return(d, <<>>))
      [] r.type = "created"             -> HandleResponseCreated(d, r)
      [] r.type = "in_progress"         -> HandleResponseInProgress(d, r)
      [] r.type = "output_item.added"   -> HandleOutputItemAdded(d, r)
      [] r.type = "output_item.done"    -> HandleOutputItemDone(d, r)
      [] r.type = "content_part.added"  -> HandleTextContentPartAdded(d, r)
      [] r.type = "content_part.done"   -> HandleTextContentPartDone(d, r)
      [] r.type = "output_text.delta"   -> HandleTextDelta(d, r)
      [] r.type = "output_text.done"    -> HandleTextDone(d, r)
      [] r.type = "reasoning.delta"     -> HandleReasoningDelta(d, r)
      [] r.type = "reasoning.done"      -> HandleReasoningTerminalText(d, r)
      [] r.type = "summary_part"        -> HandleReasoningSummaryPart(d, r)
      [] r.type = "arguments.delta"     -> HandleFunctionArgumentsDelta(d, r)
      [] r.type = "arguments.done"      -> HandleFunctionArgumentsDone(d, r)
      [] r.type = "completed"           -> HandleResponseCompleted(d, r)
      [] r.type = "failed"              -> HandleResponseFailed(d, r)
      [] OTHER                          -> Refuse(d)

-----------------------------------------------------------------------------
(* The complete body of a response that is not streamed. *)

\* Consecutive handlers: the first refusal ends them and keeps none of their events.
Chained(handle(_, _), d, records) ==
    FoldLeft(LAMBDA acc, r :
               IF acc.verdict # "ok" THEN acc
               ELSE LET next == handle(acc.after, r)
                    IN  [next EXCEPT !.out = IF next.verdict = "ok" THEN acc.out \o @ ELSE <<>>],
             Return(d, <<>>), records)

Body(items) ==
    <<Record("created")>>
      \o FlattenSeq([n \in DOMAIN items |-> <<[items[n] EXCEPT !.type = "output_item.added"],
                                              items[n]>>])
      \o <<[Record("completed") EXCEPT !.output = { items[n].item : n \in DOMAIN items }]>>

\* GrokBuildResponsesDecoder::decode_non_streaming()
DecodeNonStreaming(items) == Chained(HandleSseRecord, DecodeState, Body(items))

-----------------------------------------------------------------------------
(***************************************************************************)
(* The stream decoder of the official xAI API                              *)
(* (provider-grok/src/official_responses.rs) and the decoder of Grok       *)
(* Console around it (console_responses.rs).  The official decoder is a    *)
(* second implementation of the one in GrokResponsesStream: it refuses     *)
(* everything that concerns an item after the item is done, wants the role *)
(* of a message, knows no keepalive and gives no stop reason.  Console     *)
(* fills the stop reason in.                                               *)
(***************************************************************************)

\* A handler that concerns an item which is not complete yet.
Live(d, i, outcome) == Require(i \notin d.done, d, outcome)

OfficialResponseCreated(d, r)    == HandleResponseCreated(d, r)
OfficialResponseInProgress(d, r) == HandleResponseInProgress(d, r)

OfficialOutputItemAdded(d, r) ==
    Require(r.kind = "message" => r.assistant, d, HandleOutputItemAdded(d, r))

OfficialContentPartAdded(d, r) == Live(d, r.item, HandleTextContentPartAdded(d, r))

OfficialFinishTextItem(d, i, t) ==
    Require(d.kinds[i] = "message", d, Live(d, i, FinishTextItem(d, i, t)))

OfficialFinishReasoningItem(d, i, t) ==
    Require(d.kinds[i] = "reasoning" /\ d.text[i] \in {<<>>, t}, d,
            Live(d, i, IF d.text[i] = t THEN Return(d, <<>>)
                       ELSE Emit([Opened(d) EXCEPT !.text[i] = t],
                                 EnsureMessage(d) \o <<ReasoningDelta(t)>>)))

OfficialFinishFunctionCall(d, i, t) == FinishFunctionCall(d, i, t)

\* Fault: text is accepted after the item it belongs to is done.
OfficialTextDeltaAnytime(d, r) ==
    Require(d.kinds[r.item] = "message", d,
            IF r.text = <<>> THEN Return(d, <<>>)
            ELSE Emit([d EXCEPT !.text[r.item] = @ \o r.text], <<TextDelta(r.text)>>))

OfficialTextDelta(d, r) ==
    Require(d.kinds[r.item] = "message", d,
            Live(d, r.item,
                 IF r.text = <<>> THEN Return(d, <<>>)
                 ELSE Emit([d EXCEPT !.text[r.item] = @ \o r.text], <<TextDelta(r.text)>>)))

OfficialTextDone(d, r)      == OfficialFinishTextItem(d, r.item, r.text)
OfficialReasoningDelta(d, r) == Live(d, r.item, HandleReasoningDelta(d, r))
OfficialReasoningDone(d, r) == OfficialFinishReasoningItem(d, r.item, r.text)
OfficialReasoningSummaryPart(d, r) == HandleReasoningSummaryPart(d, r)
OfficialFunctionArgumentsDelta(d, r) == HandleFunctionArgumentsDelta(d, r)
OfficialFunctionArgumentsDone(d, r) ==
    Require(d.calls[r.item] = r.call, d,
            Live(d, r.item, OfficialFinishFunctionCall(d, r.item, r.text)))

OfficialContentPartDone(d, r) ==
    Require(d.kinds[r.item] = "message" /\ r.item \in d.active, d,
            OfficialFinishTextItem([d EXCEPT !.active = @ \ {r.item}], r.item, r.text))

OfficialOutputItemDone(d, r) ==
    LET i == r.item
    IN  Require(/\ d.kinds[i] = r.kind /\ i \notin d.done \cup d.active /\ r.completed
                /\ r.kind = "message" => r.assistant
                /\ r.kind = "function_call" => d.calls[i] = r.call, d,
                Completing(CASE r.kind = "message"   -> OfficialFinishTextItem(d, i, r.text)
                             [] r.kind = "reasoning" ->
                                  IF r.known THEN OfficialFinishReasoningItem(d, i, r.text)
                                  ELSE Return(d, <<>>)
                             [] r.kind = "function_call" ->
                                  OfficialFinishFunctionCall(d, i, r.text), i))

OfficialResponseCompleted(d, r) ==
    Require(RequireMatchingResponse(d, r) /\ r.completed /\ r.output = d.done, d,
            Closing(d, r, ""))

OfficialResponseFailed(d, r) == HandleResponseFailed(d, r)

\* handle_sse_record()
OfficialSseRecord(d, r) ==
    CASE r.type = "comment"             -> Return(d, <<>>)
      [] r.type = "[DONE]"              -> Require(IsTerminal(d.state), d, Return(d, <<>>))
      [] r.type = "created"             -> OfficialResponseCreated(d, r)
      [] r.type = "in_progress"         -> OfficialResponseInProgress(d, r)
      [] r.type = "output_item.added"   -> OfficialOutputItemAdded(d, r)
      [] r.type = "output_item.done"    -> OfficialOutputItemDone(d, r)
      [] r.type = "content_part.added"  -> OfficialContentPartAdded(d, r)
      [] r.type = "content_part.done"   -> OfficialContentPartDone(d, r)
      [] r.type = "output_text.delta"   -> OfficialTextDelta(d, r)
      [] r.type = "output_text.done"    -> OfficialTextDone(d, r)
      [] r.type = "reasoning.delta"     -> OfficialReasoningDelta(d, r)
      [] r.type = "reasoning.done"      -> OfficialReasoningDone(d, r)
      [] r.type = "summary_part"        -> OfficialReasoningSummaryPart(d, r)
      [] r.type = "arguments.delta"     -> OfficialFunctionArgumentsDelta(d, r)
      [] r.type = "arguments.done"      -> OfficialFunctionArgumentsDone(d, r)
      [] r.type = "completed"           -> OfficialResponseCompleted(d, r)
      [] r.type = "failed"              -> OfficialResponseFailed(d, r)
      [] OTHER                          -> Refuse(d)

OfficialDecodeNonStreaming(items) == Chained(OfficialSseRecord, DecodeState, Body(items))

-----------------------------------------------------------------------------
(* Grok Console. *)

\* The stop reason of a response that gives none.
FilledReason(sawToolCall) == IF sawToolCall THEN "tool_use" ELSE "end_turn"

SawToolCall(events) == \E n \in DOMAIN events : events[n].kind = "ToolCallStart"

Filled(events, sawToolCall) ==
    [n \in DOMAIN events |->
       IF events[n].kind = "ResponseEnd" /\ events[n].data.reason = ""
       THEN [events[n] EXCEPT !.data.reason = FilledReason(sawToolCall)] ELSE events[n]]

\* normalize_console_terminal()
NormalizeConsoleTerminal(events) == Filled(events, SawToolCall(events))

\* GrokConsoleResponsesStreamDecoder::push_bytes(): what a chunk's events become, given
\* whether an earlier chunk or this one started a Tool call.
ConsolePushed(events, sawToolCall) == Filled(events, sawToolCall \/ SawToolCall(events))

ConsoleDecodeNonStreaming(items) ==
    LET r == OfficialDecodeNonStreaming(items)
    IN  [r EXCEPT !.out = NormalizeConsoleTerminal(@)]

-----------------------------------------------------------------------------
(***************************************************************************)
(* The live stream of the Grok web application                             *)
(* (provider-grok/src/web_live.rs): concatenated JSON objects, each with a *)
(* conversation, a response or both.  A frame carries in "token" the text  *)
(* it adds ("thinking" says to what), in "final" whether the model         *)
(* response is included and in "text" that complete message.               *)
(***************************************************************************)

CONSTANT MaxVisible    \* MAX_GROK_WEB_LIVE_VISIBLE_TEXT_BYTES

WebFrame(conversation, response) ==
    [conversation |-> conversation, response |-> response, token |-> <<>>, thinking |-> FALSE,
     final |-> FALSE, text |-> <<>>, error |-> FALSE]

\* GrokWebLiveDecodeState
WebDecodeState ==
    [state |-> InitialState, response |-> "", open |-> FALSE, visible |-> <<>>, final |-> FALSE]

\* emit() after emit(): the events of the second follow those of the first.
AndThen(outcome, next(_)) ==
    IF outcome.verdict # "ok" THEN outcome
    ELSE LET then == next(outcome.after)
         IN  [then EXCEPT !.out = IF then.verdict = "ok" THEN outcome.out \o @ ELSE <<>>]

\* observe_conversation()
ObserveConversation(d, id) ==
    CASE d.response = id -> Return(d, <<>>)
      [] d.response = "" -> Emit([d EXCEPT !.response = id], <<ResponseStart>>)
      [] OTHER           -> Refuse(d)

\* ensure_message()
WebEnsureMessage(d) ==
    IF d.open THEN Return(d, <<>>) ELSE Emit([d EXCEPT !.open = TRUE], <<MessageStart>>)

\* append_visible()
AppendVisible(d, t) ==
    Require(Len(d.visible) + Len(t) <= MaxVisible, d,
            Emit([d EXCEPT !.visible = @ \o t], <<TextDelta(t)>>))

\* append_final_message(): the message must extend the text that was streamed.
AppendFinalMessage(d, t) ==
    AndThen(WebEnsureMessage(d),
            LAMBDA e : CASE t = e.visible -> Return(e, <<>>)
                         [] t # e.visible /\ IsPrefix(e.visible, t) ->
                              AppendVisible(e, SubSeq(t, Len(e.visible) + 1, Len(t)))
                         [] OTHER -> Refuse(e))

WebToken(d, f) ==
    IF f.token = <<>> THEN Return(d, <<>>)
    ELSE AndThen(WebEnsureMessage(d),
                 LAMBDA e : IF f.thinking THEN Emit(e, <<ReasoningDelta(f.token)>>)
                            ELSE AppendVisible(e, f.token))

\* observe_response()
ObserveResponse(d, f) ==
    Require(d.response # "" /\ ~f.error, d,
            AndThen(WebToken(d, f),
                    LAMBDA e : IF ~f.final THEN Return(e, <<>>)
                               ELSE AppendFinalMessage([e EXCEPT !.final = TRUE], f.text)))

\* handle_frame()
WebHandleFrame(d, f) ==
    Require(~d.final /\ (f.conversation # "" \/ f.response), d,
            AndThen(IF f.conversation = "" THEN Return(d, <<>>)
                    ELSE ObserveConversation(d, f.conversation),
                    LAMBDA e : IF f.response THEN ObserveResponse(e, f) ELSE Return(e, <<>>)))

\* GrokWebLiveStreamDecoder::finish(): the end of the body between two frames.
WebFinish(d) ==
    Require(d.final /\ d.response # "" /\ d.open, d,
            Emit([d EXCEPT !.open = FALSE], <<MessageEnd, ResponseEnd("end_turn", FALSE)>>))

\* GrokWebProductionEvents::next_pending(): the estimated usage goes ahead of the end.
WebPending(events) ==
    LET n == CHOOSE m \in 0..Len(events) :
               /\ m > 0 => events[m].kind = "ResponseEnd"
               /\ m = 0 => \A k \in DOMAIN events : events[k].kind # "ResponseEnd"
    IN  IF n = 0 THEN events
        ELSE SubSeq(events, 1, n - 1) \o <<UsageDelta({"input", "output"}, TRUE)>>
               \o SubSeq(events, n, Len(events))
=============================================================================
