---------------------------- MODULE OpenAiCodecs ----------------------------
(***************************************************************************)
(* The OpenAI Responses response codec: the decoder of an upstream         *)
(* response (crates/protocol-openai-responses/src/upstream_response.rs)    *)
(* and the encoder of a client response (crates/protocol-openai-responses/ *)
(* src/lib.rs).  Output item ids are the numbers Items; the usage {} is an *)
(* absent usage object.  A frame whose JSON fails one of the shape checks  *)
(* is the frame "malformed".                                               *)
(***************************************************************************)
EXTENDS CodecEvents

CONSTANT MaxOutputItems

ASSUME ItemConstants == MaxOutputItems \in Nat

Items == 1..MaxOutputItems

\* One SSE frame.  "reported" is whether a done frame names its arguments.
ResponsesFrame(type) ==
    [type |-> type, item |-> 0, kind |-> "", call |-> NoCall, text |-> <<>>,
     reported |-> FALSE, usage |-> {}, reason |-> "", output |-> <<>>]

ItemAddedFrame(i, kind, call) ==
    [ResponsesFrame("output_item.added") EXCEPT !.item = i, !.kind = kind, !.call = call]
ItemDeltaFrame(i, kind, text) ==
    [ResponsesFrame("delta") EXCEPT !.item = i, !.kind = kind, !.text = text]
ArgumentsDoneFrame(i, text) ==
    [ResponsesFrame("arguments.done") EXCEPT !.item = i, !.text = text, !.reported = TRUE]
ItemDoneFrame(i, kind, text) ==
    [ResponsesFrame("output_item.done") EXCEPT
        !.item = i, !.kind = kind, !.text = text, !.reported = kind = "tool"]

-----------------------------------------------------------------------------
(* OpenAiResponsesSseDecoder *)

NoItem == [kind |-> "none", call |-> NoCall, assembled |-> <<>>, released |-> 0, ended |-> FALSE]

\* new() or new_with_reasoning_suppressed()
ResponsesDecoder(suppress) ==
    [phase |-> "Awaiting", state |-> InitialState, open |-> FALSE, content |-> FALSE,
     items |-> [i \in Items |-> NoItem], idle |-> 0, suppress |-> suppress]

HasItem(d, i, kind) == i \in Items /\ d.items[i].kind = kind
OpenTools(d)        == { i \in Items : d.items[i].kind = "tool" }

\* retained_argument_bytes: every assembled byte is counted when it is appended.
RetainedBytes(d) == SumFunction([i \in Items |-> Len(d.items[i].assembled)])

\* decode_usage(..).filter(input_tokens) and initial_usage: the input side only.
InitialUsage(u) == u \cap {"input", "cached"}

\* start
StartResponse(d, f) ==
    Require(d.phase = "Awaiting", d,
      Emit([d EXCEPT !.phase = "Streaming"],
           <<ResponseStart>> \o (IF "input" \in f.usage
                                 THEN <<UsageDelta(InitialUsage(f.usage), FALSE)>> ELSE <<>>)))

\* ensure_message
EnsureMessage(d) == IF d.open THEN <<>> ELSE <<MessageStart>>

\* output_item_added and start_tool
ItemAdded(d, f) ==
    LET hidden == f.kind = "thinking" /\ d.suppress
        added  == [d EXCEPT !.open = @ \/ ~hidden,
                            !.items[f.item] = [NoItem EXCEPT !.kind = f.kind, !.call = f.call]]
    IN  Require(/\ d.phase = "Streaming"
                /\ f.item \in Items /\ d.items[f.item] = NoItem
                /\ f.kind = "tool" =>
                     /\ Cardinality(OpenTools(d)) < MaxToolCalls
                     /\ \A i \in OpenTools(d) : d.items[i].call # f.call, d,
          Emit(added, (IF hidden THEN <<>> ELSE EnsureMessage(d))
                        \o (IF f.kind = "tool" THEN <<ToolCallStart(f.call)>> ELSE <<>>)))

\* text_delta, reasoning_delta and tool_delta
ItemDelta(d, f) ==
    LET tool      == d.items[f.item]
        assembled == tool.assembled \o f.text
        delta     == ReleasedDelta(assembled, tool.released)
    IN  Require(d.phase = "Streaming" /\ HasItem(d, f.item, f.kind), d,
          CASE f.kind = "text" ->
                 Emit([d EXCEPT !.content = @ \/ f.text # <<>>], IfAny(f.text, TextDelta(f.text)))
            [] f.kind = "thinking" ->
                 IF d.suppress THEN Emit(d, <<>>)
                 ELSE Emit([d EXCEPT !.content = @ \/ f.text # <<>>],
                           IfAny(f.text, ReasoningDelta(f.text)))
            [] f.kind = "tool" ->
                 Require(~tool.ended /\ RetainedBytes(d) + Len(f.text) <= MaxArgumentBytes, d,
                   Emit([d EXCEPT !.items[f.item].assembled = assembled,
                                  !.items[f.item].released = ReleasedAfter(assembled, @)],
                        IfAny(delta, ArgumentsDelta(tool.call, delta)))))

\* The last lines of finish_tool: the rest of the value, then the completed call.
\* OpenTool::arguments slices the text from start to end, which panics behind the end.
EndTool(d, i, assembled) ==
    LET delta     == ReleasedDelta(assembled, d.items[i].released)
        arguments == IF ValueStart(assembled) = ValueEnd(assembled) THEN EmptyObject
                     ELSE Trim(assembled)
    IN  IF ValueStart(assembled) > ValueEnd(assembled) THEN Panic(d)
        ELSE Require(IsJson(arguments), d,
               Emit([d EXCEPT !.content = TRUE,
                              !.items[i].assembled = assembled,
                              !.items[i].released = ReleasedAfter(assembled, @),
                              !.items[i].ended = TRUE],
                    IfAny(delta, ArgumentsDelta(d.items[i].call, delta))
                      \o <<ToolCallEnd(d.items[i].call, arguments)>>))

\* finish_tool: arguments no delta delivered are taken from the done frame; an
\* arguments.done without any leaves the call to output_item.done.
FinishOpenTool(d, f, authoritative) ==
    LET tool     == d.items[f.item]
        start    == ValueStart(tool.assembled)
        end      == ValueEnd(tool.assembled)
        reported == f.reported /\ Trim(f.text) # <<>>
    IN  Require(d.phase = "Streaming" /\ HasItem(d, f.item, "tool"), d,
          CASE tool.ended -> Emit(d, <<>>)
            [] ~tool.ended /\ start = end /\ reported ->
                 Require(RetainedBytes(d) + Len(f.text) <= MaxArgumentBytes, d,
                         EndTool(d, f.item, f.text))
            [] ~tool.ended /\ start = end /\ ~reported /\ authoritative ->
                 EndTool(d, f.item, tool.assembled)
            [] ~tool.ended /\ start = end /\ ~reported /\ ~authoritative -> Emit(d, <<>>)
            [] ~tool.ended /\ start # end /\ f.reported /\ start > end -> Panic(d)
            [] ~tool.ended /\ start # end /\ ~(f.reported /\ start > end) ->
                 Require(f.reported => Trim(tool.assembled) = Trim(f.text), d,
                         EndTool(d, f.item, tool.assembled)))

\* output_item_done
ItemDone(d, f) ==
    Require(d.phase = "Streaming" /\ HasItem(d, f.item, f.kind), d,
            IF f.kind = "tool" THEN FinishOpenTool(d, f, TRUE) ELSE Emit(d, <<>>))

\* incomplete_reason, or the default of a completed response (reason "")
StopReason(reason, tools) ==
    CASE reason = "max_output_tokens" -> "max_tokens"
      [] reason = "content_filter" -> "refusal"
      [] reason = "" -> IF tools THEN "tool_use" ELSE "end_turn"

\* end, for response.completed and response.incomplete
EndStream(d, f) ==
    LET reason == StopReason(f.reason, OpenTools(d) # {})
    IN  Require(/\ d.phase = "Streaming" /\ d.content
                /\ \A i \in OpenTools(d) : d.items[i].ended, d,
          Emit([d EXCEPT !.phase = "Finished"],
               (IF d.open THEN <<MessageEnd>> ELSE <<>>)
                 \o (IF f.usage # {} THEN <<UsageDelta(f.usage, TRUE)>> ELSE <<>>)
                 \o <<ResponseEnd(reason, FALSE)>>))

\* failed
FailStream(d) ==
    Require(d.phase # "Awaiting", d, Emit([d EXCEPT !.phase = "Finished"], <<StreamError>>))

\* note_progress_free.  Before response.created the StreamError itself is refused.
NoteProgressFree(d) ==
    LET counted == [d EXCEPT !.idle = @ + 1]
    IN  IF counted.idle <= MaxProgressFree THEN Emit(counted, <<>>)
        ELSE Emit([counted EXCEPT !.phase = "Finished"], <<StreamError>>)

\* consume_frame.  "ignored" is the group of part and done frames that change nothing.
ResponsesDecode(d, f) ==
    LET p == [d EXCEPT !.idle = 0]
    IN  CASE f.type = "in_progress"       -> NoteProgressFree(d)
          [] f.type = "created"           -> StartResponse(p, f)
          [] f.type = "output_item.added" -> ItemAdded(p, f)
          [] f.type = "delta"             -> ItemDelta(p, f)
          [] f.type = "arguments.done"    -> FinishOpenTool(p, f, FALSE)
          [] f.type = "output_item.done"  -> ItemDone(p, f)
          [] f.type = "end"               -> EndStream(p, f)
          [] f.type = "failed"            -> FailStream(p)
          [] f.type = "ignored"           -> Emit(p, <<>>)
          [] f.type = "malformed"         -> Refuse(p)
-----------------------------------------------------------------------------
(* decode_upstream_response_with_reasoning_policy: the complete envelope,  *)
(* as the events it returns for one that response_value built.             *)

\* CompletedState::decode_item
CompletedItemEvents(item) ==
    CASE item.kind = "text"     -> <<TextDelta(item.text)>>
      [] item.kind = "thinking" -> <<ReasoningDelta(item.text)>>
      [] item.kind = "tool"     ->
           <<ToolCallStart(item.call), ArgumentsDelta(item.call, Trim(item.text)),
             ToolCallEnd(item.call, Trim(item.text))>>

ResponsesDecodeCompleted(m) ==
    LET tools == \E i \in DOMAIN m.output : m.output[i].kind = "tool"
    IN  <<ResponseStart>>
          \o (IF "input" \in m.usage THEN <<UsageDelta(InitialUsage(m.usage), FALSE)>> ELSE <<>>)
          \o <<MessageStart>>
          \o FlattenSeq([i \in DOMAIN m.output |-> CompletedItemEvents(m.output[i])])
          \o <<MessageEnd>>
          \o (IF m.usage # {} THEN <<UsageDelta(m.usage, TRUE)>> ELSE <<>>)
          \o <<ResponseEnd(StopReason(m.reason, tools), FALSE)>>

-----------------------------------------------------------------------------
(* OpenAiResponsesSseEncoder.  An error restores the state it had before   *)
(* the event.  "texts" and "thoughts" are the output items that take the   *)
(* message's text and reasoning, 0 before the first delta.                 *)

ResponsesEncoder ==
    [state |-> InitialState, output |-> <<>>, texts |-> 0, thoughts |-> 0, usage |-> {},
     reason |-> ""]

OutputItem(kind, call) ==
    [kind |-> kind, call |-> call, text |-> <<>>, saw |-> FALSE, done |-> FALSE]

LiveTool(s, call) ==
    { i \in DOMAIN s.output : s.output[i].call = call /\ ~s.output[i].done }

\* append_text and append_reasoning: one item per message, whatever comes between.
AppendText(s, i, kind, delta) ==
    LET at    == IF i = 0 THEN Len(s.output) + 1 ELSE i
        items == IF i = 0 THEN Append(s.output, OutputItem(kind, NoCall)) ELSE s.output
    IN  Return([s EXCEPT !.output = [items EXCEPT ![at].text = @ \o delta],
                         !.texts = IF kind = "text" THEN at ELSE @,
                         !.thoughts = IF kind = "thinking" THEN at ELSE @],
               (IF i = 0 THEN <<ItemAddedFrame(at, kind, NoCall)>> ELSE <<>>)
                 \o (IF i = 0 /\ kind = "text" THEN <<ResponsesFrame("ignored")>> ELSE <<>>)
                 \o <<ItemDeltaFrame(at, kind, delta)>>)

\* begin_tool
BeginTool(s, call) ==
    LET at == Len(s.output) + 1
    IN  Require(LiveTool(s, call) = {}, s,
          Return([s EXCEPT !.output = Append(@, OutputItem("tool", call))],
                 <<ItemAddedFrame(at, "tool", call)>>))

\* append_tool_arguments
AppendArguments(s, call, delta) ==
    LET at == Min(LiveTool(s, call))
    IN  Require(LiveTool(s, call) # {}, s,
          Return([s EXCEPT !.output[at].text = @ \o delta, !.output[at].saw = TRUE],
                 <<ItemDeltaFrame(at, "tool", delta)>>))

\* finish_tool
CompleteTool(s, call, arguments) ==
    LET at == Min(LiveTool(s, call))
    IN  Require(/\ LiveTool(s, call) # {}
                /\ s.output[at].saw => s.output[at].text = arguments, s,
          Return([s EXCEPT !.output[at].text = arguments, !.output[at].done = TRUE],
                 <<ArgumentsDoneFrame(at, arguments), ItemDoneFrame(at, "tool", arguments)>>))

\* finish_message with append_reasoning_done_frames and append_message_done_frames
FinishMessage(s) ==
    LET done(i, kind) == <<ItemDoneFrame(i, kind, s.output[i].text)>>
    IN  Return([s EXCEPT !.texts = 0, !.thoughts = 0,
                         !.output = [i \in DOMAIN @ |->
                            IF i \in {s.texts, s.thoughts} THEN [@[i] EXCEPT !.done = TRUE]
                            ELSE @[i]]],
               (IF s.thoughts # 0 THEN <<ResponsesFrame("ignored")>> \o done(s.thoughts, "thinking")
                ELSE <<>>)
                 \o (IF s.texts # 0 THEN <<ResponsesFrame("ignored"), ResponsesFrame("ignored")>>
                                          \o done(s.texts, "text")
                     ELSE <<>>))

\* ResponsesTerminal::try_from_end: the reason reported in incomplete_details.
TerminalReason(reason) ==
    CASE reason \in {"end_turn", "stop", "tool_use", "tool_calls"} -> ""
      [] reason \in {"max_tokens", "length"} -> "max_output_tokens"
      [] reason \in {"refusal", "content_filter"} -> "content_filter"
      [] OTHER -> "none"

\* encode_response_end
EncodeEnd(s, end) ==
    Require(~end.sequence /\ TerminalReason(end.reason) # "none", s,
      Return([s EXCEPT !.reason = TerminalReason(end.reason)],
             <<[ResponsesFrame("end") EXCEPT !.reason = TerminalReason(end.reason),
                                             !.usage = s.usage]>>))

\* encode_valid_event
ResponsesEncodeValid(s, e) ==
    CASE e.kind = "ResponseStart"  ->
           Return(s, <<ResponsesFrame("created"), ResponsesFrame("in_progress")>>)
      [] e.kind = "MessageStart"   -> Return(s, <<>>)
      [] e.kind = "TextDelta"      -> AppendText(s, s.texts, "text", e.data)
      [] e.kind = "ReasoningDelta" -> AppendText(s, s.thoughts, "thinking", e.data)
      [] e.kind = "ToolCallStart"  -> BeginTool(s, e.call)
      [] e.kind = "ToolCallArgumentsDelta" -> AppendArguments(s, e.call, e.data)
      [] e.kind = "ToolCallEnd"    -> CompleteTool(s, e.call, e.data)
      [] e.kind = "UsageDelta"     -> Return([s EXCEPT !.usage = e.data], <<>>)
      [] e.kind = "MessageEnd"     -> FinishMessage(s)
      [] e.kind = "ResponseEnd"    -> EncodeEnd(s, e.data)
      [] e.kind = "StreamError"    -> Return(s, <<ResponsesFrame("failed")>>)

\* encode_event with ensure_representable_event_extensions
ResponsesEncode(s, e) ==
    Require((e.kind = "UsageDelta" => "cache" \notin e.data) /\ Accepts(s.state, e), s,
            ResponsesEncodeValid([s EXCEPT !.state = After(@, e)], e))

\* response_value of a response that ended
ResponsesCompleted(s) == [output |-> s.output, usage |-> s.usage, reason |-> s.reason]

-----------------------------------------------------------------------------
(***************************************************************************)
(* The OpenAI Chat Completions response codec: the decoder of an upstream  *)
(* response (crates/protocol-openai-chat/src/upstream_response.rs) and the *)
(* encoder of a client response (crates/protocol-openai-chat/src/lib.rs).  *)
(* A chunk carries at most one Tool delta here: several in one chunk are   *)
(* decoded in order, as if each had a chunk of its own.                    *)
(***************************************************************************)

ToolIndexes == 0..MaxToolCalls

NoTool == [call |-> NoCall, arguments |-> <<>>]

\* One SSE frame.  A chunk has a delta (text, and the Tool delta "tool" for
\* index "index", which is a declaration when it names a call), a finish reason
\* or "", and a usage or {}; "choice" is FALSE for the usage-only chunk.  A chunk
\* with a message repeats the whole text and, if "repeats", the open Tool calls; a
\* summary is an object "chat.completion" inside the stream.
ChatFrame(type) ==
    [type |-> type, choice |-> TRUE, summary |-> FALSE, text |-> <<>>,
     message |-> FALSE, whole |-> <<>>, repeats |-> FALSE,
     index |-> -1, call |-> NoCall, fragment |-> <<>>, finish |-> "", usage |-> {}]

ChatTextChunk(t)   == [ChatFrame("chunk") EXCEPT !.text = t]
ChatToolChunk(i, c, t) ==
    [ChatFrame("chunk") EXCEPT !.index = i, !.call = c, !.fragment = t]
ChatFinishChunk(reason) == [ChatFrame("chunk") EXCEPT !.finish = reason]
ChatUsageChunk(u)  == [ChatFrame("chunk") EXCEPT !.choice = FALSE, !.usage = u]

-----------------------------------------------------------------------------
(* OpenAiChatSseDecoder.  Each part of decode_chunk takes the outcome of   *)
(* the part before it and adds its events.                                 *)

ChatDecoder ==
    [phase |-> "Awaiting", state |-> InitialState, seen |-> FALSE, content |-> <<>>,
     tools |-> [i \in ToolIndexes |-> NoTool], finish |-> "", closed |-> FALSE, final |-> FALSE]

Declared(d) == { i \in ToolIndexes : d.tools[i] # NoTool }

\* The next part of a chunk: its events follow those already returned.
Then(r, Part(_)) ==
    IF r.verdict # "ok" THEN r
    ELSE LET next == Part(r.after) IN [next EXCEPT !.out = r.out \o @]

\* The first chunk opens the response and the message.
OpenChat(d, f) ==
    IF d.phase = "Awaiting"
    THEN Require(~f.summary, d,
                 Emit([d EXCEPT !.phase = "Streaming"], <<ResponseStart, MessageStart>>))
    ELSE Return(d, <<>>)

\* decode_choice_delta, is_redundant_final_text_delta and the text of decode_delta
ChatText(d, f) ==
    LET redundant == /\ f.summary /\ f.message /\ d.content # <<>> /\ Declared(d) = {}
                     /\ f.text = d.content /\ f.whole = d.content
    IN  IF f.text = <<>> \/ redundant THEN Return(d, <<>>)
        ELSE Emit([d EXCEPT !.seen = TRUE, !.content = @ \o f.text], <<TextDelta(f.text)>>)

\* decode_tool_delta
ChatTool(d, f) ==
    CASE f.index = -1 -> Return(d, <<>>)
      [] f.index # -1 /\ f.index \notin Declared(d) ->
           Require(Cardinality(Declared(d)) < MaxToolCalls /\ f.call # NoCall, d,
             Emit([d EXCEPT !.seen = TRUE,
                            !.tools[f.index] = [call |-> f.call, arguments |-> f.fragment]],
                  <<ToolCallStart(f.call)>>
                    \o IfAny(f.fragment, ArgumentsDelta(f.call, f.fragment))))
      [] f.index # -1 /\ f.index \in Declared(d) ->
           Require(/\ f.call = NoCall
                   /\ Len(d.tools[f.index].arguments \o f.fragment) <= MaxArgumentBytes, d,
             Emit([d EXCEPT !.tools[f.index].arguments = @ \o f.fragment],
                  IfAny(f.fragment, ArgumentsDelta(d.tools[f.index].call, f.fragment))))

FinishReasons == {"stop", "length", "tool_calls"}

\* decode_finish_reason
FinishReason(reason) ==
    CASE reason = "stop" -> "end_turn"
      [] reason = "length" -> "max_tokens"
      [] reason = "tool_calls" -> "tool_use"

\* The finish reason, validate_redundant_message and close_message: the calls end in
\* the order of their indexes, each with its arguments without the padding.
CloseChat(d, f) ==
    LET calls  == SetToSortSeq(Declared(d), <)
        ends   == [k \in DOMAIN calls |->
                     ToolCallEnd(d.tools[calls[k]].call, Trim(d.tools[calls[k]].arguments))]
        closed == [d EXCEPT !.tools = [i \in ToolIndexes |-> NoTool],
                            !.finish = FinishReason(f.finish), !.closed = TRUE]
    IN  IF f.finish = "" THEN Require(~f.summary /\ ~f.message, d, Return(d, <<>>))
        ELSE Require(/\ f.finish \in FinishReasons
                     /\ f.summary => f.message
                     /\ f.message => f.whole = d.content /\ (Declared(d) = {} \/ f.repeats)
                     /\ ~d.closed /\ d.seen
                     /\ \A i \in Declared(d) : IsJson(Trim(d.tools[i].arguments)), d,
               Emit(closed, ends \o <<MessageEnd>>))

\* emit_final_usage
ChatUsage(d, f) ==
    IF f.usage = {} THEN Require(f.choice, d, Return(d, <<>>))
    ELSE Require({"input", "output"} \subseteq f.usage /\ d.closed /\ ~d.final, d,
                 Emit([d EXCEPT !.final = TRUE], <<UsageDelta(f.usage, TRUE)>>))

\* decode_chunk
DecodeChunk(d, f) ==
    LET opened == OpenChat(d, f)
        choice == Then(Then(Then(opened, LAMBDA s : ChatText(s, f)),
                            LAMBDA s : ChatTool(s, f)),
                       LAMBDA s : CloseChat(s, f))
    IN  Then(IF f.choice THEN choice ELSE opened, LAMBDA s : ChatUsage(s, f))

\* complete, for the [DONE] marker
ChatDone(d) ==
    Require(d.phase = "Streaming" /\ d.closed, d,
            Emit([d EXCEPT !.phase = "Finished"], <<ResponseEnd(d.finish, FALSE)>>))

\* decode_frame
ChatDecode(d, f) ==
    CASE f.type = "comment"   -> Return(d, <<>>)
      [] f.type = "done"      -> ChatDone(d)
      [] f.type = "chunk"     -> DecodeChunk(d, f)
      [] f.type = "malformed" -> Refuse(d)

\* decode_upstream_response on an object into_completed_response built, as its events.
ChatDecodeCompleted(m) ==
    <<ResponseStart, MessageStart>>
      \o IfAny(m.text, TextDelta(m.text))
      \o FlattenSeq([k \in DOMAIN m.tools |->
            <<ToolCallStart(m.tools[k].call),
              ArgumentsDelta(m.tools[k].call, Trim(m.tools[k].arguments)),
              ToolCallEnd(m.tools[k].call, Trim(m.tools[k].arguments))>>])
      \o <<MessageEnd>>
      \o (IF m.usage # {} THEN <<UsageDelta(m.usage, TRUE)>> ELSE <<>>)
      \o <<ResponseEnd(FinishReason(m.finish), FALSE)>>

-----------------------------------------------------------------------------
(* ChatSseEncoder.  "State is unchanged when encoding fails."              *)

\* "tools" is in the order the calls started, which gives them their index.
ChatEncoder(includeUsage) ==
    [state |-> InitialState, text |-> <<>>, tools |-> <<>>, usage |-> {}, finish |-> "",
     include |-> includeUsage]

\* tool_mut
ToolAt(s, call) == CHOOSE k \in DOMAIN s.tools : s.tools[k].call = call

\* chat_finish_reason
ChatFinishReason(reason, tools) ==
    CASE reason \in {"tool_use", "tool_calls"} -> "tool_calls"
      [] reason \in {"max_tokens", "length"} -> "length"
      [] reason \in {"refusal", "content_filter"} -> "content_filter"
      [] reason \in {"end_turn", "stop"} /\ ~tools -> "stop"
      [] OTHER -> "none"

\* ResponseEnd: the finish chunk, the usage chunk if it was asked for, and [DONE].
EncodeChatEnd(s, end) ==
    LET finish == ChatFinishReason(end.reason, s.tools # <<>>)
    IN  Require(finish # "none", s,
          Return([s EXCEPT !.finish = finish],
                 <<ChatFinishChunk(finish)>>
                   \o (IF s.include /\ s.usage # {} THEN <<ChatUsageChunk(s.usage)>> ELSE <<>>)
                   \o <<ChatFrame("done")>>))

\* encode_valid_event
ChatEncodeValid(s, e) ==
    CASE e.kind \in {"ResponseStart", "MessageEnd"} -> Return(s, <<>>)
      [] e.kind = "MessageStart" -> Return(s, <<ChatTextChunk(<<>>)>>)
      [] e.kind = "TextDelta" ->
           Return([s EXCEPT !.text = @ \o e.data], <<ChatTextChunk(e.data)>>)
      [] e.kind = "ReasoningDelta" -> Refuse(s)
      [] e.kind = "ToolCallStart" ->
           Return([s EXCEPT !.tools = Append(@, [call |-> e.call, arguments |-> <<>>])],
                  <<ChatToolChunk(Len(s.tools), e.call, <<>>)>>)
      [] e.kind = "ToolCallArgumentsDelta" ->
           Return([s EXCEPT !.tools[ToolAt(s, e.call)].arguments = @ \o e.data],
                  <<ChatToolChunk(ToolAt(s, e.call) - 1, NoCall, e.data)>>)
      [] e.kind = "ToolCallEnd" ->
           Require(s.tools[ToolAt(s, e.call)].arguments = e.data, s, Return(s, <<>>))
      [] e.kind = "UsageDelta" ->
           Require({"input", "output"} \subseteq e.data /\ "cache" \notin e.data, s,
                   Return([s EXCEPT !.usage = e.data], <<>>))
      [] e.kind = "ResponseEnd" -> EncodeChatEnd(s, e.data)
      [] e.kind = "StreamError" -> Return(s, <<ChatFrame("malformed"), ChatFrame("done")>>)

\* encode_event
ChatEncode(s, e) ==
    Require(Accepts(s.state, e), s, ChatEncodeValid([s EXCEPT !.state = After(@, e)], e))

\* into_completed_response
ChatCompleted(s) == [text |-> s.text, tools |-> s.tools, usage |-> s.usage, finish |-> s.finish]
=============================================================================
