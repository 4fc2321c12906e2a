---------------------------- MODULE AnthropicCodec ----------------------------
(***************************************************************************)
(* The Anthropic Messages response codec: the decoder of an upstream       *)
(* response (crates/protocol-anthropic/src/upstream_response.rs) and the   *)
(* encoder of a client response (crates/protocol-anthropic/src/            *)
(* response.rs), each as a function from its state and one input to its    *)
(* next state and output.  A frame whose JSON fails one of the shape       *)
(* checks is the frame "malformed".                                        *)
(***************************************************************************)
EXTENDS CodecEvents

AnthropicStopReasons ==
    {"end_turn", "max_tokens", "model_context_window_exceeded", "pause_turn", "refusal",
     "stop_sequence", "tool_use"}

\* One SSE frame.  "kind" is the type of the block or of the delta.
AnthropicFrame(type) ==
    [type |-> type, index |-> 0, kind |-> "", call |-> NoCall, text |-> <<>>,
     usage |-> {}, reason |-> "", sequence |-> FALSE]

MessageStartFrame(u)      == [AnthropicFrame("message_start") EXCEPT !.usage = u]
BlockStartFrame(i, k, c)  ==
    [AnthropicFrame("content_block_start") EXCEPT !.index = i, !.kind = k, !.call = c]
BlockDeltaFrame(i, k, t)  ==
    [AnthropicFrame("content_block_delta") EXCEPT !.index = i, !.kind = k, !.text = t]
BlockStopFrame(i)         == [AnthropicFrame("content_block_stop") EXCEPT !.index = i]
MessageDeltaFrame(u, reason, sequence) ==
    [AnthropicFrame("message_delta") EXCEPT !.usage = u, !.reason = reason, !.sequence = sequence]

-----------------------------------------------------------------------------
(* AnthropicMessagesSseDecoder *)

\* ActiveBlock with its ToolArguments.
NoBlock == [kind |-> "none", call |-> NoCall, assembled |-> <<>>, released |-> 0]

AnthropicDecoder ==
    [phase |-> "Awaiting", state |-> InitialState, usage |-> {}, active |-> NoBlock,
     blocks |-> 0, ids |-> {}, content |-> FALSE, ended |-> FALSE,
     reason |-> "", sequence |-> FALSE, idle |-> 0]

\* input_usage_snapshot
InputSide(u) == u \cap {"input", "cache"}

\* consume_message_start
DecodeMessageStart(d, f) ==
    LET u == InputSide(f.usage)
    IN  Require(d.phase = "Awaiting", d,
          Emit([d EXCEPT !.phase = "Streaming", !.usage = u],
               <<ResponseStart>>
                 \o (IF "input" \in u THEN <<UsageDelta(u, FALSE)>> ELSE <<>>)
                 \o <<MessageStart>>))

\* consume_content_block_start.  The active block's index is always blocks - 1.
DecodeBlockStart(d, f) ==
    LET opened == [d EXCEPT !.active = [NoBlock EXCEPT !.kind = f.kind, !.call = f.call],
                            !.blocks = @ + 1]
    IN  Require(/\ d.phase = "Streaming" /\ ~d.ended
                /\ d.active = NoBlock /\ f.index = d.blocks, d,
          IF f.kind = "tool"
          THEN Require(Cardinality(d.ids) < MaxToolCalls /\ f.call \notin d.ids, d,
                 Emit([opened EXCEPT !.ids = @ \cup {f.call}, !.content = TRUE],
                      <<ToolCallStart(f.call)>>))
          ELSE Emit(opened, <<>>))

\* consume_content_block_delta for the active Tool block.
DecodePartialJson(d, partial) ==
    LET assembled == d.active.assembled \o partial
        delta     == ReleasedDelta(assembled, d.active.released)
        kept      == [d EXCEPT !.active.assembled = assembled,
                               !.active.released = ReleasedAfter(assembled, @)]
    IN  Require(Len(assembled) <= MaxArgumentBytes, d,
          Emit([kept EXCEPT !.content = @ \/ delta # <<>>],
               IfAny(delta, ArgumentsDelta(d.active.call, delta))))

\* consume_content_block_delta
DecodeBlockDelta(d, f) ==
    Require(d.phase = "Streaming" /\ d.active # NoBlock /\ f.index = d.blocks - 1, d,
      CASE f.kind = "signature" -> Emit(d, <<>>)
        [] f.kind # "signature" /\ f.kind # d.active.kind -> Refuse(d)
        [] f.kind = "tool" /\ d.active.kind = "tool" -> DecodePartialJson(d, f.text)
        [] f.kind = "text" /\ d.active.kind = "text" ->
             Emit([d EXCEPT !.content = @ \/ f.text # <<>>], IfAny(f.text, TextDelta(f.text)))
        [] f.kind = "thinking" /\ d.active.kind = "thinking" ->
             Emit([d EXCEPT !.content = @ \/ f.text # <<>>],
                  IfAny(f.text, ReasoningDelta(f.text))))

\* ToolArguments::completed: an absent value is the empty object.
CompletedArguments(t) == IF ValueEnd(t) <= ValueStart(t) THEN EmptyObject ELSE Trim(t)

\* consume_content_block_stop
DecodeBlockStop(d, f) ==
    LET closed    == [d EXCEPT !.active = NoBlock]
        arguments == CompletedArguments(d.active.assembled)
    IN  Require(d.phase = "Streaming" /\ d.active # NoBlock /\ f.index = d.blocks - 1, d,
          IF d.active.kind = "tool"
          THEN Require(IsObject(arguments), d,
                 Emit(closed, <<ToolCallEnd(d.active.call, arguments)>>))
          ELSE Emit(closed, <<>>))

\* consume_message_delta: the output count must come from this frame itself.
DecodeMessageDelta(d, f) ==
    LET u == d.usage \cup f.usage
    IN  Require(/\ d.phase = "Streaming" /\ d.active = NoBlock /\ ~d.ended /\ d.content
                /\ f.reason \in AnthropicStopReasons
                /\ "output" \in f.usage /\ "input" \in u, d,
          Emit([d EXCEPT !.usage = u, !.ended = TRUE,
                         !.reason = f.reason, !.sequence = f.sequence],
               <<MessageEnd, UsageDelta(u, TRUE)>>))

\* consume_message_stop
DecodeMessageStop(d) ==
    Require(d.phase = "Streaming" /\ d.ended, d,
      Emit([d EXCEPT !.phase = "Finished"], <<ResponseEnd(d.reason, d.sequence)>>))

\* consume_error: before message_start the error is returned, not published.
DecodeErrorFrame(d) ==
    Require(d.phase = "Streaming", d, Emit([d EXCEPT !.phase = "Finished"], <<StreamError>>))

\* note_progress_free_frame
ProgressFree(d) ==
    LET counted == [d EXCEPT !.idle = @ + 1]
    IN  IF counted.idle <= MaxProgressFree THEN Emit(counted, <<>>)
        ELSE Require(d.phase # "Awaiting", counted,
               Emit([counted EXCEPT !.phase = "Finished"], <<StreamError>>))

\* The frame kinds consume_frame dispatches on.
AnthropicDispatch(d, f) ==
    CASE f.type = "message_start"       -> DecodeMessageStart(d, f)
      [] f.type = "content_block_start" -> DecodeBlockStart(d, f)
      [] f.type = "content_block_delta" -> DecodeBlockDelta(d, f)
      [] f.type = "content_block_stop"  -> DecodeBlockStop(d, f)
      [] f.type = "message_delta"       -> DecodeMessageDelta(d, f)
      [] f.type = "message_stop"        -> DecodeMessageStop(d)
      [] f.type = "error"               -> DecodeErrorFrame(d)
      [] f.type \in {"ping", "malformed"} -> Refuse(d)

\* consume_frame: a frame that queued nothing spends the progress-free budget,
\* whatever its type.
AnthropicDecode(d, f) ==
    LET r == AnthropicDispatch(d, f)
    IN  CASE f.type = "ping" -> ProgressFree(d)
          [] f.type # "ping" /\ r.verdict # "ok" -> r
          [] f.type # "ping" /\ r.verdict = "ok" /\ r.out # <<>> ->
               [r EXCEPT !.after.idle = 0]
          [] f.type # "ping" /\ r.verdict = "ok" /\ r.out = <<>> -> ProgressFree(r.after)

-----------------------------------------------------------------------------
(* decode_upstream_response: the complete JSON message.                    *)

\* decode_completed_block.  raw_json writes the value without whitespace.
CompletedBlockEvents(b) ==
    LET compact == SelectSeq(b.text, LAMBDA ch : ch # " ")
    IN  CASE b.kind = "text"     -> IfAny(b.text, TextDelta(b.text))
          [] b.kind = "thinking" -> IfAny(b.text, ReasoningDelta(b.text))
          [] b.kind = "tool"     ->
               <<ToolCallStart(b.call), ArgumentsDelta(b.call, compact),
                 ToolCallEnd(b.call, compact)>>

\* decode_upstream_response on a message that completed_value built, as the events it returns.
AnthropicDecodeCompleted(m) ==
    <<ResponseStart, UsageDelta(InputSide(m.usage), FALSE), MessageStart>>
      \o FlattenSeq([i \in DOMAIN m.content |-> CompletedBlockEvents(m.content[i])])
      \o <<MessageEnd, UsageDelta(m.usage, TRUE), ResponseEnd(m.reason, m.sequence)>>
-----------------------------------------------------------------------------
(* AnthropicMessagesSseEncoder and its Assembly.  Block i of "content" has *)
(* the wire index i - 1; "active" is the open text or thinking block,      *)
(* "sse" the block whose frames are being written, 0 if none.              *)

AnthropicEncoder ==
    [state |-> InitialState, message |-> "NotStarted", content |-> <<>>, active |-> 0,
     next |-> 1, sse |-> 0, usage |-> {}, deferred |-> FALSE,
     reason |-> "", sequence |-> FALSE, terminal |-> "Open"]

\* ContentBlock together with its ToolState: "closed" is also "completed", and
\* "input" the completed arguments of a Tool.
ContentBlock(kind, call) ==
    [kind |-> kind, call |-> call, deltas |-> <<>>, emitted |-> 0, closed |-> FALSE,
     input |-> <<>>]

BlockText(b) == FlattenSeq(b.deltas)

\* The frames one block still owes, in the order start, deltas, stop.
BlockFrames(a, i) ==
    LET b == a.content[i]
    IN  (IF a.sse = i THEN <<>> ELSE <<BlockStartFrame(i - 1, b.kind, b.call)>>)
          \o [k \in 1..Len(b.deltas) - b.emitted |->
                 BlockDeltaFrame(i - 1, b.kind, b.deltas[b.emitted + k])]
          \o (IF b.closed THEN <<BlockStopFrame(i - 1)>> ELSE <<>>)

\* Fault: the following block is written although the current one is still open.
FlushOverlapping(a) ==
    LET last == Len(a.content)
    IN  Return([a EXCEPT !.next = last + 1, !.sse = 0,
                         !.content = [i \in DOMAIN @ |->
                            [@[i] EXCEPT !.emitted = Len(a.content[i].deltas)]]],
               FlattenSeq([k \in 1..(last - a.next + 1) |-> BlockFrames(a, a.next + k - 1)]))

\* flush_serialized_blocks: the blocks from "next" on are written in the order they
\* were started, up to and including the first one that is still open.
Flush(a) ==
    LET open == { i \in a.next..Len(a.content) : ~a.content[i].closed }
        last == IF open = {} THEN Len(a.content) ELSE Min(open)
    IN  Return([a EXCEPT !.next = IF open = {} THEN last + 1 ELSE last,
                         !.sse = IF open = {} THEN 0 ELSE last,
                         !.content = [i \in DOMAIN @ |->
                            IF i \in a.next..last
                            THEN [@[i] EXCEPT !.emitted = Len(a.content[i].deltas)] ELSE @[i]]],
               FlattenSeq([k \in 1..(last - a.next + 1) |-> BlockFrames(a, a.next + k - 1)]))

\* close_active_content_block
CloseActive(a) ==
    IF a.active = 0 THEN a
    ELSE [a EXCEPT !.active = 0, !.content[a.active].closed = TRUE]

\* A new block behind the last one.
PushBlock(a, kind, call) ==
    [CloseActive(a) EXCEPT !.content = Append(@, ContentBlock(kind, call)), !.message = "Content"]

\* open_content_block
OpenContentBlock(a, kind) ==
    IF a.active # 0 /\ a.content[a.active].kind = kind THEN a
    ELSE [PushBlock(a, kind, NoCall) EXCEPT !.active = Len(a.content) + 1]

\* append_content_delta
AppendContentDelta(a, kind, text) ==
    LET opened == OpenContentBlock(a, kind)
    IN  Require(a.message \in {"Started", "Content"}, a,
          Flush([opened EXCEPT !.content[opened.active].deltas = Append(@, text)]))

ToolBlock(a, call) == CHOOSE i \in DOMAIN a.content : a.content[i].call = call
HasTool(a, call)   == \E i \in DOMAIN a.content : a.content[i].call = call

\* start_tool
StartTool(a, call) ==
    Require(a.message \in {"Started", "Content"} /\ ~HasTool(a, call), a,
            Flush(PushBlock(a, "tool", call)))

\* append_tool_arguments
AppendToolArguments(a, call, delta) ==
    LET i == ToolBlock(a, call)
    IN  IF delta = <<>> THEN Return(a, <<>>)
        ELSE Require(HasTool(a, call) /\ ~a.content[i].closed, a,
               Flush([a EXCEPT !.content[i].deltas = Append(@, delta)]))

\* normalize_tool_arguments: nothing, or an empty object however it is spaced, is "{}".
NormalizedArguments(t) ==
    IF Trim(t) = <<>> \/ (IsObject(Trim(t)) /\ "v" \notin Range(t)) THEN EmptyObject ELSE t

\* finish_tool: the deltas must add up to the final arguments.
FinishTool(a, call, final) ==
    LET i         == ToolBlock(a, call)
        saw       == a.content[i].deltas # <<>>
        arguments == NormalizedArguments(final)
        completed == [a EXCEPT !.content[i].closed = TRUE, !.content[i].input = arguments]
    IN  Require(/\ HasTool(a, call) /\ ~a.content[i].closed
                /\ saw => NormalizedArguments(BlockText(a.content[i])) = arguments
                /\ IsObject(Trim(arguments)), a,
          Flush(IF saw \/ arguments = EmptyObject THEN completed
                ELSE [completed EXCEPT !.content[i].deltas = <<arguments>>]))

\* end_message
EndMessage(a) ==
    LET flushed == Flush(CloseActive(a))
    IN  Require(/\ a.message = "Content"
                /\ \A i \in DOMAIN a.content : a.content[i].kind = "tool" => a.content[i].closed
                /\ flushed.after.sse = 0 /\ flushed.after.next = Len(a.content) + 1, a,
          [flushed EXCEPT !.after.message = "Ended"])

\* start_message: an input count that is not known yet is owed to message_delta.
StartMessage(a) ==
    Require(a.message = "NotStarted", a,
      Return([a EXCEPT !.message = "Started", !.deferred = "input" \notin a.usage],
             <<MessageStartFrame(a.usage \cup {"output"})>>))

\* output_usage_value
OutputUsage(a) == IF a.deferred THEN a.usage ELSE {"output"}

\* end_response
EndResponse(a, end) ==
    Require(/\ a.message = "Ended" /\ a.terminal = "Open"
            /\ "output" \in a.usage /\ (a.deferred => "input" \in a.usage), a,
      Return([a EXCEPT !.reason = end.reason, !.sequence = end.sequence, !.terminal = "Completed"],
             <<MessageDeltaFrame(OutputUsage(a), end.reason, end.sequence),
               AnthropicFrame("message_stop")>>))

\* Assembly::apply
Assemble(a, e) ==
    CASE e.kind = "ResponseStart"  -> Return(a, <<>>)
      [] e.kind = "UsageDelta"     -> Return([a EXCEPT !.usage = @ \cup e.data], <<>>)
      [] e.kind = "MessageStart"   -> StartMessage(a)
      [] e.kind = "TextDelta"      -> AppendContentDelta(a, "text", e.data)
      [] e.kind = "ReasoningDelta" -> AppendContentDelta(a, "thinking", e.data)
      [] e.kind = "ToolCallStart"  -> StartTool(a, e.call)
      [] e.kind = "ToolCallArgumentsDelta" -> AppendToolArguments(a, e.call, e.data)
      [] e.kind = "ToolCallEnd"    -> FinishTool(a, e.call, e.data)
      [] e.kind = "MessageEnd"     -> EndMessage(a)
      [] e.kind = "ResponseEnd"    -> EndResponse(a, e.data)
      [] e.kind = "StreamError"    ->
           Return([a EXCEPT !.terminal = "Failed"], <<AnthropicFrame("error")>>)

\* ensure_representable
AnthropicRepresents(e) ==
    /\ e.kind = "UsageDelta" => e.data \cap Details = {}
    /\ e.kind = "ResponseEnd" => e.data.reason # ""

\* encode_event
AnthropicEncode(a, e) ==
    Require(AnthropicRepresents(e) /\ Accepts(a.state, e), a,
            Assemble([a EXCEPT !.state = After(@, e)], e))

\* into_completed_response and completed_value
AnthropicCompletes(a) ==
    /\ a.state.life = "Completed" /\ a.terminal = "Completed"
    /\ {"input", "output"} \subseteq a.usage

AnthropicCompleted(a) ==
    [content |-> [i \in DOMAIN a.content |->
        [kind |-> a.content[i].kind, call |-> a.content[i].call,
         text |-> IF a.content[i].kind = "tool" THEN a.content[i].input
                  ELSE BlockText(a.content[i])]],
     usage |-> a.usage, reason |-> a.reason, sequence |-> a.sequence]
=============================================================================
