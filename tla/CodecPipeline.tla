--------------------------- MODULE CodecPipeline ----------------------------
(***************************************************************************)
(* ProtocolResponseProjector (crates/gateway-router/src/                   *)
(* response_transform.rs): narrows a decoded response to what the client's *)
(* protocol can name.  Targets are "chat", "responses" and "anthropic".    *)
(***************************************************************************)
EXTENDS AnthropicCodec, OpenAiCodecs

Protocols == {"chat", "responses", "anthropic"}

\* Both lifecycles, of the events taken and of the events passed on.
Projector(target) == [target |-> target, input |-> InitialState, output |-> InitialState]

\* The counters the target's usage object has no name for.
Unnamed(target) == IF target = "anthropic" THEN Details ELSE {"cache"}

\* project_response_end: the reason in the target's vocabulary, "none" if it has none.
ProjectedReason(reason, target) ==
    LET chat == target = "chat"
    IN  CASE reason \in {"end_turn", "stop"} -> IF chat THEN "stop" ELSE "end_turn"
          [] reason \in {"tool_use", "tool_calls"} -> IF chat THEN "tool_calls" ELSE "tool_use"
          [] reason \in {"max_tokens", "length"} -> IF chat THEN "length" ELSE "max_tokens"
          [] reason \in {"refusal", "content_filter"} ->
               IF chat THEN "content_filter" ELSE "refusal"
          [] reason \in {"stop_sequence", "model_context_window_exceeded", "pause_turn"} ->
               IF target = "anthropic" THEN reason ELSE "none"

\* Fault: an interim usage report is passed on to Chat as well.
ProjectEventKeepsInterim(e, target) ==
    CASE e.kind = "ReasoningDelta" /\ target = "chat" -> Refuse(e)
      [] e.kind = "UsageDelta" -> Return(e, <<[e EXCEPT !.data = @ \ Unnamed(target)]>>)
      [] e.kind = "ResponseEnd" ->
           LET reason == ProjectedReason(e.data.reason, target)
           IN  Require(reason # "none" /\ (e.data.sequence => target = "anthropic"), e,
                       Return(e, <<[e EXCEPT !.data.reason = reason]>>))
      [] OTHER -> Return(e, <<e>>)

\* project_event (the function)
ProjectEvent(e, target) ==
    CASE e.kind = "ReasoningDelta" /\ target = "chat" -> Refuse(e)
      [] e.kind = "UsageDelta" ->
           Return(e, IF target = "chat" /\ ~e.flag THEN <<>>
                     ELSE <<[e EXCEPT !.data = @ \ Unnamed(target)]>>)
      [] e.kind = "ResponseEnd" ->
           LET reason == ProjectedReason(e.data.reason, target)
           IN  Require(reason # "none" /\ (e.data.sequence => target = "anthropic"), e,
                       Return(e, <<[e EXCEPT !.data.reason = reason]>>))
      [] OTHER -> Return(e, <<e>>)

\* ProtocolResponseProjector::project_event
Project(p, e) ==
    LET projected == ProjectEvent(e, p.target)
        input     == ApplyAll(p.input, <<e>>)
        output    == ApplyAll(p.output, projected.out)
    IN  Require(projected.verdict = "ok" /\ input.ok /\ output.ok, p,
                Return([p EXCEPT !.input = input.s, !.output = output.s], projected.out))

-----------------------------------------------------------------------------
(***************************************************************************)
(* One streamed response on its way through the gateway: the decoder of    *)
(* the upstream's protocol, the projector (ProjectedEventSource in         *)
(* apps/gateway/src/runtime.rs) and the encoder of the client's protocol,  *)
(* for each pair of protocols.  The client reads what it receives with the *)
(* repository's own decoder of that protocol, as a second gateway in front *)
(* of this one would.                                                      *)
(*                                                                         *)
(* A request has one client.  What the upstream sends does not depend on   *)
(* it, so a behaviour follows one upstream stream to every kind of client  *)
(* at once, each on a lane that shares nothing with the others.            *)
(*                                                                         *)
(* "sent" is what the upstream said, "decoded" what the first decoder made *)
(* of it and a lane's "received" what that client's decoder made of the    *)
(* result.                                                                 *)
(***************************************************************************)

CONSTANTS
    Texts,       \* the arguments the upstream may send for each call, in any fragments
    Reports,     \* the whole arguments a Responses done frame may repeat
    MaxText,     \* characters of text and reasoning
    MaxBlocks    \* content blocks of an Anthropic upstream

ASSUME PipelineConstants == MaxText \in Nat /\ MaxBlocks \in Nat

VARIABLES
    source,    \* the upstream's protocol
    decoder, stage, sent, decoded,
    lanes      \* the way to each kind of client

pipeVars == <<source, decoder, stage, sent, decoded, lanes>>

-----------------------------------------------------------------------------
(* What the upstream said. *)

\* What the upstream itself says of a call's arguments: in fragments ("parts") and in
\* the done frames of the Responses protocol ("told").
Unsaid == [parts |-> [c \in Calls |-> <<>>], told |-> [c \in Calls |-> <<>>]]

Said(v, d, f) ==
    CASE source = "anthropic" /\ f.type = "content_block_delta" /\ d.active.kind = "tool"
              /\ f.kind = "tool" ->
           [v EXCEPT !.parts[d.active.call] = @ \o f.text]
      [] source = "responses" /\ f.type = "delta" /\ f.kind = "tool" ->
           [v EXCEPT !.parts[d.items[f.item].call] = @ \o f.text]
      [] source = "responses" /\ f.type \in {"arguments.done", "output_item.done"} /\ f.reported
              /\ d.items[f.item].call \notin decoded.ended ->
           [v EXCEPT !.told[d.items[f.item].call] = IF Trim(@) = <<>> THEN f.text ELSE @]
      [] source = "chat" /\ f.type = "chunk" /\ f.index # -1 ->
           [v EXCEPT !.parts[IF f.call # NoCall THEN f.call ELSE d.tools[f.index].call] =
                        @ \o f.fragment]
      [] OTHER -> v

-----------------------------------------------------------------------------
(* The three protocols behind one name. *)

Decoders(protocol) ==
    CASE protocol = "anthropic" -> {AnthropicDecoder}
      [] protocol = "responses" -> {ResponsesDecoder(b) : b \in BOOLEAN}
      [] protocol = "chat"      -> {ChatDecoder}

\* A Chat client may have asked for the usage chunk.
Clients == Protocols \cup {"chat with usage"}

Target(k) == IF k = "chat with usage" THEN "chat" ELSE k

Encoder(k) ==
    CASE k = "anthropic" -> AnthropicEncoder
      [] k = "responses" -> ResponsesEncoder
      [] Target(k) = "chat" -> ChatEncoder(k = "chat with usage")

ClientDecoder(k) ==
    CASE k = "anthropic" -> AnthropicDecoder
      [] k = "responses" -> ResponsesDecoder(FALSE)
      [] Target(k) = "chat" -> ChatDecoder

Decode(protocol, d, f) ==
    CASE protocol = "anthropic" -> AnthropicDecode(d, f)
      [] protocol = "responses" -> ResponsesDecode(d, f)
      [] protocol = "chat"      -> ChatDecode(d, f)

Encode(protocol, s, e) ==
    CASE protocol = "anthropic" -> AnthropicEncode(s, e)
      [] protocol = "responses" -> ResponsesEncode(s, e)
      [] protocol = "chat"      -> ChatEncode(s, e)

\* The events of the buffered response: encode, then decode the complete body.
Buffered(protocol, s) ==
    CASE protocol = "anthropic" -> AnthropicDecodeCompleted(AnthropicCompleted(s))
      [] protocol = "responses" -> ResponsesDecodeCompleted(ResponsesCompleted(s))
      [] protocol = "chat"      -> ChatDecodeCompleted(ChatCompleted(s))

-----------------------------------------------------------------------------
(* The frames an upstream may send next. *)

\* A call the upstream has named, or the next one.
NextCalls ==
    LET new == Calls \ decoded.started
    IN  decoded.started \cup (IF new = {} THEN {} ELSE {CHOOSE c \in new : TRUE})

\* What may follow the fragments already sent for a call.
NextFragments(c) ==
    LET said == sent.parts[c]
    IN  UNION { { SubSeq(x, Len(said) + 1, n) : n \in (Len(said) + 1)..Len(x) } :
                x \in { t \in Texts[c] : IsPrefix(said, t) } }

MoreText == IF Len(decoded.text) + Len(decoded.thought) < MaxText THEN {<<"v">>} ELSE {}

AnthropicInputs ==
    LET i == decoder.blocks
    IN  { MessageStartFrame(u) : u \in {{"output"}, {"input", "cache"}} }
          \cup { BlockStartFrame(i, k, NoCall) : k \in IF i < MaxBlocks THEN {"text", "thinking"}
                                                       ELSE {} }
          \cup { BlockStartFrame(i, "tool", c) : c \in IF i < MaxBlocks THEN NextCalls ELSE {} }
          \cup { BlockDeltaFrame(i - 1, k, t) : k \in {"text", "thinking"},
                                                t \in MoreText \cup {<<>>} }
          \cup { BlockDeltaFrame(i - 1, "tool", t) :
                   t \in IF decoder.active.kind = "tool" THEN NextFragments(decoder.active.call)
                         ELSE {<<"v">>} }
          \cup { BlockDeltaFrame(i - 1, "signature", <<>>), BlockStopFrame(i - 1) }
          \cup { MessageDeltaFrame(u, r, r = "stop_sequence") :
                   u \in {{"output"}, {"input", "output"}},
                   r \in {"end_turn", "tool_use", "refusal", "stop_sequence"} }
          \cup { AnthropicFrame(t) : t \in {"message_stop", "error", "ping", "malformed"} }

ResponsesInputs ==
    LET fresh == { i \in 1..MaxBlocks : \A j \in 1..i : j < i => decoder.items[j] # NoItem }
    IN  { [ResponsesFrame("created") EXCEPT !.usage = u] : u \in {{}, {"input", "cached"}} }
          \cup { ItemAddedFrame(i, k, NoCall) : i \in fresh, k \in {"text", "thinking"} }
          \cup { ItemAddedFrame(i, "tool", c) : i \in fresh, c \in NextCalls }
          \cup { ItemDeltaFrame(i, k, t) :
                   i \in 1..MaxBlocks, k \in {"text", "thinking"}, t \in MoreText }
          \cup UNION { { ItemDeltaFrame(i, "tool", t) :
                          t \in NextFragments(decoder.items[i].call) } :
                        i \in OpenTools(decoder) }
          \cup { [ArgumentsDoneFrame(i, t) EXCEPT !.reported = t # <<>>] :
                   i \in OpenTools(decoder), t \in Reports }
          \cup { ItemDoneFrame(i, "tool", t) : i \in OpenTools(decoder), t \in Reports }
          \cup { ItemDoneFrame(i, "text", <<>>) : i \in 1..MaxBlocks }
          \cup { [ResponsesFrame("end") EXCEPT !.usage = u, !.reason = r] :
                   u \in {{}, {"input"}, {"input", "output", "reasoning"}},
                   r \in {"", "max_output_tokens", "content_filter"} }
          \cup { ResponsesFrame(t) : t \in {"in_progress", "failed", "ignored", "malformed"} }

ChatInputs ==
    LET summary == [ChatFinishChunk("stop") EXCEPT !.summary = TRUE, !.message = TRUE]
    IN  { ChatTextChunk(t) : t \in MoreText \cup {<<>>} }
          \cup { ChatToolChunk(i, c, <<>>) : i \in ToolIndexes, c \in NextCalls \cup {NoCall} }
          \cup UNION { { ChatToolChunk(i, c, t) : i \in ToolIndexes \ Declared(decoder),
                                                 t \in NextFragments(c) } : c \in NextCalls }
          \cup UNION { { ChatToolChunk(i, NoCall, t) :
                          t \in NextFragments(decoder.tools[i].call) } :
                        i \in Declared(decoder) }
          \cup { ChatFinishChunk(r) : r \in {"stop", "length", "tool_calls", "content_filter"} }
          \cup { [summary EXCEPT !.text = t, !.whole = decoder.content, !.repeats = b] :
                   t \in {<<>>, decoder.content}, b \in BOOLEAN }
          \cup { ChatUsageChunk({"input", "output", "cached"}),
                 [ChatFinishChunk("stop") EXCEPT !.usage = {"input", "output"}] }
          \cup { ChatFrame(t) : t \in {"comment", "done", "malformed"} }

Inputs ==
    CASE source = "anthropic" -> AnthropicInputs
      [] source = "responses" -> ResponsesInputs
      [] source = "chat"      -> ChatInputs

-----------------------------------------------------------------------------
(* The pipeline. *)

PipeInit ==
    /\ source \in Protocols
    /\ decoder \in Decoders(source)
    /\ stage = "open"
    /\ sent = Unsaid /\ decoded = Nothing
    /\ lanes = [k \in Clients |->
                  [stage |-> "open", projector |-> Projector(Target(k)), encoder |-> Encoder(k),
                   client |-> ClientDecoder(k), received |-> Nothing]]

\* One frame in the client's decoder, which reads no further than the end.
Read(lane, r) ==
    CASE lane.stage = "unread" \/ lane.client.phase = "Finished" -> lane
      [] ~(lane.stage = "unread" \/ lane.client.phase = "Finished") /\ r.verdict # "ok" ->
           [lane EXCEPT !.stage = "unread"]
      [] ~(lane.stage = "unread" \/ lane.client.phase = "Finished") /\ r.verdict = "ok" ->
           [lane EXCEPT !.client = r.after, !.received = HeardAll(@, r.out)]

Deliver(k, lane, f) == Read(lane, Decode(Target(k), lane.client, f))

\* One decoded event through the projector and the encoder to the client; a refusal
\* of either closes the way.
ForwardEncoded(k, lane, projected, encoded) ==
    CASE lane.stage # "open" -> lane
      [] lane.stage = "open" /\ projected.verdict # "ok" -> [lane EXCEPT !.stage = "rejected"]
      [] lane.stage = "open" /\ projected.verdict = "ok" /\ encoded.verdict # "ok" ->
           [lane EXCEPT !.stage = "refused"]
      [] lane.stage = "open" /\ projected.verdict = "ok" /\ encoded.verdict = "ok" ->
           FoldLeft(LAMBDA l, f : Deliver(k, l, f),
                    [lane EXCEPT !.projector = projected.after, !.encoder = encoded.after],
                    encoded.out)

ForwardProjected(k, lane, projected) ==
    ForwardEncoded(k, lane, projected,
                   IF projected.out = <<>> THEN Return(lane.encoder, <<>>)
                   ELSE Encode(Target(k), lane.encoder, projected.out[1]))

Forward(k, lane, e) == ForwardProjected(k, lane, Project(lane.projector, e))

\* The upstream sends one frame and everything it gives rise to reaches the clients.
Decoded(f, r) ==
    /\ stage = "open"
    /\ decoder' = IF r.verdict = "ok" THEN r.after ELSE decoder
    /\ sent' = IF r.verdict = "ok" THEN Said(sent, decoder, f) ELSE sent
    /\ decoded' = HeardAll(decoded, r.out)
    /\ lanes' = [k \in Clients |-> FoldLeft(LAMBDA l, e : Forward(k, l, e), lanes[k], r.out)]
    /\ stage' = CASE r.verdict # "ok" -> r.verdict
                  [] r.verdict = "ok" /\ r.after.phase # "Finished" -> "open"
                  [] r.verdict = "ok" /\ r.after.phase = "Finished" -> r.after.state.life
    /\ UNCHANGED source

UpstreamFrame(f) == Decoded(f, Decode(source, decoder, f))

\* finish(): the body ends without a terminal frame.
UpstreamCloses ==
    /\ stage = "open"
    /\ stage' = "error"
    /\ UNCHANGED <<source, decoder, sent, decoded, lanes>>

PipeNext == (\E f \in Inputs : UpstreamFrame(f)) \/ UpstreamCloses

PipeSpec == PipeInit /\ [][PipeNext]_pipeVars
-----------------------------------------------------------------------------
(* Properties. *)

ArgumentBytes ==
    SumFunction([c \in Calls |-> Max({Len(decoded.parts[c]), Len(decoded.final[c])})])

HasBlankArguments(c) == sent.parts[c] # <<>> /\ Trim(sent.parts[c]) = <<>>

(* Whatever an upstream stream is encoded to, the repository's decoder of  *)
(* the client's protocol reads it: blocks never overlap, indexes and item  *)
(* ids are in order, no count that the reader insists on is left out.  The *)
(* exceptions are an upstream failure sent as Chat's error object or as an *)
(* Anthropic error before message_start, Chat's finish reason              *)
(* content_filter, which decode_finish_reason does not know, and more than *)
(* MAX_TOOL_ARGUMENT_BYTES of arguments in all, a limit that the Responses *)
(* decoder sets for the response and the others for each call.             *)
ClientCanRead ==
    \A k \in Clients : lanes[k].stage = "unread" =>
        \/ Target(k) = "chat" /\ (stage = "Failed" \/ decoded.reason = "refusal")
        \/ k = "anthropic" /\ stage = "Failed" /\ lanes[k].client.phase = "Awaiting"
        \/ k = "responses" /\ ArgumentBytes > MaxArgumentBytes

\* A text from its first character that is not padding on.
Unpadded(t) == Slice(t, ValueStart(t), Len(t))

\* A client that asked for one JSON object is told the same as one that asked
\* for a stream, and at least the usage the stream reports.
BufferedMatchesStream ==
    \A k \in Clients : stage = "Completed" /\ lanes[k].stage = "open" =>
        LET received   == lanes[k].received
            whole      == HeardAll(Nothing, Buffered(Target(k), lanes[k].encoder))
            compact(t) == SelectSeq(t, LAMBDA ch : ch # " ")
        IN  /\ whole.text = received.text /\ whole.thought = received.thought
            /\ whole.ended = received.ended
            /\ \A c \in Calls : compact(whole.final[c]) = compact(received.final[c])
            /\ whole.reason = received.reason /\ whole.sequence = received.sequence
            /\ received.usage \subseteq whole.usage

(* The client hears what the gateway decoded: at every moment a prefix of  *)
(* each text and of each call's arguments (a call that ends without a      *)
(* fragment may be told in one), and when the response completes all of    *)
(* it, however the encoder had to hold back and reorder blocks.  And the   *)
(* arguments a Tool call was decoded to are the upstream's: its fragments  *)
(* put together without the padding, else the ones a done frame reports,   *)
(* else an empty object.  The fragments passed on add up to them, so a     *)
(* client that executes the call early or late reads the same value.  The  *)
(* Chat decoder alone passes the padding on.                               *)
(* A client that asked for one JSON object is told the same text,          *)
(* reasoning, calls and reason as one that asked for a stream, and at      *)
(* least the usage the stream reports.                                     *)
ContentPreserved ==
    /\ \A k \in Clients :
          LET received == lanes[k].received
          IN  /\ IsPrefix(received.text, decoded.text)
              /\ IsPrefix(received.thought, decoded.thought)
              /\ \A c \in Calls : \E t \in {decoded.parts[c], decoded.final[c]} :
                    IsPrefix(Unpadded(received.parts[c]), Unpadded(t))
              /\ stage = "Completed" /\ lanes[k].stage = "open" =>
                   /\ received.text = decoded.text /\ received.thought = decoded.thought
                   /\ received.ended = decoded.ended /\ received.final = decoded.final
    /\ \A c \in decoded.ended :
          LET parts == Trim(sent.parts[c])
              told  == Trim(sent.told[c])
          IN  /\ decoded.final[c] = IF parts # <<>> THEN parts
                                    ELSE IF told # <<>> THEN told ELSE EmptyObject
              /\ \/ decoded.final[c] = IF source = "chat" THEN Trim(decoded.parts[c])
                                         ELSE decoded.parts[c]
                 \/ decoded.final[c] = EmptyObject /\ decoded.parts[c] = <<>>
    /\ BufferedMatchesStream

\* What an encoder may still refuse of a response that its decoder accepted.
Unencodable(target) ==
    \/ target = "chat" /\ \E c \in decoded.ended : decoded.parts[c] = <<>>
    \/ source = "chat" /\ \E c \in decoded.ended : decoded.parts[c] # decoded.final[c]
    \/ target = "chat" /\ decoded.reason = "end_turn" /\ decoded.started # {}
    \/ target = "anthropic" /\ \E c \in decoded.ended : ~IsObject(decoded.final[c])
    \/ target # "responses" /\ ~({"input", "output"} \subseteq decoded.usage)

(* The projector leaves the encoders little to refuse once the client has  *)
(* received data: a Tool call without arguments or with padded ones (Chat),*)
(* "stop" after a Tool call (Chat), arguments that are not an object       *)
(* (Anthropic) and a usage without both counts.  The projector itself      *)
(* refuses only reasoning for Chat and reasons only Anthropic has, and the *)
(* Responses decoder panics only on arguments that are all padding.        *)
RefusalsExplained ==
    /\ \A k \in Clients :
          /\ lanes[k].stage = "refused" => Unencodable(Target(k))
          /\ lanes[k].stage = "rejected" => \/ Target(k) = "chat" /\ decoded.thought # <<>>
                                            \/ k # "anthropic" /\ decoded.sequence
    /\ stage = "panic" => source = "responses" /\ \E c \in Calls : HasBlankArguments(c)
=============================================================================
