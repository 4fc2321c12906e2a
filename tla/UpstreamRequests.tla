--------------------------- MODULE UpstreamRequests ---------------------------
(***************************************************************************)
(* A request on its way through the gateway: the client's bytes are        *)
(* decoded, projected onto the Endpoint's format, and written again by the *)
(* Endpoint's adapter, each of which carries a different part of what a    *)
(* canonical request can say and refuses the rest.                         *)
(***************************************************************************)
EXTENDS ProtocolRequests

Adapters == {"openai_chat", "openai_responses", "codex", "anthropic", "kiro",
             "grok_build", "grok_console", "grok_web", "grok_official"}

VARIABLES
    stage,      \* how far the request has come
    asked,      \* the client's format and bytes, the Endpoint's adapter, the mode
    decoded,    \* what the client decoder answered
    projected,  \* what the projection answered
    sent        \* what the adapter's request builder answered

requestVars == <<stage, asked, decoded, projected, sent>>

Undecoded == [ok |-> FALSE, request |-> [Request("chat") EXCEPT !.messages = <<>>]]
Unprojected == [error |-> "unanswered", request |-> Undecoded.request]
Sends(ok, wire, added) == [ok |-> ok, wire |-> wire, added |-> added]
Unsent == Sends(FALSE, Wire(<<>>), {})

-----------------------------------------------------------------------------
(* The projection *)

api_format(adapter) ==
    CASE adapter = "openai_chat" -> "chat"
      [] adapter \in {"anthropic", "kiro"} -> "messages"
      [] OTHER -> "responses"

ProviderSpecific == {"kiro", "grok_build", "grok_console", "grok_web", "grok_official"}

\* How ProtocolTransform reads a piece.
PartOf(p) ==
    CASE p.kind = "opaque" -> "opaque"
      [] p.ext # "none" -> [text |-> "text+", call |-> "call+", result |-> "result+"][p.kind]
      [] p.kind = "result" /\ (p.error \/ ~p.plain) -> "failed"
      [] OTHER -> p.kind
Shape(r) == [r EXCEPT !.messages =
    [i \in DOMAIN @ |-> [@[i] EXCEPT !.content = [k \in DOMAIN @ |-> PartOf(@[k])]]]]

\* The projection changes roles, thinking and root extensions, never content.
Refill(shape, r) == [shape EXCEPT !.messages =
    [i \in DOMAIN @ |-> [@[i] EXCEPT !.content = r.messages[i].content]]]

ProjectShape(a, r) ==
    project_registered_protocol_request(
        [Job(a.format, api_format(a.adapter), a.mode, Shape(r), Answerable(a.format))
            EXCEPT !.native = TRUE, !.streaming = a.wire.live])

project_candidate(a, r) ==
    IF a.adapter \in ProviderSpecific /\ a.mode \notin {"canonical", "canonical_bridge"}
    THEN [error |-> "unregistered", request |-> r]
    ELSE LET p == ProjectShape(a, r)
         IN  [error |-> p.error, request |-> Refill(p.request, r)]

-----------------------------------------------------------------------------
(* What the request builders share *)

Names(r) == DOMAIN r.extensions
\* insert_prefixed_extensions: a field of another format is refused.
OwnExtensions(r, f) == \A n \in Names(r) : n[2] = f

LimitOf(r, f) ==
    IF output_limit_name(f) \in Names(r) THEN r.extensions[output_limit_name(f)] ELSE "absent"
ChoiceOf(r, f) ==
    CASE tool_choice_name(f) \notin Names(r) -> "absent"
      [] r.extensions[tool_choice_name(f)] = Forced(f) -> "forced"
      [] OTHER -> "auto"

Written(r, f, items, live) == [Wire(items) EXCEPT
    !.tools = r.tools, !.choice = ChoiceOf(r, f), !.limit = LimitOf(r, f),
    !.thinking = r.thinking, !.cached = r.cached,
    !.other = <<"other", f>> \in Names(r), !.live = live]

EncodesTools(r) == "misshapen" \notin r.tools
EveryMessage(r, P(_)) == \A i \in DOMAIN r.messages : P(r.messages[i])
EveryPiece(m, P(_)) == \A i \in DOMAIN m.content : P(m.content[i])

\* A native payload is decoded again, and only its model is replaced.
ChatBuildNative(w) == Sends(ChatDecodeRequest(w).ok, w, {})
ResponsesBuildNative(w) == Sends(ResponsesDecodeRequest(w).ok, w, {})
MessagesBuildNative(w) == Sends(MessagesDecodeRequest(w).ok, w, {})
BuildNative(f, w) == CASE f = "chat" -> ChatBuildNative(w)
                       [] f = "responses" -> ResponsesBuildNative(w)
                       [] OTHER -> MessagesBuildNative(w)

-----------------------------------------------------------------------------
(* OpenAI Chat Completions *)

ChatEncodesMessage(m) ==
    /\ ChatContent(m.role, [i \in DOMAIN m.content |-> m.content[i].kind])
    /\ m.content # <<>>
    /\ EveryPiece(m, LAMBDA p : /\ p.kind # "call" => p.ext = "none"
                                /\ p.kind = "result" => p.plain /\ ~p.error)

ChatEncodesRoot(r) == EncodesTools(r) /\ OwnExtensions(r, "chat")

BuildChat(r, live) == Sends(
    /\ r.thinking = NoThinking /\ ~r.cached /\ r.messages # <<>>
    /\ EveryMessage(r, ChatEncodesMessage)
    /\ ChatEncodesRoot(r),
    Written(r, "chat", [i \in DOMAIN r.messages |->
        [Item("message", r.messages[i].role, r.messages[i].content)
            EXCEPT !.extended = r.messages[i].extended]], live),
    {})

-----------------------------------------------------------------------------
(* Responses: OpenAI, Codex and Grok Build *)

ItemType(p) == IF p.kind = "call" THEN "function_call" ELSE "function_call_output"
IsToolItem(p) == p.kind \in {"call", "result"}

ResponsesEncodesPiece(p, role) ==
    /\ p.kind = "call" => role = "assistant"
    /\ p.kind = "result" => role = "tool" /\ ~p.error /\ p.plain
    /\ p.kind = "text" => role # "tool"

ResponsesEncodesMessage(m) ==
    /\ m.role \in {"assistant", "developer", "system", "tool", "user"}
    /\ m.content # <<>>
    /\ m.extended => ~\E i \in DOMAIN m.content : IsToolItem(m.content[i])
    /\ EveryPiece(m, LAMBDA p : ResponsesEncodesPiece(p, m.role))

\* flush_message_parts: the texts so far become a message item.
FlushMessageParts(s, m) ==
    IF s.parts = <<>> THEN s.items
    ELSE Append(s.items, [Item("message", m.role, s.parts) EXCEPT !.extended = m.extended])

\* Calls and results are items of their own, in place.
InputItems(m) ==
    LET Step(s, p) ==
            IF IsToolItem(p)
            THEN [items |-> Append(FlushMessageParts(s, m), Item(ItemType(p), "", <<p>>)),
                  parts |-> <<>>]
            ELSE [s EXCEPT !.parts = Append(@, p)]
    IN  FlushMessageParts(FoldLeft(Step, [items |-> <<>>, parts |-> <<>>], m.content), m)

EncodeInput(messages) == FlattenSeq([i \in DOMAIN messages |-> InputItems(messages[i])])

BuildResponses(r, live) == Sends(
    /\ EveryMessage(r, ResponsesEncodesMessage)
    /\ EncodesTools(r) /\ OwnExtensions(r, "responses"),
    Written(r, "responses", EncodeInput(r.messages), live), {})

\* Codex always streams, never stores, and is given instructions.
force_store_false(s) == [s EXCEPT
    !.added = {"store"} \cup IF s.wire.prompt = <<>> THEN {"instructions"} ELSE {}]
force_streaming(s) == [s EXCEPT !.wire.live = TRUE]

\* Grok Build has the same encoder again.  Without a cache identity no prompt
\* cache key can be written, and a request that asks for one is refused.
GrokBuildEncodeInput(messages) == EncodeInput(messages)
GrokBuildEncodesPiece(p, role) == ResponsesEncodesPiece(p, role)
GrokBuildEncodesRoot(r) == EncodesTools(r) /\ OwnExtensions(r, "responses")
GrokBuildEncodeBody(r, live) == Written(r, "responses", GrokBuildEncodeInput(r.messages), live)

BuildGrokBuild(r, live) == Sends(
    /\ EveryMessage(r, ResponsesEncodesMessage)
    /\ EveryMessage(r, LAMBDA m : EveryPiece(m, LAMBDA p : GrokBuildEncodesPiece(p, m.role)))
    /\ GrokBuildEncodesRoot(r) /\ ~r.cached,
    GrokBuildEncodeBody(r, live), {})

-----------------------------------------------------------------------------
(* Responses: Grok official and Console *)

OfficialEncodesPiece(p) == p.ext = "none" /\ p.plain
OfficialEncodesMessage(m) ==
    /\ ResponsesEncodesMessage(m) /\ ~m.extended
    /\ EveryPiece(m, LAMBDA p : p.kind # "opaque" /\ OfficialEncodesPiece(p))
OfficialEncodesTools(r) == r.tools \subseteq {"plain"}
OfficialEncodesReasoning(th, efforts) == th = NoThinking \/ (th.budget = 0 /\ th.effort \in efforts)

OFFICIAL_REASONING_EFFORTS == {"low", "medium", "high"}
CONSOLE_REASONING_EFFORTS == {"low", "medium", "high", "xhigh"}

EncodeResponsesBody(r, live, efforts) == Sends(
    /\ ~r.cached /\ Names(r) = {}
    /\ EveryMessage(r, OfficialEncodesMessage)
    /\ OfficialEncodesTools(r)
    /\ OfficialEncodesReasoning(r.thinking, efforts),
    Written(r, "responses", EncodeInput(r.messages), live), {})

BuildOfficial(r, live) == EncodeResponsesBody(r, live, OFFICIAL_REASONING_EFFORTS)

\* A limit within the model's maximum is taken off and put back afterwards.
split_console_output_limit(r) ==
    [r EXCEPT !.extensions = [n \in Names(r) \ {output_limit_name("responses")} |-> @[n]]]

\* store=false, a limit and an effort of the model's where none was asked,
\* and the two search tools in front, with the choice left to the model.
NormalizeConsoleBody(s, limit) == [s EXCEPT
    !.wire.limit = IF limit = "absent" THEN "maximum" ELSE limit,
    !.wire.choice = "auto",
    !.added = {"store", "search"} \cup IF s.wire.thinking = NoThinking THEN {"effort"} ELSE {}]

BuildConsole(r, live) ==
    NormalizeConsoleBody(
        EncodeResponsesBody(split_console_output_limit(r), live, CONSOLE_REASONING_EFFORTS),
        LimitOf(r, "responses"))

-----------------------------------------------------------------------------
(* Grok web: one text in which "[role]" lines mark the speakers *)

web_output_limits_are_supported(r) ==
    Names(r) = {} \/ (Cardinality(Names(r)) = 1 /\ \A n \in Names(r) : IsLimit(n))

WebTakesMessage(m) ==
    /\ m.role \in {"assistant", "developer", "system", "user"}
    /\ m.content # <<>> /\ ~m.extended
    /\ EveryPiece(m, LAMBDA p : p.kind = "text" /\ p.ext = "none")

normalized_message(messages) ==
    [i \in DOMAIN messages |-> Item("transcript", messages[i].role, messages[i].content)]

BuildWeb(r) == Sends(
    /\ r.messages # <<>> /\ r.tools = {} /\ r.thinking = NoThinking /\ ~r.cached
    /\ web_output_limits_are_supported(r)
    /\ EveryMessage(r, WebTakesMessage),
    Wire(normalized_message(r.messages)), {})

-----------------------------------------------------------------------------
(* Anthropic Messages *)

EncodesBlock(p, role) ==
    /\ p.kind = "call" => role = "assistant"
    /\ p.kind = "result" => role \in {"user", "tool"}

EncodesTurn(m, position) ==
    /\ m.role \in {"system", "assistant", "user", "tool"}
    /\ m.role = "system" => position = 1 /\ ~m.extended
    /\ m.content # <<>>
    /\ m.role = "tool" => Len(m.content) = 1 /\ m.content[1].kind = "result"
    /\ EveryPiece(m, LAMBDA p : EncodesBlock(p, m.role))

flush_user_turn(s) ==
    IF s.turn = <<>> THEN s.items
    ELSE Append(s.items, [Item("message", "user", s.turn) EXCEPT !.extended = s.extended])

\* A user turn goes on until the decoder proves there was another message.
Continues(s, m) ==
    s.turn # <<>> /\ ~m.extended /\ ~(m.role = "user" /\ s.endedWithUser)

encode_messages(messages) ==
    LET Step(s, m) ==
            CASE m.role = "system" -> [s EXCEPT !.system = m.content]
              [] m.role = "assistant" ->
                    [s EXCEPT !.turn = <<>>, !.items = Append(flush_user_turn(s),
                        [Item("message", "assistant", m.content) EXCEPT !.extended = m.extended])]
              [] Continues(s, m) ->
                    [s EXCEPT !.turn = @ \o m.content, !.endedWithUser = m.role = "user"]
              [] OTHER ->
                    [s EXCEPT !.items = flush_user_turn(s), !.turn = m.content,
                              !.extended = m.extended, !.endedWithUser = m.role = "user"]
        end == FoldLeft(Step, [system |-> <<>>, items |-> <<>>, turn |-> <<>>,
                               extended |-> FALSE, endedWithUser |-> FALSE], messages)
    IN  [system |-> end.system, items |-> flush_user_turn(end)]

MessagesEncodesRoot(r) == EncodesTools(r) /\ OwnExtensions(r, "messages")

EncodeUpstream(r, live, encoded) == Sends(
    /\ \A i \in DOMAIN r.messages : EncodesTurn(r.messages[i], i)
    /\ encoded.items # <<>>
    /\ MessagesEncodesRoot(r)
    /\ validate_output_limit(LimitOf(r, "messages"))
    /\ r.cached = \E i \in DOMAIN r.messages : RetentionsIn(r.messages[i].content) # {},
    [Written(r, "messages", encoded.items, live) EXCEPT !.prompt = encoded.system], {})

encode_upstream_request(r, live) == EncodeUpstream(r, live, encode_messages(r.messages))

-----------------------------------------------------------------------------
(* Kiro *)

\* The output limit has no place in a Kiro conversation and is left behind.
p12_kiro_request_projection(r) ==
    [r EXCEPT !.extensions = [n \in Names(r) \ {output_limit_name("messages")} |-> @[n]]]

\* Ids of calls are declared once; a result answers a declared call, once.
HistoricalToolState(messages) ==
    LET Step(s, p) ==
            CASE p.kind = "call" -> [s EXCEPT !.ok = @ /\ p.tag \notin s.declared,
                                              !.declared = @ \cup {p.tag}]
              [] p.kind = "result" ->
                    [s EXCEPT !.ok = @ /\ p.tag \in s.declared \ s.resolved,
                              !.resolved = @ \cup {p.tag}]
              [] OTHER -> s
    IN  FoldLeft(Step, [ok |-> TRUE, declared |-> {}, resolved |-> {}],
                 FlattenSeq([i \in DOMAIN messages |-> messages[i].content]))

KiroUserPiece(p) == p.kind \in {"text", "result"} /\ p.ext = "none"
KiroAssistantPiece(p) ==
    p.kind \in {"text", "call"} /\ p.ext = "none" /\ (p.kind = "call" => p.plain)
KiroEncodesMessage(m) ==
    /\ m.content # <<>> /\ ~m.extended
    /\ \/ m.role = "user" /\ EveryPiece(m, KiroUserPiece)
       \/ m.role = "assistant" /\ EveryPiece(m, KiroAssistantPiece)
KiroEncodesTools(r) == r.tools \subseteq {"plain"}
\* The last message is the user's, whom Kiro is to answer.
SplitCurrentMessage(r) == r.messages # <<>> /\ Last(r.messages).role = "user"
RejectUnsupportedRequestFields(r) == Names(r) # {} \/ r.cached

\* The texts are joined; results and calls stand beside them.
KiroContent(content) ==
    SelectSeq(content, LAMBDA p : p.kind = "text")
    \o SelectSeq(content, LAMBDA p : p.kind # "text")

KiroTakes(r) ==
    /\ ~RejectUnsupportedRequestFields(r)
    /\ SplitCurrentMessage(r)
    /\ EveryMessage(r, KiroEncodesMessage)
    /\ HistoricalToolState(r.messages).ok
    /\ KiroEncodesTools(r)
    /\ r.thinking.budget = 0

BuildKiro(r, live) == Sends(
    KiroTakes(r),
    Written(r, "messages", [i \in DOMAIN r.messages |->
        Item("message", r.messages[i].role, KiroContent(r.messages[i].content))], live),
    {"environment"})

-----------------------------------------------------------------------------
(* The steps of a request *)

BuildOutbound(a, p) ==
    LET r == p.request
        live == a.wire.live
    IN  IF a.mode = "passthrough" THEN BuildNative(a.format, a.wire)
        ELSE CASE a.adapter = "openai_chat" -> BuildChat(r, live)
               [] a.adapter \in {"openai_responses", "codex"} -> BuildResponses(r, live)
               [] a.adapter = "grok_build" -> BuildGrokBuild(r, live)
               [] a.adapter = "grok_official" -> BuildOfficial(r, live)
               [] a.adapter = "grok_console" -> BuildConsole(r, live)
               [] a.adapter = "grok_web" -> BuildWeb(r)
               [] a.adapter = "anthropic" -> encode_upstream_request(r, live)
               [] OTHER -> BuildKiro(p12_kiro_request_projection(r), live)

Decode ==
    /\ stage = "received"
    /\ decoded' = DecodeRequest(asked.format, asked.wire)
    /\ stage' = IF decoded'.ok THEN "decoded" ELSE "refused"
    /\ UNCHANGED <<asked, projected, sent>>

Project ==
    /\ stage = "decoded"
    /\ projected' = project_candidate(asked, decoded.request)
    /\ stage' = IF projected'.error = "none" THEN "projected" ELSE "refused"
    /\ UNCHANGED <<asked, decoded, sent>>

Build ==
    /\ stage = "projected"
    /\ sent' = IF asked.adapter = "codex"
               THEN force_streaming(force_store_false(BuildOutbound(asked, projected)))
               ELSE BuildOutbound(asked, projected)
    /\ stage' = "built"
    /\ UNCHANGED <<asked, decoded, projected>>

RequestNext == Decode \/ Project \/ Build

-----------------------------------------------------------------------------
(* The requests asked *)

T1 == Piece("text", "t1")
T2 == Piece("text", "t2")
C1 == Piece("call", "c1")
C2 == Piece("call", "c2")
R1 == Piece("result", "c1")
R2 == Piece("result", "c2")
Image == Piece("opaque", "i")
Ext(p, ext) == [p EXCEPT !.ext = ext]
Rough(p) == [p EXCEPT !.plain = FALSE]
Failed(p) == [p EXCEPT !.error = TRUE]

Said(role, content) == Item("message", role, content)
Call(p) == Item("function_call", "", <<p>>)
Output(p) == Item("function_call_output", "", <<p>>)
Marked(m) == [m EXCEPT !.extended = TRUE]

\* How a conversation of each format goes on and ends.
Replied(f) ==
    {<<>>, <<Said("assistant", <<T1>>)>>}
    \cup (IF f = "responses"
          THEN {<<Call(C1)>>, <<Call(Rough(C1))>>, <<Call(C1), Call(C2)>>,
                <<Said("assistant", <<T2>>), Call(C1)>>, <<Call(C1), Said("assistant", <<T2>>)>>}
          ELSE {<<Said("assistant", c)>> :
                  c \in {<<C1>>, <<Rough(C1)>>, <<T2, C1>>, <<C1, T2>>, <<C1, C2>>, <<C1, C1>>}})
Endings(f) ==
    {<<>>, <<Said("user", <<T2>>)>>, <<Said("user", <<T2, T1>>)>>, <<Said("user", <<Image>>)>>,
     <<Said("user", <<T1>>), Said("user", <<T2>>)>>, <<Marked(Said("user", <<T2>>))>>,
     <<Said("system", <<T2>>)>>, <<Said("developer", <<T2>>)>>}
    \cup (CASE f = "chat" ->
                 {<<Said("tool", <<R1>>)>>, <<Said("tool", <<R1>>), Said("tool", <<R2>>)>>,
                  <<Said("tool", <<R1>>), Said("user", <<T2>>)>>}
            [] f = "responses" ->
                 {<<Output(r)>> : r \in {R1, Rough(R1), Failed(R1), Ext(R1, "other")}}
                 \cup {<<Output(R1), Output(R2)>>, <<Output(R1), Said("user", <<T2>>)>>}
            [] OTHER ->
                 {<<Said("user", c)>> :
                    c \in {<<R1>>, <<R1, T1>>, <<T1, R1>>, <<R1, T1, R2>>, <<R1, R2>>,
                           <<Failed(R1), R2>>, <<Rough(R1)>>, <<Ext(T1, "5m")>>,
                           <<Ext(T1, "5m"), Ext(T2, "1h")>>, <<T1, R1, T2>>}}
                 \cup {<<Said("user", <<R1>>), Said("user", <<T2>>)>>,
                       <<Marked(Said("user", <<T2, R1>>))>>})

\* With a limit where the Endpoint or the client's own format needs one.
Spoken(f, adapter) ==
    LET limit == IF "messages" \in {f, api_format(adapter)} THEN "positive" ELSE "absent"
    IN  {[Wire(o \o r \o e) EXCEPT !.limit = limit] :
            o \in {<<>>, <<Said("user", <<T1>>)>>}, r \in Replied(f), e \in Endings(f)}
        \cup {[Wire(<<Said(role, <<T1>>)>> \o e) EXCEPT !.limit = limit] :
                role \in {"system", "developer"}, e \in Endings(f)}

\* One plain question with everything else a request may say.
Question(f) == [Wire(<<Said("user", <<T1>>)>>) EXCEPT !.limit = "positive"]
Efforts3 == {NoThinking, [effort |-> "low", budget |-> 0], [effort |-> "xhigh", budget |-> 0],
             [effort |-> "enabled", budget |-> 0], [effort |-> "enabled", budget |-> 8192],
             [effort |-> "enabled", budget |-> Bad]}
Adorned(f) ==
    {[Question(f) EXCEPT !.tools = ts, !.choice = c, !.limit = limit, !.live = live] :
        ts \in {{}, {"plain"}, {"extended"}, {"misshapen"}},
        c \in {"absent", "auto", "forced", "odd"},
        limit \in {"absent", "positive", "invalid"}, live \in BOOLEAN}
    \cup {[Question(f) EXCEPT !.thinking = th, !.prompt = p, !.limit = limit] :
            th \in (IF f = "chat" THEN {NoThinking} ELSE Efforts3),
            p \in (IF f = "chat" THEN {<<>>} ELSE {<<>>, <<T2>>}),
            limit \in {"absent", "positive"}}
    \cup {[Question(f) EXCEPT !.control = c, !.other = o, !.cached = h] :
            c \in {"none", "duplicate"} \cup
                  (IF f = "messages" THEN {} ELSE {"unimplemented", "stream_options"}),
            o, h \in BOOLEAN}
    \cup {[Question(f) EXCEPT !.control = "stream_options", !.live = TRUE]}

RequestInit ==
    /\ \E f \in Formats, adapter \in Adapters,
          mode \in {"passthrough", "canonical_bridge"} :
          \E w \in Spoken(f, adapter) \cup Adorned(f) :
             /\ mode = "passthrough" => f = api_format(adapter)
             /\ asked = [format |-> f, wire |-> w, adapter |-> adapter, mode |-> mode]
    /\ stage = "received" /\ decoded = Undecoded /\ projected = Unprojected /\ sent = Unsent

RequestIdle ==
    /\ asked = [format |-> "chat", wire |-> Wire(<<>>), adapter |-> "kiro", mode |-> "canonical"]
    /\ stage = "received" /\ decoded = Undecoded /\ projected = Unprojected /\ sent = Unsent

-----------------------------------------------------------------------------
(* Properties *)

\* Who says what, in order: what a model reads in a request of any format.
Speaker(role, p) ==
    CASE p.kind = "call" -> "assistant"
      [] p.kind = "result" -> "tool"
      [] role = "developer" -> "system"
      [] OTHER -> role
Heed(role, content) ==
    [i \in DOMAIN content |-> [who |-> Speaker(role, content[i]), piece |-> content[i]]]
Reading(w) ==
    Heed("system", w.prompt)
    \o FlattenSeq([i \in DOMAIN w.items |-> Heed(w.items[i].role, w.items[i].content)])

\* The documented additions and omissions of single adapters.
LimitKept(a, s) ==
    CASE a.adapter \in {"kiro", "grok_web"} -> s.wire.limit = "absent"
      [] a.adapter = "grok_console" /\ a.wire.limit = "absent" -> s.wire.limit = "maximum"
      [] OTHER -> s.wire.limit = a.wire.limit

\* What an adapter cannot carry although the projection let it through.
AdapterTakes(a, r) ==
    LET calls == {m \in DOMAIN r.messages : "call" \in Kinds(r.messages[m].content)}
        tools == {m \in DOMAIN r.messages : r.messages[m].role = "tool"}
        plain == \A m \in DOMAIN r.messages :
                    EveryPiece(r.messages[m], LAMBDA p : p.plain)
        unforced == a.wire.choice = "absent" \/ (a.wire.choice = "auto" /\ a.format = "chat")
    IN  CASE a.adapter = "grok_official" ->
                 /\ unforced /\ a.wire.limit = "absent" /\ plain
                 /\ r.thinking.effort \in OFFICIAL_REASONING_EFFORTS \cup {"absent"}
          [] a.adapter = "grok_console" ->
                 /\ unforced /\ plain
                 /\ r.thinking.effort \in CONSOLE_REASONING_EFFORTS \cup {"absent"}
          [] a.adapter = "grok_web" ->
                 /\ unforced /\ calls = {} /\ tools = {} /\ r.tools = {}
                 /\ r.thinking = NoThinking
          [] a.adapter = "kiro" ->
                 /\ unforced /\ plain /\ tools = {} /\ r.thinking.budget = 0
                 /\ r.messages[1].role # "system" /\ Last(r.messages).role = "user"
                 /\ HistoricalToolState(r.messages).ok
          [] a.adapter = "anthropic" ->
                 \/ a.mode = "passthrough"
                 \/ \E m \in DOMAIN r.messages : r.messages[m].role # "system"
          [] OTHER -> TRUE

\* A request reaches the upstream saying what the client said, or not at all.
\* What is sent reads, piece by piece and speaker by speaker, as what was
\* received, with the same Tools, choice and limit up to the additions and
\* omissions named above, and thinking is asked exactly when the client asked.
\* A Messages body decodes again to the canonical request it was written from
\* (upstream_request.rs: encode_messages is "that projection's inverse").  And
\* no generic adapter or Grok Build refuses what the projection accepted, save
\* Anthropic a lone system prompt: a late refusal costs an attempt its lease.  The provider
\* specific adapters refuse exactly what AdapterTakes names; in particular no
\* answered Tool call reaches Kiro, and no Messages client Grok's official API.
RequestsCarried ==
    stage = "built" =>
        /\ sent.ok = AdapterTakes(asked, projected.request)
        /\ sent.ok =>
             /\ Reading(sent.wire) = Reading(asked.wire)
             /\ sent.wire.tools = asked.wire.tools
             /\ sent.wire.choice = "forced" <=> asked.wire.choice = "forced"
             /\ LimitKept(asked, sent)
             /\ sent.wire.thinking = NoThinking <=> asked.wire.thinking = NoThinking
             /\ asked.adapter = "anthropic" /\ asked.mode # "passthrough" =>
                  MessagesDecodeRequest(sent.wire).request = projected.request
             /\ asked.adapter = "openai_chat" =>
                  DecodeRequest("chat", sent.wire).request.messages = projected.request.messages
        /\ asked.adapter = "kiro" /\ sent.ok =>
             \A p \in Range(Reading(asked.wire)) : p.piece.kind # "result"
        /\ asked.adapter = "grok_official" /\ asked.format = "messages" => ~sent.ok
=============================================================================
