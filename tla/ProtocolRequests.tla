-------------------------- MODULE ProtocolRequests --------------------------
(***************************************************************************)
(* gateway-router's protocol transforms: a request decoded in one client   *)
(* format is projected onto the format of the Endpoint that will serve it, *)
(* or refused.  A request here is a record of what the checks look at; its *)
(* extensions are a function from the extension names it carries.          *)
(***************************************************************************)
EXTENDS Integers, FiniteSets, Sequences, SequencesExt

Formats == {"chat", "responses", "messages"}
Modes == {"passthrough", "canonical", "lossless_bridge", "canonical_bridge"}
NoThinking == [effort |-> "absent", budget |-> 0]
Bad == -1   \* a thinking extension that is not a positive budget

VARIABLES
    job,      \* the projection asked for: pair, mode, capabilities, request
    there,    \* what the projection answered
    back      \* what projecting that answer back answers

transformVars == <<job, there, back>>

\* ProtocolTransformRejection: what a refusal may say.
Rejections ==
    {"unregistered", "passthrough_mismatch", "no_native_payload", "canonical_mismatch",
     "bridge_match", "request_extensions", "message_extensions", "content_extensions",
     "tool_extensions", "opaque", "thinking", "cache_control", "limit_missing",
     "limit_invalid", "limit_collision", "tool_history", "role", "streaming", "tools",
     "json_schema", "parallel_tools", "reasoning", "response_reasoning"}

-----------------------------------------------------------------------------
\* Checks run in order; the first that applies is the rejection.
First(checks) ==
    LET hit == SelectSeq(checks, LAMBDA c : c[1])
    IN  IF hit = <<>> THEN "none" ELSE hit[1][2]

output_limit_name(f) == <<"limit", f>>
tool_choice_name(f) == <<"choice", f>>
IsLimit(name) == name \in {output_limit_name(f) : f \in Formats}

REGISTERED_PROTOCOL_PAIRS == Formats \X Formats
protocol_pair_is_registered(s, t) == <<s, t>> \in REGISTERED_PROTOCOL_PAIRS

protocol_pair_is_publishable(s, t, mode, caps) ==
    /\ protocol_pair_is_registered(s, t)
    /\ mode \in {"passthrough", "canonical"} => s = t
    /\ mode = "lossless_bridge" => s # t
    /\ ~(s = "chat" /\ "reasoning" \in caps)

-----------------------------------------------------------------------------
(* From one format to another *)

Parts(m) == Range(m.content)
Extended(part) == part \in {"text+", "call+", "result+"}

reject_nested_extensions_and_opaque(r) == First(<<
    <<\E i \in DOMAIN r.messages : r.messages[i].extended, "message_extensions">>,
    <<\E i \in DOMAIN r.messages : \E p \in Parts(r.messages[i]) : Extended(p),
      "content_extensions">>,
    <<\E i \in DOMAIN r.messages : "opaque" \in Parts(r.messages[i]), "opaque">>,
    <<"extended" \in r.tools, "tool_extensions">> >>)

validate_output_limit(v) == v = "positive"

\* Only a forced choice crosses; any other choice has no agreed meaning.
Forced(f) == IF f = "messages" THEN "{any}" ELSE "required"

project_root_extensions(r, s, t) ==
    LET names == DOMAIN r.extensions
        limited == output_limit_name(s) \in names
        choosing == tool_choice_name(s) \in names
    IN  [error |-> First(<<
            <<\E n \in names : IsLimit(n) /\ n # output_limit_name(s), "limit_collision">>,
            <<names \ {output_limit_name(s), tool_choice_name(s)} # {}, "request_extensions">>,
            <<limited /\ ~validate_output_limit(r.extensions[output_limit_name(s)]),
              "limit_invalid">>,
            <<~limited /\ t = "messages", "limit_missing">>,
            <<choosing /\ (r.tools = {} \/ r.extensions[tool_choice_name(s)] # Forced(s)),
              "request_extensions">> >>),
         extensions |->
            [n \in (IF limited THEN {output_limit_name(t)} ELSE {})
                   \cup (IF choosing THEN {tool_choice_name(t)} ELSE {}) |->
               IF IsLimit(n) THEN r.extensions[output_limit_name(s)] ELSE Forced(t)]]

Efforts == <<"minimal", "low", "medium", "high", "xhigh", "max">>
Budgets == <<512, 1024, 8192, 24576, 32768, 128000>>
Level(effort) == CHOOSE i \in DOMAIN Efforts : Efforts[i] = effort

\* Fault: the bands are read with their upper end excluded.
budget_to_effort_exclusive(budget) ==
    CASE budget < 512 -> "minimal" [] budget < 1024 -> "low"
      [] budget < 8192 -> "medium" [] budget < 24576 -> "high" [] OTHER -> "xhigh"

budget_to_responses_effort(budget) ==
    CASE budget <= 512 -> "minimal" [] budget <= 1024 -> "low"
      [] budget <= 8192 -> "medium" [] budget <= 24576 -> "high" [] OTHER -> "xhigh"

Refused == [effort |-> "refused", budget |-> 0]

responses_thinking_to_messages(th) ==
    CASE th.effort = "none" -> [effort |-> "disabled", budget |-> 0]
      [] th.effort = "auto" -> [effort |-> "adaptive", budget |-> 0]
      [] th.effort \in Range(Efforts) ->
            [effort |-> "enabled", budget |-> Budgets[Level(th.effort)]]
      [] OTHER -> Refused

messages_thinking_to_responses(th) ==
    LET as(effort) == [effort |-> effort, budget |-> 0]
    IN  CASE th.budget = Bad -> Refused
          [] th.effort = "disabled" /\ th.budget = 0 -> as("none")
          [] th.effort = "adaptive" /\ th.budget = 0 -> as("auto")
          [] th.effort = "enabled" ->
                as(IF th.budget = 0 THEN "auto" ELSE budget_to_responses_effort(th.budget))
          [] OTHER -> Refused

project_thinking(th, s, t) ==
    CASE th = NoThinking -> NoThinking
      [] "chat" \in {s, t} -> Refused
      [] s = "responses" -> IF th.budget # 0 THEN Refused
                            ELSE responses_thinking_to_messages(th)
      [] OTHER -> messages_thinking_to_responses(th)

\* A leading developer message becomes the system prompt Messages has.
project_messages_roles(messages) ==
    [i \in DOMAIN messages |->
        IF messages[i].role = "developer" THEN [messages[i] EXCEPT !.role = "system"]
        ELSE messages[i]]

Cached(r) == r.cached

Cross(r, s, t, root, th) ==
    [error |-> First(<<
        <<reject_nested_extensions_and_opaque(r) # "none",
          reject_nested_extensions_and_opaque(r)>>,
        <<Cached(r), "cache_control">>,
        <<root.error # "none", root.error>>,
        <<th = Refused, "thinking">>,
        <<t = "messages" /\ \E i \in DOMAIN r.messages : i > 1 /\ r.messages[i].role = "developer",
          "role">> >>),
     request |-> [r EXCEPT
        !.extensions = root.extensions, !.thinking = th,
        !.messages = IF t = "messages" THEN project_messages_roles(@) ELSE @]]

project_cross_protocol(r, s, t) ==
    Cross(r, s, t, project_root_extensions(r, s, t), project_thinking(r.thinking, s, t))

-----------------------------------------------------------------------------
(* What the target format can carry *)

validate_tool_choice(value, t, hasTools) ==
    \/ value = Forced(t) /\ hasTools
    \/ value = "auto" /\ t = "responses"
    \/ value = "{auto}" /\ t = "messages"

validate_target_root_extensions(r, t) ==
    LET names == DOMAIN r.extensions
        limit == output_limit_name(t)
        choice == tool_choice_name(t)
    IN  First(<<
            <<limit \in names /\ ~validate_output_limit(r.extensions[limit]), "limit_invalid">>,
            <<choice \in names /\ ~validate_tool_choice(r.extensions[choice], t, r.tools # {}),
              "request_extensions">>,
            <<\E n \in names : IsLimit(n) /\ n # limit, "limit_collision">>,
            <<names \ {limit, choice} # {}, "request_extensions">>,
            <<t = "messages" /\ limit \notin names, "limit_missing">> >>)

validate_target_thinking(th, t) ==
    CASE th = NoThinking -> "none"
      [] t = "chat" -> "thinking"
      [] t = "responses" -> IF th.budget = 0 /\ th.effort \in Range(Efforts) \cup {"none", "auto"}
                            THEN "none" ELSE "thinking"
      [] OTHER -> IF messages_thinking_to_responses(th) = Refused THEN "thinking" ELSE "none"

IsText(part) == part \in {"text", "text+"}
IsCall(part) == part \in {"call", "call+"}

\* Text may only come first; an unnamed call is "call?".
valid_assistant_tool_history(content) ==
    \A i \in DOMAIN content : IsCall(content[i]) \/ (IsText(content[i]) /\ i = 1)

\* "result": a string that is no error; "failed": an error or structured output.
valid_tool_result_message(content, t) ==
    \/ content \in {<<"result">>, <<"result+">>}
    \/ content = <<"failed">> /\ t = "messages"

AllText(content) == \A i \in DOMAIN content : IsText(content[i])

valid_responses_content(role, content) ==
    \/ role \in {"system", "developer", "user"} /\ AllText(content)
    \/ role = "assistant" /\ valid_assistant_tool_history(content)
    \/ role = "tool" /\ valid_tool_result_message(content, "responses")

target_supports_role(t, role) ==
    role \in {"system", "user", "assistant", "tool"} \cup (IF t = "messages" THEN {}
                                                           ELSE {"developer"})

\* The content a Chat or a Messages Endpoint takes from one role.
ChatContent(role, content) ==
    \/ role \in {"system", "developer", "user"} /\ Len(content) = 1 /\ AllText(content)
    \/ role = "assistant" /\ valid_assistant_tool_history(content)
    \/ role = "tool" /\ valid_tool_result_message(content, "chat")
MessagesContent(role, content) ==
    /\ role = "tool" => valid_tool_result_message(content, "messages")
    /\ role = "assistant" => valid_assistant_tool_history(content)
    /\ role \in {"system", "user"} => AllText(content)

validate_target_message(m, position, t) == First(<<
    <<m.content = <<>>, "role">>,
    <<t = "messages" /\ m.role = "system" /\ position # 1, "role">>,
    <<\/ t = "chat" /\ ~ChatContent(m.role, m.content)
      \/ t = "responses" /\ ~valid_responses_content(m.role, m.content)
      \/ t = "messages" /\ ~MessagesContent(m.role, m.content), "tool_history">> >>)

MessageRejection(m, position, t) == First(<<
    <<m.extended, "message_extensions">>,
    <<\E p \in Parts(m) : Extended(p), "content_extensions">>,
    <<"opaque" \in Parts(m), "opaque">>,
    <<~target_supports_role(t, m.role), "role">>,
    <<TRUE, validate_target_message(m, position, t)>> >>)

canonical_rejection(r, t) ==
    LET root == validate_target_root_extensions(r, t)
        thinking == validate_target_thinking(r.thinking, t)
        refused == {i \in DOMAIN r.messages : MessageRejection(r.messages[i], i, t) # "none"}
        worst == CHOOSE i \in refused : \A j \in refused : i <= j
    IN  CASE root # "none" -> root
          [] Cached(r) -> "cache_control"
          [] r.messages = <<>> -> "role"
          [] refused # {} -> MessageRejection(r.messages[worst], worst, t)
          [] "extended" \in r.tools -> "tool_extensions"
          [] "misshapen" \in r.tools -> "tool_history"
          [] OTHER -> thinking

UsesTools(r) ==
    \/ r.tools # {}
    \/ \E i \in DOMAIN r.messages :
          \E p \in Parts(r.messages[i]) : ~IsText(p) /\ p # "opaque"

capability_rejection(j, r) == First(<<
    <<j.streaming /\ "streaming" \notin j.caps, "streaming">>,
    <<(UsesTools(r) \/ j.parallel) /\ "tools" \notin j.caps, "tools">>,
    <<(UsesTools(r) \/ j.schema) /\ "json" \notin j.caps, "json_schema">>,
    <<j.parallel /\ "parallel" \notin j.caps, "parallel_tools">>,
    <<r.thinking # NoThinking /\ "reasoning" \notin j.caps, "reasoning">> >>)

ModeRejection(j) == First(<<
    <<j.mode = "passthrough" /\ j.source # j.target, "passthrough_mismatch">>,
    <<j.mode = "passthrough" /\ ~j.native, "no_native_payload">>,
    <<j.mode = "canonical" /\ j.source # j.target, "canonical_mismatch">>,
    <<j.mode = "lossless_bridge" /\ j.source = j.target, "bridge_match">> >>)

Projected(j, cross) == [cross EXCEPT !.error = First(<<
    <<ModeRejection(j) # "none", ModeRejection(j)>>,
    <<j.mode = "passthrough", capability_rejection(j, j.request)>>,
    <<cross.error # "none", cross.error>>,
    <<canonical_rejection(cross.request, j.target) # "none",
      canonical_rejection(cross.request, j.target)>>,
    <<TRUE, capability_rejection(j, cross.request)>> >>)]

\* A passthrough request travels as the bytes the client sent.
project_protocol_request(j) ==
    Projected(j, IF j.source = j.target \/ j.mode = "passthrough"
                 THEN [error |-> "none", request |-> j.request]
                 ELSE project_cross_protocol(j.request, j.source, j.target))

project_registered_protocol_request(j) ==
    IF ~protocol_pair_is_registered(j.source, j.target)
    THEN [error |-> "unregistered", request |-> j.request]
    ELSE IF j.source = "chat" /\ "reasoning" \in j.caps
         THEN [error |-> "response_reasoning", request |-> j.request]
         ELSE project_protocol_request(j)

-----------------------------------------------------------------------------
(* A bridge there and back *)

\* Messages of each role, with content some format can or cannot carry.
Message(role, content) == [role |-> role, content |-> content, extended |-> FALSE]
Prompts ==
    {Message(role, content) : role \in {"system", "developer", "user", "robot"},
                              content \in {<<>>, <<"text">>, <<"text", "text">>, <<"call">>}}
    \cup {Message("user", <<part>>) : part \in {"text+", "opaque"}}
    \cup {[Message("user", <<"text">>) EXCEPT !.extended = TRUE]}
Replies ==
    {Message("assistant", content) : content \in {<<"text">>, <<"text", "call">>,
        <<"call", "call">>, <<"call", "text">>, <<"call?">>, <<"call+">>, <<"result">>}}
    \cup {Message("tool", content) : content \in {<<"result">>, <<"failed">>, <<"result+">>,
        <<"result", "result">>, <<"text">>}}
Conversations ==
    {<<>>} \cup {<<m>> : m \in Prompts} \cup {<<m, n>> : m, n \in Prompts \cup Replies}

Thoughts ==
    {NoThinking} \cup [effort : Range(Efforts) \cup {"none", "auto", "odd"}, budget : {0}]
    \cup [effort : {"disabled", "adaptive", "enabled"},
          budget : {Bad, 0, 1, 512, 513, 8192, 24577, 32768, 128000}]

\* The root extensions a client of format f may have sent.
Extensions(f) ==
    LET names == {<<"limit", g>> : g \in {f, "chat"}} \cup {<<"choice", f>>, <<"other", f>>}
    IN  UNION {[ns -> {"positive", "invalid", "required", "auto", "{any}", "{auto}"}] :
                 ns \in {ns \in SUBSET names : Cardinality(ns) < 3}}

Request(f) == [messages |-> <<Message("user", <<"text">>)>>, tools |-> {}, cached |-> FALSE,
               thinking |-> NoThinking,
               extensions |-> [n \in {output_limit_name(f)} |-> "positive"]]
Requests(f) ==
    {[Request(f) EXCEPT !.messages = ms] : ms \in Conversations}
    \cup {[Request(f) EXCEPT !.thinking = th, !.cached = c] : th \in Thoughts, c \in BOOLEAN}
    \cup {[Request(f) EXCEPT !.extensions = x, !.tools = ts] :
             x \in Extensions(f), ts \in {{}, {"plain"}, {"extended"}, {"plain", "misshapen"}}}

AllCaps == {"streaming", "tools", "json", "parallel", "reasoning"}
Job(s, t, mode, r, caps) ==
    [source |-> s, target |-> t, mode |-> mode, request |-> r, caps |-> caps,
     native |-> mode = "passthrough", streaming |-> FALSE, schema |-> FALSE, parallel |-> FALSE]

\* Chat has no place for reasoning, so it asks for Endpoints without.
Answerable(s) == IF s = "chat" THEN AllCaps \ {"reasoning"} ELSE AllCaps

Unanswered == [error |-> "unanswered", request |-> Request("chat")]

TransformInit ==
    /\ \E s, t \in Formats :
          \* a bridge for every request of format s
          \/ \E r \in Requests(s) :
                job = Job(s, t, "canonical_bridge", r, Answerable(s))
          \* every mode and capability for a plain request
          \/ \E mode \in Modes, caps \in SUBSET AllCaps,
                native, live, schema, parallel \in BOOLEAN :
                job = [Job(s, t, mode, Request(s), caps) EXCEPT !.native = native,
                         !.streaming = live, !.schema = schema, !.parallel = parallel]
    /\ there = Unanswered
    /\ back = Unanswered

\* Nothing is asked.
TransformIdle ==
    /\ job = Job("chat", "chat", "canonical", Request("chat"), {})
    /\ there = Unanswered
    /\ back = Unanswered

Forth ==
    /\ there = Unanswered
    /\ there' = project_registered_protocol_request(job)
    /\ UNCHANGED <<job, back>>

Back ==
    /\ there.error = "none"
    /\ back = Unanswered
    /\ back' = project_protocol_request(
          Job(job.target, job.source, "canonical_bridge", there.request, AllCaps))
    /\ UNCHANGED <<job, there>>

TransformNext == Forth \/ Back

-----------------------------------------------------------------------------
(* Properties *)

\* What a bridge is known to blur: a leading developer prompt reads as a
\* system prompt after a Messages hop, a thinking budget as the top of its
\* band, "max" as "xhigh", and "enabled" without a budget as "adaptive".
BandTop(b) == CASE b <= 512 -> 512 [] b <= 1024 -> 1024 [] b <= 8192 -> 8192
                [] b <= 24576 -> 24576 [] OTHER -> 32768
Blurred(r, s, t) == [r EXCEPT
    !.messages = IF t = "messages" THEN project_messages_roles(@) ELSE @,
    !.thinking =
        CASE @.effort = "max" -> [@ EXCEPT !.effort = "xhigh"]
          [] @.effort = "enabled" /\ @.budget = 0 -> [@ EXCEPT !.effort = "adaptive"]
          [] @.budget > 0 -> [@ EXCEPT !.budget = BandTop(@)]
          [] OTHER -> @]

\* What publication admits is what requests can use, and use unharmed.  A
\* projection is only accepted for a pair protocol_pair_is_publishable admits,
\* and a plain text request with its native payload is accepted for each such
\* pair.  project_cross_protocol loses nothing it does not refuse: a request
\* its own format can carry, once accepted by a bridge, is accepted by the
\* bridge back and returns as it was, up to the four blurs above.
BridgesFaithful ==
    LET publishable == protocol_pair_is_publishable(job.source, job.target, job.mode, job.caps)
        plain == /\ job.request = Request(job.source)
                 /\ job.native
                 /\ ~job.streaming /\ ~job.schema /\ ~job.parallel
        bridged == /\ job.source # job.target
                   /\ back # Unanswered
                   /\ canonical_rejection(job.request, job.source) = "none"
    IN  /\ there # Unanswered =>
             /\ there.error \in Rejections \/ publishable
             /\ publishable /\ plain => there.error = "none"
        /\ bridged => back = [error |-> "none",
                              request |-> Blurred(job.request, job.source, job.target)]

-----------------------------------------------------------------------------
(***************************************************************************)
(* The request decoders of the three client formats: what a client sent    *)
(* becomes one canonical request, or is refused.  A request on the wire is *)
(* a list of items, each a list of pieces; a piece is what one block of    *)
(* content says, reduced to its kind, a tag that stands for its text, its  *)
(* call id or its output, and the marks some decoder looks at.             *)
(***************************************************************************)

\* plain: a call's arguments are an object, a result's output is a string.
\* ext: a further field of the block: a cache retention or anything else.
Piece(kind, tag) ==
    [kind |-> kind, tag |-> tag, error |-> FALSE, plain |-> TRUE, ext |-> "none"]
Retentions == {"5m", "1h"}

\* A message, a function_call or a function_call_output; only Responses has
\* the latter two as items of their own.
Item(type, role, content) ==
    [type |-> type, role |-> role, content |-> content, extended |-> FALSE]

\* prompt is the instructions of Responses and the system of Messages.
Wire(items) ==
    [prompt |-> <<>>, items |-> items, tools |-> {}, choice |-> "absent",
     limit |-> "absent", thinking |-> NoThinking, cached |-> FALSE, control |-> "none",
     other |-> FALSE, live |-> FALSE]

Kinds(content) == {content[i].kind : i \in DOMAIN content}
EveryItem(w, P(_)) == \A i \in DOMAIN w.items : P(w.items[i])

-----------------------------------------------------------------------------
(* What the three decoders share *)

\* A tool_choice as each format writes it.
ChoiceValue(f, choice) ==
    CASE choice = "forced" -> Forced(f)
      [] choice = "auto" -> (IF f = "messages" THEN "{auto}" ELSE "auto")
      [] OTHER -> "odd"

\* Every root field that is not the format's own is kept under its prefix.
ExtensionsExcept(f, w, keepsChoice) ==
    [n \in (IF w.limit # "absent" THEN {output_limit_name(f)} ELSE {})
           \cup (IF keepsChoice THEN {tool_choice_name(f)} ELSE {})
           \cup (IF w.other THEN {<<"other", f>>} ELSE {}) |->
       CASE IsLimit(n) -> w.limit
         [] n = tool_choice_name(f) -> ChoiceValue(f, w.choice)
         [] OTHER -> "odd"]

Canonical(f, w, messages, cached, keepsChoice) ==
    [messages |-> messages, tools |-> w.tools, cached |-> cached, thinking |-> w.thinking,
     extensions |-> ExtensionsExcept(f, w, keepsChoice)]

-----------------------------------------------------------------------------
(* Chat Completions *)

\* A body that is no JSON, or in which an object repeats a name.
ChatRejectsDuplicateNames(w) == w.control = "duplicate"

\* The parameters are kept whatever they are; only the projection looks.
ChatDecodeTools(w) == w.tools

\* stream_options are the control of a response that is not streamed.
ChatControls(w) == w.control \in {"unimplemented"} \cup IF w.live THEN {} ELSE {"stream_options"}

ChatTextMessage(m) == Len(m.content) = 1 /\ Kinds(m.content) = {"text"}

\* Optional text, then the calls, and not nothing.
ChatAssistantMessage(m) ==
    /\ m.content # <<>>
    /\ \A i \in DOMAIN m.content :
          m.content[i].kind = "call" \/ (m.content[i].kind = "text" /\ i = 1)

ChatToolResultMessage(m) ==
    /\ Len(m.content) = 1
    /\ m.content[1].kind = "result" /\ m.content[1].plain /\ ~m.content[1].error

ChatDecodeMessage(m) ==
    /\ m.type = "message"
    /\ m.role \in {"system", "developer", "user", "assistant", "tool"}
    /\ m.role \in {"system", "developer", "user"} => ChatTextMessage(m)
    /\ m.role = "assistant" => ChatAssistantMessage(m)
    /\ m.role = "tool" => ChatToolResultMessage(m)

\* n, functions and parallel_tool_calls are refused as controls; "auto" is
\* dropped, a forced choice needs a tool and is kept.
ChatDecodeRequest(w) ==
    [ok |-> /\ ~ChatRejectsDuplicateNames(w) /\ ~ChatControls(w)
            /\ w.choice \in {"absent", "auto", "forced"}
            /\ w.items # <<>>
            /\ EveryItem(w, ChatDecodeMessage)
            /\ w.choice = "forced" => ChatDecodeTools(w) # {},
     request |-> Canonical("chat", w,
         [i \in DOMAIN w.items |->
             [role |-> w.items[i].role, content |-> w.items[i].content,
              extended |-> w.items[i].extended]],
         FALSE, w.choice = "forced")]

-----------------------------------------------------------------------------
(* Responses *)

RejectDuplicateJsonNames(w) == w.control = "duplicate"

DecodeInstructions(w) ==
    IF w.prompt = <<>> THEN <<>> ELSE <<Message("developer", w.prompt)>>

DecodeMessageItem(m) ==
    /\ m.role \in {"user", "developer", "system", "assistant"}
    /\ Kinds(m.content) \subseteq {"text", "opaque"}

DecodeFunctionCall(m) == Len(m.content) = 1 /\ Kinds(m.content) = {"call"}

\* An output with a status is refused, so no failed result gets in.
DecodeFunctionCallOutput(m) ==
    Len(m.content) = 1 /\ Kinds(m.content) = {"result"} /\ ~m.content[1].error

DecodeInputItem(m) ==
    \/ m.type = "message" /\ DecodeMessageItem(m)
    \/ m.type = "function_call" /\ DecodeFunctionCall(m)
    \/ m.type = "function_call_output" /\ DecodeFunctionCallOutput(m)

ItemRole(m) == CASE m.type = "function_call" -> "assistant"
                 [] m.type = "function_call_output" -> "tool"
                 [] OTHER -> m.role

DecodeInput(w) ==
    [i \in DOMAIN w.items |->
        [role |-> ItemRole(w.items[i]), content |-> w.items[i].content,
         extended |-> w.items[i].extended]]

\* background, store, conversation and the like are not implemented.
RejectUnimplementedExecutionControls(w) ==
    w.control \in {"unimplemented", "stream_options"}
    \/ w.choice \notin {"absent", "auto", "forced"}

DecodeTools(w) == "misshapen" \notin w.tools

ResponsesDecodeRequest(w) ==
    [ok |-> /\ ~RejectDuplicateJsonNames(w) /\ ~RejectUnimplementedExecutionControls(w)
            /\ EveryItem(w, DecodeInputItem)
            /\ DecodeTools(w)
            /\ w.choice = "forced" => w.tools # {},
     request |-> Canonical("responses", w, DecodeInstructions(w) \o DecodeInput(w),
                           w.cached, w.choice # "absent")]

-----------------------------------------------------------------------------
(* Messages *)

RejectDuplicateNames(w) == w.control = "duplicate"
MessagesDecodeTools(w) == "misshapen" \notin w.tools

RetentionsIn(content) == {content[i].ext : i \in DOMAIN content} \cap Retentions
\* CacheControlCollector: one retention for the whole request.
ObservedRetentions(w) ==
    RetentionsIn(w.prompt) \cup UNION {RetentionsIn(w.items[i].content) : i \in DOMAIN w.items}

ValidateMaxTokens(w) == validate_output_limit(w.limit)
DecodeThinking(th) == th.budget # Bad

DecodeContentBlock(piece, role) ==
    /\ piece.kind = "call" => role = "assistant"
    /\ piece.kind = "result" => role = "user"

DecodeMessage(m) ==
    /\ m.type = "message" /\ m.role \in {"user", "assistant"}
    /\ m.content # <<>>
    /\ \A i \in DOMAIN m.content : DecodeContentBlock(m.content[i], m.role)

\* Fault: the text before a Tool result is put after it.
SplitToolResultsLate(m) ==
    LET held == SelectSeq(m.content, LAMBDA p : p.kind # "result")
        results == SelectSeq(m.content, LAMBDA p : p.kind = "result")
    IN  [i \in DOMAIN results |-> [Message("tool", <<results[i]>>) EXCEPT
            !.extended = m.extended /\ i = 1]]
        \o (IF held = <<>> THEN <<>> ELSE <<[Message(m.role, held) EXCEPT
            !.extended = m.extended /\ results = <<>>]>>)

\* Every Tool result is a message of its own, what lies between two results
\* one message of the original role; the first carries the extensions.
SplitToolResults(m) ==
    LET Flush(s) == IF s.held = <<>> THEN s.out ELSE Append(s.out, Message(m.role, s.held))
        Step(s, piece) ==
            IF piece.kind = "result"
            THEN [out |-> Append(Flush(s), Message("tool", <<piece>>)), held |-> <<>>]
            ELSE [s EXCEPT !.held = Append(@, piece)]
        split == Flush(FoldLeft(Step, [out |-> <<>>, held |-> <<>>], m.content))
    IN  [i \in DOMAIN split |-> [split[i] EXCEPT !.extended = m.extended /\ i = 1]]

DecodeSystem(w) == IF w.prompt = <<>> THEN <<>> ELSE <<Message("system", w.prompt)>>

DecodeCanonicalRequest(w, requiresMaxTokens) ==
    [ok |-> /\ ~RejectDuplicateNames(w)
            /\ requiresMaxTokens => ValidateMaxTokens(w)
            /\ Cardinality(ObservedRetentions(w)) <= 1
            /\ Kinds(w.prompt) \subseteq {"text", "opaque"}
            /\ w.items # <<>>
            /\ EveryItem(w, DecodeMessage)
            /\ MessagesDecodeTools(w)
            /\ DecodeThinking(w.thinking),
     request |-> Canonical("messages", w,
         DecodeSystem(w) \o FlattenSeq([i \in DOMAIN w.items |-> SplitToolResults(w.items[i])]),
         ObservedRetentions(w) # {}, w.choice # "absent")]

MessagesDecodeRequest(w) == DecodeCanonicalRequest(w, TRUE)

\* Counting needs no limit and never streams.
DecodeCountTokensRequest(w) ==
    [DecodeCanonicalRequest(w, FALSE) EXCEPT !.ok = @ /\ ~w.live]

DecodeRequest(f, w) ==
    CASE f = "chat" -> ChatDecodeRequest(w)
      [] f = "responses" -> ResponsesDecodeRequest(w)
      [] OTHER -> MessagesDecodeRequest(w)
=============================================================================
