--------------------------- MODULE CanonicalEvent ---------------------------
(***************************************************************************)
(* The lifecycle of one canonical response, crates/gateway-core/src/       *)
(* canonical_event.rs.  Every producer and every consumer of a response    *)
(* (the bounded stream's two ends, the three SSE encoders, the collected   *)
(* JSON response) runs its own copy of this state machine, so it is kept   *)
(* here as operators on a state value.                                     *)
(*                                                                         *)
(* An event keeps its kind, the Tool call it names, and one flag: for      *)
(* UsageDelta "is_final"; for the others "the payload passes its           *)
(* non-empty checks" (text, call id and name, stop reason and sequence).   *)
(***************************************************************************)

CONSTANTS Calls, NoCall

-----------------------------------------------------------------------------
(* Events. *)

Plain(kind)       == [kind |-> kind, call |-> NoCall, flag |-> TRUE]
Flagged(kind, b)  == [kind |-> kind, call |-> NoCall, flag |-> b]
Named(kind, c, b) == [kind |-> kind, call |-> c, flag |-> b]

CanonicalEvents ==
  { Plain(k) : k \in {"ResponseStart", "MessageStart", "MessageEnd", "StreamError"} }
    \cup { Flagged(k, b) : k \in {"TextDelta", "ReasoningDelta", "UsageDelta", "ResponseEnd"},
                           b \in BOOLEAN }
    \cup { Named("ToolCallStart", c, b) : c \in Calls, b \in BOOLEAN }
    \cup { Named(k, c, TRUE) : k \in {"ToolCallArgumentsDelta", "ToolCallEnd"}, c \in Calls }

\* matches!(event, ResponseEnd | StreamError): the events that end a response.
Terminates(e) == e.kind \in {"ResponseEnd", "StreamError"}

-----------------------------------------------------------------------------
(* CanonicalEventState.  "msg", "tools" and "usage" are the fields of      *)
(* OpenResponse; outside Open they keep the last values and are not read.  *)

ToolLifecycles == {"Absent", "Declared", "ArgumentsStreaming", "Emitted"}

EventStates ==
  [life  : {"Initial", "Open", "Completed", "Failed"},
   msg   : BOOLEAN,
   tools : [Calls -> ToolLifecycles],
   usage : {"NotReported", "Interim", "Final"}]

InitialState ==
  [life |-> "Initial", msg |-> FALSE,
   tools |-> [c \in Calls |-> "Absent"], usage |-> "NotReported"]

IsTerminal(s) == s.life \in {"Completed", "Failed"}

HasOpenToolCall(s) == \E c \in Calls : s.tools[c] \in {"Declared", "ArgumentsStreaming"}

IsReadyToEnd(s) == ~s.msg /\ ~HasOpenToolCall(s)

\* Fault: a Tool call id can be declared again after the first call was emitted.
OpenAcceptsReuse(s, e) ==
  CASE e.kind = "MessageStart" -> ~s.msg
    [] e.kind \in {"TextDelta", "ReasoningDelta"} -> s.msg /\ e.flag
    [] e.kind = "ToolCallStart" ->
         s.msg /\ e.flag /\ s.tools[e.call] \in {"Absent", "Emitted"}
    [] e.kind \in {"ToolCallArgumentsDelta", "ToolCallEnd"} ->
         s.msg /\ s.tools[e.call] \in {"Declared", "ArgumentsStreaming"}
    [] e.kind = "UsageDelta" -> s.usage # "Final"
    [] e.kind = "MessageEnd" -> s.msg /\ ~HasOpenToolCall(s)
    [] OTHER -> FALSE

\* OpenResponse::apply and its helpers: which events an open response takes.
OpenAccepts(s, e) ==
  CASE e.kind = "MessageStart" -> ~s.msg
    [] e.kind \in {"TextDelta", "ReasoningDelta"} -> s.msg /\ e.flag
    [] e.kind = "ToolCallStart" -> s.msg /\ e.flag /\ s.tools[e.call] = "Absent"
    [] e.kind \in {"ToolCallArgumentsDelta", "ToolCallEnd"} ->
         s.msg /\ s.tools[e.call] \in {"Declared", "ArgumentsStreaming"}
    [] e.kind = "UsageDelta" -> s.usage # "Final"
    [] e.kind = "MessageEnd" -> s.msg /\ ~HasOpenToolCall(s)
    [] OTHER -> FALSE

\* What OpenResponse::apply writes when it takes the event.
OpenAfter(s, e) ==
  CASE e.kind = "MessageStart" -> [s EXCEPT !.msg = TRUE]
    [] e.kind = "MessageEnd" -> [s EXCEPT !.msg = FALSE]
    [] e.kind = "ToolCallStart" -> [s EXCEPT !.tools[e.call] = "Declared"]
    [] e.kind = "ToolCallArgumentsDelta" -> [s EXCEPT !.tools[e.call] = "ArgumentsStreaming"]
    [] e.kind = "ToolCallEnd" -> [s EXCEPT !.tools[e.call] = "Emitted"]
    [] e.kind = "UsageDelta" -> [s EXCEPT !.usage = IF e.flag THEN "Final" ELSE "Interim"]
    [] OTHER -> s

-----------------------------------------------------------------------------
(* CanonicalEventState::apply, split into its verdict and its new state.   *)

Verdict(s, e) ==
  CASE IsTerminal(s) -> "protocol"
    [] s.life = "Initial" -> IF e.kind = "ResponseStart" THEN "ok" ELSE "protocol"
    [] s.life = "Open" /\ e.kind = "StreamError" -> "ok"
    [] s.life = "Open" /\ e.kind = "ResponseEnd" ->
         IF ~IsReadyToEnd(s) THEN "truncated" ELSE IF e.flag THEN "ok" ELSE "protocol"
    [] s.life = "Open" /\ ~Terminates(e) -> IF OpenAccepts(s, e) THEN "ok" ELSE "protocol"

Accepts(s, e) == Verdict(s, e) = "ok"

After(s, e) ==
  CASE e.kind = "ResponseStart" -> [s EXCEPT !.life = "Open"]
    [] e.kind = "StreamError" -> [s EXCEPT !.life = "Failed"]
    [] e.kind = "ResponseEnd" -> [s EXCEPT !.life = "Completed"]
    [] OTHER -> OpenAfter(s, e)

\* "Applies one event while preserving the state if the event is invalid."
Applied(s, e) == IF Accepts(s, e) THEN After(s, e) ELSE s

\* finish(): the source may end only after a terminal event.
Finish(s) == IF IsTerminal(s) THEN "ok" ELSE "truncated"

\* require_success(): a failed response gives back the error it failed with.
RequireSuccess(s) ==
  CASE s.life = "Completed" -> "ok"
    [] s.life = "Failed" -> "carried"
    [] OTHER -> "truncated"
=============================================================================
