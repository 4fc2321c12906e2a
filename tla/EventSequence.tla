---------------------------- MODULE EventSequence ----------------------------
(***************************************************************************)
(* One CanonicalEventState fed with arbitrary events, valid or not, and    *)
(* the log of the events it accepted.  The state machine is compared with  *)
(* a definition of a well-formed response that looks only at the log.      *)
(***************************************************************************)
EXTENDS CanonicalEvent, Naturals, Sequences

CONSTANTS MaxLog

VARIABLES state, log

seqVars == <<state, log>>

SeqInit == state = InitialState /\ log = <<>>

\* CanonicalEventState::apply with any event.
Apply(e) ==
  /\ Accepts(state, e) => Len(log) < MaxLog
  /\ state' = Applied(state, e)
  /\ log' = IF Accepts(state, e) THEN Append(log, e) ELSE log

SeqNext == \E e \in CanonicalEvents : Apply(e)

-----------------------------------------------------------------------------
(* The reference: what may come next, told from the log alone.             *)

Indices(kinds) == { i \in 1..Len(log) : log[i].kind \in kinds }
Seen(kind)     == Indices({kind}) # {}
CallSeen(kind, c) == \E i \in Indices({kind}) : log[i].call = c

\* The last message boundary in the log is a MessageStart.
InMessage ==
  \E i \in Indices({"MessageStart"}) : \A j \in Indices({"MessageEnd"}) : j < i

Running(c) == CallSeen("ToolCallStart", c) /\ ~CallSeen("ToolCallEnd", c)

FinalUsageSeen == \E i \in Indices({"UsageDelta"}) : log[i].flag

Started == Seen("ResponseStart")
Ended   == Seen("ResponseEnd") \/ Seen("StreamError")

MayFollow(e) ==
  /\ ~Ended
  /\ Started <=> e.kind # "ResponseStart"
  /\ e.kind \in {"TextDelta", "ReasoningDelta", "ToolCallStart", "ToolCallArgumentsDelta",
                 "ToolCallEnd", "MessageEnd"} => InMessage
  /\ e.kind \in {"MessageStart", "ResponseEnd"} => ~InMessage
  /\ e.kind \in {"TextDelta", "ReasoningDelta", "ToolCallStart", "ResponseEnd"} => e.flag
  /\ e.kind = "ToolCallStart" => ~CallSeen("ToolCallStart", e.call)
  /\ e.kind \in {"ToolCallArgumentsDelta", "ToolCallEnd"} => Running(e.call)
  /\ e.kind = "MessageEnd" => \A c \in Calls : ~Running(c)
  /\ e.kind = "UsageDelta" => ~FinalUsageSeen

\* The state machine takes an event exactly when the log allows it: it never accepts
\* an ill-formed response and never refuses a well-formed one, and a refused event
\* leaves no trace (CanonicalEventState::apply).
AcceptsExactlyWellFormed ==
  \A e \in CanonicalEvents : Accepts(state, e) <=> MayFollow(e)
=============================================================================
