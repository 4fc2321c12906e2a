----------------------------- MODULE CodecEvents -----------------------------
(***************************************************************************)
(* What the three protocol codecs share: the texts of Tool arguments, the  *)
(* reported usage, canonical events with their payload, and the outcome of *)
(* decoding one frame.                                                     *)
(*                                                                         *)
(* A text is a sequence of one-character strings: " " stands for any JSON  *)
(* whitespace, "{" and "}" for the braces of an object and "v" for         *)
(* anything else.  A usage report is the set of counters it carries:       *)
(* "input", "output", "cache" (the two Anthropic cache counters), "cached" *)
(* and "reasoning" (the OpenAI details of the input and the output).       *)
(***************************************************************************)
EXTENDS CanonicalEvent, Integers, SequencesExt

CONSTANTS MaxToolCalls, MaxArgumentBytes, MaxProgressFree

ASSUME CodecConstants ==
    /\ MaxToolCalls \in Nat
    /\ MaxArgumentBytes \in Nat
    /\ MaxProgressFree \in Nat

Counters == {"input", "output", "cache", "cached", "reasoning"}

Details == {"cached", "reasoning"}

-----------------------------------------------------------------------------
(* Texts. *)

\* value_bounds(): the JSON value inside its padding.  A text of padding only has
\* its start behind its end.
ValueStart(t) == Cardinality({ i \in 1..Len(t) : \A j \in 1..i : t[j] = " " })
ValueEnd(t)   == Len(t) - Cardinality({ i \in 1..Len(t) : \A j \in i..Len(t) : t[j] = " " })

\* &text[from..to]
Slice(t, from, to) == SubSeq(t, from + 1, to)
Trim(t)            == Slice(t, ValueStart(t), ValueEnd(t))

EmptyObject == <<"{", "}">>

IsObject(t) ==
    /\ Len(t) >= 2 /\ t[1] = "{" /\ t[Len(t)] = "}"
    /\ \A i \in 2..Len(t) - 1 : t[i] \in {" ", "v"}

\* RawJson::from_json_string keeps the value without its padding.
IsJson(t) == IsObject(t) \/ t = <<"v">>

\* Fault: a fragment is released together with the padding that follows it.
ReleasedWithPadding(t, released) == Slice(t, Max({released, ValueStart(t)}), Len(t))

\* release_delta(): the bytes of the value that were not delivered yet.  Padding is
\* held back until a later byte shows that it is inside the value.
ReleasedDelta(t, released) == Slice(t, Max({released, ValueStart(t)}), ValueEnd(t))

ReleasedAfter(t, released) ==
    IF ReleasedDelta(t, released) = <<>> THEN released ELSE ValueEnd(t)

-----------------------------------------------------------------------------
(* Canonical events with their payload.  "flag" is what CanonicalEvent     *)
(* reads; "data" is the text, the usage or the end of the response.        *)

Event(kind, call, flag, data) == [kind |-> kind, call |-> call, flag |-> flag, data |-> data]

ResponseStart      == Event("ResponseStart", NoCall, TRUE, <<>>)
MessageStart       == Event("MessageStart", NoCall, TRUE, <<>>)
MessageEnd         == Event("MessageEnd", NoCall, TRUE, <<>>)
StreamError        == Event("StreamError", NoCall, TRUE, <<>>)
TextDelta(t)       == Event("TextDelta", NoCall, t # <<>>, t)
ReasoningDelta(t)  == Event("ReasoningDelta", NoCall, t # <<>>, t)
ToolCallStart(c)   == Event("ToolCallStart", c, TRUE, <<>>)
ArgumentsDelta(c, t) == Event("ToolCallArgumentsDelta", c, TRUE, t)
ToolCallEnd(c, t)  == Event("ToolCallEnd", c, TRUE, t)
UsageDelta(u, final) == Event("UsageDelta", NoCall, final, u)
ResponseEnd(reason, sequence) ==
    Event("ResponseEnd", NoCall, TRUE, [reason |-> reason, sequence |-> sequence])

\* An event that is sent only if its text is not empty.
IfAny(t, e) == IF t = <<>> THEN <<>> ELSE <<e>>

\* Consecutive apply() calls: the state after all of them, or the first refusal.
ApplyAll(s, events) ==
    FoldLeft(LAMBDA acc, e : IF acc.ok /\ Accepts(acc.s, e)
                             THEN [acc EXCEPT !.s = After(acc.s, e)]
                             ELSE [acc EXCEPT !.ok = FALSE],
             [ok |-> TRUE, s |-> s], events)

-----------------------------------------------------------------------------
(* What a sequence of canonical events says to its reader. *)

Nothing ==
    [text |-> <<>>, thought |-> <<>>,
     parts |-> [c \in Calls |-> <<>>], final |-> [c \in Calls |-> <<>>],
     started |-> {}, ended |-> {}, usage |-> {}, reason |-> "", sequence |-> FALSE]

Heard(v, e) ==
    CASE e.kind = "TextDelta"      -> [v EXCEPT !.text = @ \o e.data]
      [] e.kind = "ReasoningDelta" -> [v EXCEPT !.thought = @ \o e.data]
      [] e.kind = "ToolCallStart"  -> [v EXCEPT !.started = @ \cup {e.call}]
      [] e.kind = "ToolCallArgumentsDelta" -> [v EXCEPT !.parts[e.call] = @ \o e.data]
      [] e.kind = "ToolCallEnd"    -> [v EXCEPT !.final[e.call] = e.data,
                                                !.ended = @ \cup {e.call}]
      [] e.kind = "UsageDelta"     -> [v EXCEPT !.usage = @ \cup e.data]
      [] e.kind = "ResponseEnd"    -> [v EXCEPT !.reason = e.data.reason,
                                                !.sequence = e.data.sequence]
      [] OTHER -> v

HeardAll(v, events) == FoldLeft(Heard, v, events)

-----------------------------------------------------------------------------
(* The outcome of one call on a decoder or an encoder: its state           *)
(* afterwards and what it returned, or the error or panic that ended it.   *)

Outcome(verdict, after, out) == [verdict |-> verdict, after |-> after, out |-> out]

Return(d, out) == Outcome("ok", d, out)

Refuse(d) == Outcome("error", d, <<>>)
Panic(d)  == Outcome("panic", d, <<>>)

\* emit() / push_event(): every event passes the decoder's own lifecycle first.
Emit(d, events) ==
    LET run == ApplyAll(d.state, events)
    IN  IF run.ok THEN Return([d EXCEPT !.state = run.s], events) ELSE Refuse(d)

Require(guard, d, outcome) == IF guard THEN outcome ELSE Refuse(d)
=============================================================================
