--------------------------- MODULE MCCodecPipeline ---------------------------
(***************************************************************************)
(* Two independent parts; a behaviour follows one of them.                 *)
(*                                                                         *)
(* "pipeline": two Tool calls.  The first has arguments of three symbols   *)
(* with trailing whitespace, the second either leading whitespace or no    *)
(* object at all; a completed item may repeat nothing, whitespace or a     *)
(* whole object.                                                           *)
(*                                                                         *)
(* "streams": the event sources of the providers, with two items, one Tool *)
(* call (two for Kiro), one letter of streamed text and chunks whose last  *)
(* record follows at most one event.                                       *)
(***************************************************************************)
EXTENDS CodecPipeline

CONSTANTS c1, c2
Arguments == (c1 :> {<<"{", "}", " ">>}) @@ (c2 :> {<<" ", "{", "}">>, <<"v">>})
Wholes == {<<>>, <<" ">>, <<"{", "}">>}

VARIABLES part, kind, parser, undelivered, reader, outcome, declared, late, retained

Streams ==
    INSTANCE ProviderStreams
      WITH Items <- {"i1", "i2"}, NoItem <- "none", MaxVisible <- 2, MaxConsecutiveErrors <- 2,
           PlanCalls <- {c2}, GrokCalls <- {c1}, MaxLetters <- 1, MaxUndelivered <- 2,
           Arguments <- {<<" ">>, <<"v">>, <<"{", "v", "}">>}

streamVars ==
    <<kind, parser, undelivered, reader, outcome, declared, late, retained>>

PartsInit ==
    /\ part \in {"pipeline", "streams"}
    /\ PipeInit /\ (part # "pipeline" => source = "chat")
    /\ Streams!StreamInit /\ (part # "streams" => kind = "web")

PartsNext ==
    \/ part = "pipeline" /\ PipeNext /\ UNCHANGED <<part, streamVars>>
    \/ part = "streams" /\ Streams!StreamNext /\ UNCHANGED <<part, pipeVars>>

PartsSpec == PartsInit /\ [][PartsNext]_<<part, pipeVars, streamVars>>

\* The event sources of the providers tell their reader what the upstream said: see
\* StreamsFaithful in ProviderStreams.
StreamsFaithful == Streams!StreamsFaithful
==============================================================================
