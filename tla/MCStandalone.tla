---------------------------- MODULE MCStandalone ----------------------------
(***************************************************************************)
(* Components that share no state with each other, explored in one run:    *)
(* a behaviour is a behaviour of one of them while the others keep a fixed *)
(* initial state, so the state space is the sum of theirs.                 *)
(***************************************************************************)
EXTENDS RouteSelection, EventSequence, CatalogDiff, UpstreamRequests

VARIABLE part

Init ==
    /\ part \in {"schedule", "sequence", "diff", "transform", "explain", "request"}
    /\ ScheduleInit
    /\ part # "schedule" => weights = <<1>>
    /\ SeqInit
    /\ DiffInit
    /\ IF part = "transform" THEN TransformInit ELSE TransformIdle
    /\ IF part = "explain" THEN ExplainInit ELSE ExplainIdle
    /\ IF part = "request" THEN RequestInit ELSE RequestIdle

Next ==
    /\ \/ /\ part = "schedule" /\ Pick
          /\ UNCHANGED <<seqVars, diffVars, transformVars, explainVars, requestVars>>
       \/ /\ part = "sequence" /\ SeqNext
          /\ UNCHANGED <<scheduleVars, diffVars, transformVars, explainVars, requestVars>>
       \/ /\ part = "diff" /\ DiffNext
          /\ UNCHANGED <<scheduleVars, seqVars, transformVars, explainVars, requestVars>>
       \/ /\ part = "transform" /\ TransformNext
          /\ UNCHANGED <<scheduleVars, seqVars, diffVars, explainVars, requestVars>>
       \/ /\ part = "explain" /\ ExplainNext
          /\ UNCHANGED <<scheduleVars, seqVars, diffVars, transformVars, requestVars>>
       \/ /\ part = "request" /\ RequestNext
          /\ UNCHANGED <<scheduleVars, seqVars, diffVars, transformVars, explainVars>>
    /\ UNCHANGED part

Spec ==
    /\ Init
    /\ [][Next]_<<scheduleVars, seqVars, diffVars, transformVars, explainVars, requestVars, part>>
=============================================================================
