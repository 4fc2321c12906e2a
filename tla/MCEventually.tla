---------------------------- MODULE MCEventually ----------------------------
(***************************************************************************)
(* The parts where someone waits for another's work: waiters of the first- *)
(* semantic-event boundary, followers of a catalog discovery, callers of   *)
(* the shared credential refresh of Grok accounts, and the client, the     *)
(* stream and the pump of one response.  The parts share no state: a       *)
(* behaviour is one of a single part while the others keep their initial   *)
(* state.                                                                  *)
(***************************************************************************)
EXTENDS BoundedStream, SharedFlights, ResponseBody, TLC

CONSTANTS c1, c2, c3, p1, p2

VARIABLES part

\* Two calls of refresh_if_expired share a process, a third runs in another.
TwoAndOne == (c1 :> p1) @@ (c2 :> p1) @@ (c3 :> p2)

Init ==
    /\ part \in {"boundary", "flight", "refresh", "response"}
    /\ FseInit /\ FlightInit /\ RefreshInit
    /\ IF part = "response" THEN RespInit ELSE RespIdle
    /\ part # "refresh" => \A c \in RefreshCallers : refreshes[c].now = 0

Next ==
    /\ \/ part = "boundary" /\ FseNext /\ UNCHANGED <<flightVars, refreshVars, respVars>>
       \/ part = "flight" /\ FlightNext /\ UNCHANGED <<fseVars, refreshVars, respVars>>
       \/ part = "refresh" /\ RefreshNext /\ UNCHANGED <<fseVars, flightVars, respVars>>
       \/ part = "response" /\ RespNext /\ UNCHANGED <<fseVars, flightVars, refreshVars>>
    /\ UNCHANGED part

\* Each part's own fairness, for the part that runs.
Spec ==
    /\ Init
    /\ [][Next]_<<fseVars, flightVars, refreshVars, respVars, part>>
    /\ \A d \in Deliverers :
          WF_fseVars(part = "boundary" /\ Deliver(d) /\ mark[d] = "notify")
    /\ \A w \in Waiters : WF_fseVars(part = "boundary" /\ (Polled(w) \/ Runs(w)))
    /\ \A f \in 1 .. MaxFlights :
          WF_flightVars(part = "flight" /\ f \in Flights /\ Finishes(f))
    /\ \A c \in Callers : WF_flightVars(part = "flight" /\ Answered(c))
    /\ \A c \in RefreshCallers : WF_refreshVars(part = "refresh" /\ RefreshStep(c))
    /\ WF_respVars(part = "response" /\ PumpRuns)
    /\ WF_respVars(part = "response" /\ BodyRuns)

(* Nobody waits for ever on work another does: a waiter of the first       *)
(* semantic event is released by the delivery or the cancellation wherever *)
(* in its wait they find it, a follower of a catalog discovery gets the    *)
(* result its source returned although the caller that started it left,    *)
(* and every call of refresh_if_expired returns although its leader fails, *)
(* is superseded or leaves an expired credential.                          *)
WaitersAnswered ==
    /\ WaitersReleased
    /\ FollowersAnswered
    /\ part = "refresh" => RefreshCallersAnswered
=============================================================================
