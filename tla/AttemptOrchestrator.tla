------------------------- MODULE AttemptOrchestrator -------------------------
(***************************************************************************)
(* gateway-router's AttemptOrchestrator: the retry loop of concurrent      *)
(* requests over one Route, composed with the credential leases, the       *)
(* runtime health and the runtime quota those requests share.              *)
(*                                                                         *)
(* Every read or write of shared state is a step of its own: a scan asks   *)
(* about one binding, then leases it, then (for a quota-recovery probe)    *)
(* takes the ticket, then starts, and other requests, the clock and the    *)
(* client act in between.  Leases are granted in one step, which           *)
(* CredentialPool implements; which eligible binding a scan meets first is *)
(* left open, since tiers and weights only order the choice.               *)
(***************************************************************************)
EXTENDS Integers, FiniteSets

CONSTANTS
    Requests,    \* concurrent requests for the Route
    Bindings,    \* its Candidate/Credential bindings
    Endpoint,    \* binding -> the Endpoint it uses
    Limit,       \* binding -> maximum concurrency of its credential
    MaxAttempts, \* the Route's max_attempts
    Bootstrap,   \* the Route's bootstrap_timeout_ms
    Extra,       \* what start_timeout adds: P12_NON_STREAMING_TOTAL_TIMEOUT or 0
    Grace,       \* QUOTA_RECOVERY_PROBE_GRACE
    Cooldown,    \* transient_cooldown
    RetryAfter,  \* retry-after durations, the fallback included
    TimerSlack,  \* how late a timer of the runtime may fire
    MaxTime,     \* bound on the clock
    NoBinding

ASSUME OrchestratorConstants ==
    /\ MaxAttempts \in Nat \ {0}
    /\ Bootstrap \in Nat \ {0}
    /\ Extra \in Nat
    /\ Grace \in Nat
    /\ Cooldown \in Nat \ {0}
    /\ RetryAfter \subseteq Nat \ {0}
    /\ TimerSlack \in Nat
    /\ TimerSlack < Grace
    /\ MaxTime \in Nat
    /\ NoBinding \notin Bindings

VARIABLES
    now,        \* the clock
    req,        \* request -> the locals of start_inner and its retry gate
    cool,       \* Endpoint -> end of its Cooldown
    blocked,    \* bindings marked unauthorized or forbidden
    quota,      \* binding -> its RuntimeQuotaState
    nextId      \* next recovery ticket

vars == <<now, req, cool, blocked, quota, nextId>>

-----------------------------------------------------------------------------
MaxOf(x, y) == IF x > y THEN x ELSE y

Endpoints == {Endpoint[b] : b \in Bindings}

\* A request's control point; those in Holding own a lease.
Holding == {"ticket", "selected", "running", "succeeded", "deliver", "failed",
            "recording", "decide", "streaming"}
Idle == {"new", "loop", "scan", "leasing", "done"}

Leased(b) == {r \in Requests : req[r].bind = b /\ req[r].pc \in Holding}

Fresh ==
    [pc |-> "new", recovery |-> FALSE, sel |-> 0, scanned |-> {},
     bind |-> NoBinding, excluded |-> {}, attempts |-> 0, deadline |-> 0,
     probe |-> 0, expires |-> 0, read |-> 0, failure |-> "none",
     last |-> "none", result |-> "none", events |-> 0,
     cancelled |-> FALSE, semantic |-> FALSE]

\* A binding with no snapshot, and one that an earlier 429 exhausted.
Available == [obs |-> 0, reset |-> 0, id |-> 0, exp |-> 0]
Exhausted == [obs |-> 0, reset |-> 1, id |-> 0, exp |-> 0]

RecoveryRequired(b) ==
    /\ quota[b].reset # 0
    /\ now >= quota[b].reset
    /\ ~(quota[b].id # 0 /\ now < quota[b].exp)

Init ==
    /\ now = 0
    /\ req = [r \in Requests |-> Fresh]
    /\ cool = [e \in Endpoints |-> 0]
    /\ blocked = {}
    /\ quota \in [Bindings -> {Available, Exhausted}]
    /\ nextId = 1

-----------------------------------------------------------------------------
\* The request ends: its selection, if any, is dropped.
Ended(q, result) ==
    [q EXCEPT !.pc = "done", !.bind = NoBinding, !.result = result,
              !.scanned = {}, !.excluded = {}, !.sel = 0, !.read = 0,
              !.failure = "none", !.last = "none", !.recovery = FALSE,
              !.deadline = 0, !.probe = 0, !.expires = 0,
              !.cancelled = FALSE, !.semantic = FALSE]

\* The last classified failure, else the given error.
LastOr(q, error) == IF q.last # "none" THEN q.last ELSE error

\* The attempt is reported to the event sink.
Reported(r) == [req[r] EXCEPT !.events = @ + 1]

CanStart(q) == q.attempts < MaxAttempts /\ now < q.deadline

\* RetryBudget::from_route
Begin(r) ==
    /\ req[r].pc = "new"
    /\ now + Bootstrap + Extra + TimerSlack <= MaxTime
    /\ req' = [req EXCEPT ![r] =
                  IF req[r].cancelled THEN Ended(@, "cancelled")
                  ELSE [@ EXCEPT !.pc = "loop", !.deadline = now + Bootstrap]]
    /\ UNCHANGED <<now, cool, blocked, quota, nextId>>

Iterate(r) ==
    /\ req[r].pc = "loop"
    /\ req' = [req EXCEPT ![r] =
                  IF req[r].cancelled THEN Ended(@, "cancelled")
                  ELSE IF ~CanStart(@) THEN Ended(@, LastOr(@, "egress"))
                  ELSE [@ EXCEPT !.pc = "scan", !.sel = now]]
    /\ UNCHANGED <<now, cool, blocked, quota, nextId>>

\* The binding predicate of the ordinary and of the quota-recovery selection.
Eligible(q, b) ==
    /\ b \notin q.excluded
    /\ cool[Endpoint[b]] <= now
    /\ b \notin blocked
    /\ IF q.recovery THEN RecoveryRequired(b) ELSE quota[b].reset = 0

Examine(r, b) ==
    /\ req[r].pc = "scan"
    /\ b \notin req[r].scanned
    /\ req' = [req EXCEPT ![r] =
                  IF Eligible(@, b)
                  THEN [@ EXCEPT !.pc = "leasing", !.bind = b]
                  ELSE [@ EXCEPT !.scanned = req[r].scanned \cup {b}]]
    /\ UNCHANGED <<now, cool, blocked, quota, nextId>>

Lease(r) ==
    /\ req[r].pc = "leasing"
    /\ req' = [req EXCEPT ![r] =
                  IF Cardinality(Leased(@.bind)) < Limit[@.bind]
                  THEN [@ EXCEPT !.pc = IF req[r].recovery THEN "ticket" ELSE "selected",
                                 !.scanned = {}]
                  ELSE [@ EXCEPT !.pc = "scan", !.bind = NoBinding,
                                 !.scanned = req[r].scanned \cup {req[r].bind}]]
    /\ UNCHANGED <<now, cool, blocked, quota, nextId>>

\* Ordinary selection found nothing: look for a due quota recovery instead.
NothingSelected(r) ==
    /\ req[r].pc = "scan"
    /\ req[r].scanned = Bindings
    /\ req' = [req EXCEPT ![r] =
                  IF @.recovery THEN Ended(@, LastOr(@, "unavailable"))
                  ELSE [@ EXCEPT !.recovery = TRUE, !.scanned = {}]]
    /\ UNCHANGED <<now, cool, blocked, quota, nextId>>

\* Fault: the ticket ends with the start ceiling, without the grace.
TicketExpiryNoGrace(q) == q.sel + (q.deadline - q.sel + Extra)

TicketExpiry(q) == q.sel + (q.deadline - q.sel + Extra) + Grace

\* begin_recovery_probe is the gate; a caller that loses it drops its lease.
BeginProbe(r) ==
    LET b == req[r].bind
        e == TicketExpiry(req[r])
    IN  /\ req[r].pc = "ticket"
        /\ \/ /\ RecoveryRequired(b) /\ e > now
              /\ quota' = [quota EXCEPT ![b].id = nextId, ![b].exp = e]
              /\ nextId' = nextId + 1
              /\ req' = [req EXCEPT ![r].pc = "selected", ![r].probe = nextId,
                                    ![r].expires = e]
           \/ /\ ~(RecoveryRequired(b) /\ e > now)
              /\ req' = [req EXCEPT ![r] = Ended(@, LastOr(@, "unavailable"))]
              /\ UNCHANGED <<quota, nextId>>
        /\ UNCHANGED <<now, cool, blocked>>

\* Fault: the budget is not checked again after selection.
StartUnchecked(r) ==
    /\ req[r].pc = "selected"
    /\ req' = [req EXCEPT ![r].pc = "running", ![r].attempts = @ + 1]
    /\ UNCHANGED <<now, cool, blocked, quota, nextId>>

Start(r) ==
    /\ req[r].pc = "selected"
    /\ req' = [req EXCEPT ![r] =
                  IF CanStart(@)
                  THEN [@ EXCEPT !.pc = "running", !.attempts = req[r].attempts + 1]
                  ELSE Ended(@, LastOr(@, "egress"))]
    /\ UNCHANGED <<now, cool, blocked, quota, nextId>>

-----------------------------------------------------------------------------
(* The biased select over cancellation, the driver and its timeout.        *)

\* started_at + start_timeout(deadline - started_at)
TimeoutAt(q) == q.deadline + Extra

Failures == {"transient", "limited", "denied", "rejected"}
Retryable == {"transient", "limited"}

CancelWins(r) ==
    /\ req[r].pc = "running"
    /\ req[r].cancelled
    /\ req' = [req EXCEPT ![r] = Ended(Reported(r), "cancelled")]
    /\ UNCHANGED <<now, cool, blocked, quota, nextId>>

\* Fault: the recovery probe runs outside the timeout.
TimeoutFiresOrdinary(r) ==
    /\ req[r].pc = "running"
    /\ ~req[r].cancelled
    /\ req[r].probe = 0
    /\ now >= TimeoutAt(req[r])
    /\ req' = [req EXCEPT ![r].pc = "failed", ![r].failure = "transient"]
    /\ UNCHANGED <<now, cool, blocked, quota, nextId>>

TimeoutFires(r) ==
    /\ req[r].pc = "running"
    /\ ~req[r].cancelled
    /\ now >= TimeoutAt(req[r])
    /\ req' = [req EXCEPT ![r].pc = "failed", ![r].failure = "transient"]
    /\ UNCHANGED <<now, cool, blocked, quota, nextId>>

DriverSucceeds(r) ==
    /\ req[r].pc = "running"
    /\ ~req[r].cancelled
    /\ req' = [req EXCEPT ![r].pc = IF req[r].probe # 0 THEN "succeeded" ELSE "deliver"]
    /\ UNCHANGED <<now, cool, blocked, quota, nextId>>

DriverFails(r, failure) ==
    /\ req[r].pc = "running"
    /\ ~req[r].cancelled
    /\ req' = [req EXCEPT ![r].pc = "failed", ![r].failure = failure]
    /\ UNCHANGED <<now, cool, blocked, quota, nextId>>

\* The driver itself reports AttemptFailure::Cancelled.
DriverCancels(r) ==
    /\ req[r].pc = "running"
    /\ req' = [req EXCEPT ![r] = Ended(Reported(r), "cancelled")]
    /\ UNCHANGED <<now, cool, blocked, quota, nextId>>

\* Output of the attempt reaches the client while it is still starting.
SemanticEvent(r) ==
    /\ req[r].pc = "running"
    /\ req' = [req EXCEPT ![r].semantic = TRUE]
    /\ UNCHANGED <<now, cool, blocked, quota, nextId>>

-----------------------------------------------------------------------------
\* complete_quota_recovery_probe: the registry refuses a ticket that is not
\* current, and the attempt succeeds all the same.
CompleteProbe(r) ==
    LET b == req[r].bind
    IN  /\ req[r].pc = "succeeded"
        /\ quota' = IF /\ quota[b].id = req[r].probe
                       /\ now < req[r].expires
                       /\ now >= quota[b].obs
                    THEN [quota EXCEPT ![b] = [Available EXCEPT !.obs = now]]
                    ELSE quota
        /\ req' = [req EXCEPT ![r].pc = "deliver", ![r].probe = 0, ![r].expires = 0]
        /\ UNCHANGED <<now, cool, blocked, nextId>>

Deliver(r) ==
    /\ req[r].pc = "deliver"
    /\ req' = [req EXCEPT ![r] =
                  IF req[r].cancelled
                  THEN Ended(Reported(r), "cancelled")
                  ELSE [Ended(Reported(r), "ok")
                           EXCEPT !.pc = "streaming", !.bind = req[r].bind]]
    /\ UNCHANGED <<now, cool, blocked, quota, nextId>>

StreamEnds(r) ==
    /\ req[r].pc = "streaming"
    /\ req' = [req EXCEPT ![r] = Ended(@, "ok")]
    /\ UNCHANGED <<now, cool, blocked, quota, nextId>>

\* record_runtime_state reads the clock before it reaches a registry.
ReadClock(r) ==
    /\ req[r].pc = "failed"
    /\ req' = [req EXCEPT ![r].pc = "recording", ![r].read = now]
    /\ UNCHANGED <<now, cool, blocked, quota, nextId>>

Recorded(r) == req' = [req EXCEPT ![r].pc = "decide", ![r].read = 0]

\* The registry refused: report it and end rather than retry unrecorded.
NotRecorded(r) ==
    /\ req' = [req EXCEPT ![r] = Ended(Reported(r), "internal")]
    /\ UNCHANGED <<cool, blocked, quota>>

RecordCooldown(r) ==
    LET until == req[r].read + Cooldown
        e == Endpoint[req[r].bind]
    IN  \/ /\ until > now
           /\ cool' = [cool EXCEPT ![e] = MaxOf(@, until)]
           /\ Recorded(r)
           /\ UNCHANGED <<blocked, quota>>
        \/ until <= now /\ NotRecorded(r)

RecordRateLimited(r, d) ==
    LET b == req[r].bind
    IN  \/ /\ req[r].read >= quota[b].obs
           /\ quota' = [quota EXCEPT ![b] =
                  [obs |-> req[r].read, reset |-> req[r].read + d, id |-> 0, exp |-> 0]]
           /\ Recorded(r)
           /\ UNCHANGED <<cool, blocked>>
        \/ req[r].read < quota[b].obs /\ NotRecorded(r)

RecordDenied(r) ==
    /\ blocked' = blocked \cup {req[r].bind}
    /\ Recorded(r)
    /\ UNCHANGED <<cool, quota>>

RecordState(r) ==
    /\ req[r].pc = "recording"
    /\ CASE req[r].failure = "transient" -> RecordCooldown(r)
         [] req[r].failure = "limited"   -> \E d \in RetryAfter : RecordRateLimited(r, d)
         [] req[r].failure = "denied"    -> RecordDenied(r)
         [] req[r].failure = "rejected"  -> Recorded(r) /\ UNCHANGED <<cool, blocked, quota>>
    /\ UNCHANGED <<now, nextId>>

\* On to the next binding: the failed one is excluded and its lease dropped.
NextBinding(r) ==
    [Reported(r) EXCEPT !.pc = "loop", !.bind = NoBinding, !.sel = 0,
        !.excluded = @ \cup {req[r].bind}, !.last = req[r].failure,
        !.failure = "none", !.recovery = FALSE, !.probe = 0, !.expires = 0]

Decide(r) ==
    /\ req[r].pc = "decide"
    /\ req' = [req EXCEPT ![r] =
                  IF req[r].cancelled THEN Ended(Reported(r), "cancelled")
                  ELSE IF req[r].failure \notin Retryable \/ req[r].semantic
                  THEN Ended(Reported(r), req[r].failure)
                  ELSE NextBinding(r)]
    /\ UNCHANGED <<now, cool, blocked, quota, nextId>>

-----------------------------------------------------------------------------
\* The client goes away: the gate reports it, or the whole future is dropped
\* at its only suspension point and releases the lease without an event.
Cancel(r) ==
    /\ req[r].pc \notin {"streaming", "done"}
    /\ req' = [req EXCEPT ![r].cancelled = TRUE]
    /\ UNCHANGED <<now, cool, blocked, quota, nextId>>

DropFuture(r) ==
    /\ req[r].pc = "running"
    /\ req' = [req EXCEPT ![r] = Ended(@, "dropped")]
    /\ UNCHANGED <<now, cool, blocked, quota, nextId>>

\* A timer fires at most TimerSlack late.
Tick ==
    /\ now < MaxTime
    /\ \A r \in Requests :
          req[r].pc = "running" => now < TimeoutAt(req[r]) + TimerSlack
    /\ now' = now + 1
    /\ UNCHANGED <<req, cool, blocked, quota, nextId>>

\* What the request's own task does once it is polled.
Step(r) ==
    \/ Iterate(r) \/ (\E b \in Bindings : Examine(r, b)) \/ Lease(r)
    \/ NothingSelected(r) \/ BeginProbe(r) \/ Start(r)
    \/ CancelWins(r) \/ TimeoutFires(r) \/ CompleteProbe(r) \/ Deliver(r)
    \/ ReadClock(r) \/ RecordState(r) \/ Decide(r)

Next ==
    \/ Tick
    \/ \E r \in Requests :
          \/ Begin(r) \/ Step(r) \/ DriverSucceeds(r) \/ DriverCancels(r)
          \/ \E f \in Failures : DriverFails(r, f)
          \/ SemanticEvent(r) \/ StreamEnds(r) \/ Cancel(r) \/ DropFuture(r)

Spec == Init /\ [][Next]_vars

\* The runtime polls a woken task and its timers run.
Fairness == WF_vars(Tick) /\ \A r \in Requests : WF_vars(Step(r))
FairSpec == Spec /\ Fairness

-----------------------------------------------------------------------------
Results == {"none", "ok", "cancelled", "egress", "unavailable", "internal",
            "dropped"} \cup Failures

TypeOK ==
    /\ now \in 0 .. MaxTime
    /\ \A r \in Requests :
          /\ req[r].pc \in Holding \cup Idle
          /\ req[r].bind \in Bindings \cup {NoBinding}
          /\ req[r].pc \in Holding => req[r].bind \in Bindings
          /\ req[r].excluded \subseteq Bindings
          /\ req[r].scanned \subseteq Bindings
          /\ req[r].last \in Retryable \cup {"none"}
          /\ req[r].result \in Results
          /\ req[r].attempts \in 0 .. MaxAttempts
    /\ blocked \subseteq Bindings
    /\ \A b \in Bindings : quota[b].id < nextId

(* A request never tries a binding twice, even if a Cooldown ends between  *)
(* two selections: every attempt that led to a retry consumed a new        *)
(* binding of the AttemptExclusionSet.  Every attempt whose future was not *)
(* dropped is reported to the event sink exactly once.  And a              *)
(* quota-recovery attempt is over before its exclusive ticket can lapse,   *)
(* so no second probe of the binding is admitted because the first one's   *)
(* ticket timed out under it.                                              *)
AttemptsAccounted ==
    \A r \in Requests :
        /\ req[r].pc \in {"loop", "scan", "leasing"} =>
               req[r].attempts = Cardinality(req[r].excluded)
        /\ req[r].events = req[r].attempts
               - (IF \/ req[r].pc \in Holding \ {"ticket", "selected", "streaming"}
                     \/ req[r].result = "dropped"
                  THEN 1 ELSE 0)
        /\ req[r].pc = "running" /\ req[r].probe # 0 => now < req[r].expires

(* No attempt begins at or after the Route's cumulative bootstrap deadline *)
(* or beyond max_attempts, however long selection took, and none begins    *)
(* once output of an earlier one was visible to the client.                *)
StartsWithinBudget ==
    [][\A r \in Requests :
          req'[r].attempts > req[r].attempts =>
              /\ now < req[r].deadline
              /\ req'[r].attempts <= MaxAttempts
              /\ ~req[r].semantic]_vars

(* Every started request is answered: the loop is bounded by its budget    *)
(* and each attempt by its timeout.                                        *)
EveryRequestAnswered ==
    \A r \in Requests : req[r].pc = "loop" ~> req[r].pc \in {"streaming", "done"}

=============================================================================
