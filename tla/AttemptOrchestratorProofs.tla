---------------------- MODULE AttemptOrchestratorProofs ----------------------
(***************************************************************************)
(* What the retry loop guarantees for any number of requests, bindings,    *)
(* attempts and any timing.  A request's record is changed by its own      *)
(* steps only, and the clock is the one shared variable the properties     *)
(* read, so the invariant is stated of one record and one instant.         *)
(***************************************************************************)
EXTENDS AttemptOrchestrator, FiniteSetTheorems, TLAPS

Before == {"new", "loop", "scan", "leasing", "ticket", "selected"}
During == {"running", "succeeded", "deliver", "failed", "recording", "decide"}

RequestState ==
    [pc : Holding \cup Idle, recovery : BOOLEAN, sel : Nat, scanned : SUBSET Bindings,
     bind : Bindings \cup {NoBinding}, excluded : SUBSET Bindings, attempts : Nat,
     deadline : Nat, probe : Nat, expires : Nat, read : Nat,
     failure : Failures \cup {"none"}, last : Retryable \cup {"none"},
     result : Results, events : Int, cancelled : BOOLEAN, semantic : BOOLEAN]

(* How far the books of a request are at each point of its loop: an        *)
(* attempt is counted when it starts and reported and excluded when it is  *)
(* over, so the three counts differ by one exactly while it lasts.         *)
Balanced(q) ==
    /\ IsFiniteSet(q.excluded)
    /\ q.pc \in Before =>
          /\ q.attempts = Cardinality(q.excluded)
          /\ q.events = q.attempts
          /\ ~q.semantic
    /\ q.pc \in During =>
          /\ q.attempts = Cardinality(q.excluded) + 1
          /\ q.events = q.attempts - 1
    /\ q.pc \in {"leasing", "ticket", "selected"} \cup During =>
          q.bind \in Bindings \ q.excluded
    /\ q.pc \in Before \cup During => q.result = "none"
    /\ q.pc = "streaming" =>
          q.bind \in Bindings /\ q.events = q.attempts /\ q.result # "dropped"
    /\ q.pc = "done" =>
          q.events = q.attempts - (IF q.result = "dropped" THEN 1 ELSE 0)
    /\ q.pc \in {"failed", "recording", "decide"} => q.failure \in Failures
    /\ q.attempts <= MaxAttempts

(* A ticket outlives the timeout of the attempt it admits, and the timer   *)
(* does not fire later than its slack.                                     *)
Timed(q, t) ==
    /\ q.pc \in Before \ {"selected"} => q.probe = 0
    /\ q.probe # 0 => q.expires = q.deadline + Extra + Grace
    /\ q.pc = "running" => t <= q.deadline + Extra + TimerSlack

RequestInv(q, t) == q \in RequestState /\ Balanced(q) /\ Timed(q, t)

QuotaState == [obs : Nat, reset : Nat, id : Nat, exp : Nat]

SharedInv ==
    /\ now \in 0 .. MaxTime
    /\ blocked \subseteq Bindings
    /\ quota \in [Bindings -> QuotaState]
    /\ nextId \in Nat \ {0}
    /\ \A b \in Bindings : quota[b].id < nextId

AttemptInv ==
    /\ SharedInv
    /\ DOMAIN req = Requests
    /\ \A r \in Requests : RequestInv(req[r], now)

-----------------------------------------------------------------------------
(* A request that ends with any result but "dropped" has reported as often *)
(* as it has attempted.                                                    *)
LEMMA EndedKeepsInv ==
    ASSUME NEW q \in RequestState, NEW result \in Results, NEW t \in Nat,
           q.attempts <= MaxAttempts,
           q.events = q.attempts - (IF result = "dropped" THEN 1 ELSE 0)
    PROVE  RequestInv(Ended(q, result), t)
<1> DEFINE e == Ended(q, result)
<1>1. e \in RequestState
  BY DEF Ended, RequestState, Holding, Idle, Retryable, Failures
<1>2. /\ e.pc = "done" /\ e.excluded = {} /\ e.probe = 0
      /\ e.attempts = q.attempts /\ e.events = q.events /\ e.result = result
  BY DEF Ended, RequestState
<1>3. Balanced(e)
  BY <1>2, FS_EmptySet DEF Balanced, Before, During
<1>4. Timed(e, t)
  BY <1>2 DEF Timed, Before
<1> QED
  BY <1>1, <1>3, <1>4 DEF RequestInv

(* LastOr is the failure of an earlier attempt, or the error given.        *)
LEMMA LastOrType ==
    ASSUME NEW q \in RequestState, NEW error \in Results \ {"dropped"}
    PROVE  LastOr(q, error) \in Results \ {"dropped"}
BY DEF LastOr, RequestState, Results, Retryable, Failures

LEMMA AttemptInvInit == Init => AttemptInv
<1> SUFFICES ASSUME Init PROVE AttemptInv
  OBVIOUS
<1>1. SharedInv
  BY OrchestratorConstants DEF Init, SharedInv, QuotaState, Available, Exhausted
<1>2. Fresh \in RequestState
  BY DEF Fresh, RequestState, Holding, Idle, Results
<1>3. Balanced(Fresh)
  BY FS_EmptySet, OrchestratorConstants DEF Fresh, Balanced, Before, During
<1>4. Timed(Fresh, now)
  BY DEF Fresh, Timed
<1> QED
  BY <1>1, <1>2, <1>3, <1>4 DEF Init, AttemptInv, RequestInv

-----------------------------------------------------------------------------
(* A step that replaces one request's record by one that satisfies the     *)
(* invariant keeps it.                                                     *)
LEMMA OneRequestMoves ==
    ASSUME AttemptInv, NEW r \in Requests, NEW q, RequestInv(q, now),
           now' = now, req' = [req EXCEPT ![r] = q], SharedInv'
    PROVE  AttemptInv'
BY DEF AttemptInv

LEMMA SharedUntouched ==
    ASSUME SharedInv, UNCHANGED <<now, blocked, quota, nextId>>
    PROVE  SharedInv'
BY DEF SharedInv

(* The steps from the start of the loop to the start of an attempt.        *)
LEMMA SelectionStep ==
    ASSUME AttemptInv, NEW r \in Requests,
           \/ Begin(r) \/ Iterate(r) \/ (\E b \in Bindings : Examine(r, b))
           \/ Lease(r) \/ NothingSelected(r) \/ BeginProbe(r) \/ Start(r)
    PROVE  AttemptInv'
<1> DEFINE q == req[r]
<1>0. /\ q \in RequestState /\ Balanced(q) /\ Timed(q, now)
      /\ now \in Nat /\ r \in DOMAIN req
  BY OrchestratorConstants DEF AttemptInv, RequestInv, SharedInv
<1>ended. ASSUME NEW error \in Results \ {"dropped"}, q.pc \in Before
          PROVE  RequestInv(Ended(q, error), now)
  <2>1. q.attempts <= MaxAttempts /\ q.events = q.attempts
    BY <1>0, <1>ended DEF Balanced
  <2> QED
    BY <1>0, <1>ended, <2>1, EndedKeepsInv DEF RequestState
<1>last. ASSUME NEW error \in Results \ {"dropped"}, q.pc \in Before
         PROVE  RequestInv(Ended(q, LastOr(q, error)), now)
  BY <1>0, <1>last, <1>ended, LastOrType
<1>res. {"cancelled", "egress", "unavailable"} \subseteq Results \ {"dropped"}
  BY DEF Results, Failures
<1>sh. ASSUME UNCHANGED <<now, blocked, quota, nextId>> PROVE SharedInv'
  BY <1>sh, SharedUntouched DEF AttemptInv
<1>1. CASE Begin(r)
  <2> DEFINE n == [q EXCEPT !.pc = "loop", !.deadline = now + Bootstrap]
  <2>1. RequestInv(n, now)
    <3>1. n \in RequestState
      <4>1. ASSUME NEW d \in Nat
            PROVE  [q EXCEPT !.pc = "loop", !.deadline = d] \in RequestState
        BY <1>0 DEF RequestState, Idle
      <4>2. now + Bootstrap \in Nat
        BY <1>0, OrchestratorConstants
      <4> QED
        BY <4>1, <4>2, Zenon
    <3>2. Balanced(n)
      BY <1>0, <1>1, OrchestratorConstants DEF Begin, RequestState, Balanced, Before, During
    <3>3. Timed(n, now)
      BY <1>0, <1>1, OrchestratorConstants DEF Begin, RequestState, Timed, Before
    <3> QED
      BY <3>1, <3>2, <3>3 DEF RequestInv
  <2>2. RequestInv(Ended(q, "cancelled"), now)
    BY <1>1, <1>ended, <1>res DEF Begin, Before
  <2> QED
    BY <2>1, <2>2, <1>1, <1>sh, OneRequestMoves DEF Begin
<1>2. CASE Iterate(r)
  <2> DEFINE n == [q EXCEPT !.pc = "scan", !.sel = now]
  <2>1. RequestInv(n, now)
    BY <1>0, <1>2
       DEF Iterate, RequestInv, RequestState, Balanced, Timed, Before, During, Holding, Idle
  <2>2. /\ RequestInv(Ended(q, "cancelled"), now)
        /\ RequestInv(Ended(q, LastOr(q, "egress")), now)
    BY <1>2, <1>ended, <1>last, <1>res DEF Iterate, Before
  <2> QED
    BY <2>1, <2>2, <1>2, <1>sh, OneRequestMoves DEF Iterate
<1>3. ASSUME NEW b \in Bindings, Examine(r, b) PROVE AttemptInv'
  <2> DEFINE n == [q EXCEPT !.pc = "leasing", !.bind = b]
             m == [q EXCEPT !.scanned = q.scanned \cup {b}]
  <2>1. ASSUME Eligible(q, b) PROVE RequestInv(n, now)
    BY <1>0, <1>3, <2>1
       DEF Examine, Eligible, RequestInv, RequestState, Balanced, Timed, Before, During,
           Holding, Idle
  <2>2. RequestInv(m, now)
    BY <1>0, <1>3
       DEF Examine, RequestInv, RequestState, Balanced, Timed, Before, During, Holding, Idle
  <2>3. req' = [req EXCEPT ![r] = IF Eligible(q, b) THEN n ELSE m]
    BY <1>3 DEF Examine
  <2> QED
    BY <2>1, <2>2, <2>3, <1>3, <1>sh, OneRequestMoves DEF Examine
<1>4. CASE Lease(r)
  <2> DEFINE n == [q EXCEPT !.pc = IF q.recovery THEN "ticket" ELSE "selected",
                            !.scanned = {}]
             m == [q EXCEPT !.pc = "scan", !.bind = NoBinding,
                            !.scanned = q.scanned \cup {q.bind}]
  <2>1. RequestInv(n, now)
    BY <1>0, <1>4
       DEF Lease, RequestInv, RequestState, Balanced, Timed, Before, During, Holding, Idle
  <2>2. RequestInv(m, now)
    BY <1>0, <1>4
       DEF Lease, RequestInv, RequestState, Balanced, Timed, Before, During, Holding, Idle
  <2>3. req' = [req EXCEPT ![r] =
                   IF Cardinality(Leased(q.bind)) < Limit[q.bind] THEN n ELSE m]
    BY <1>4 DEF Lease
  <2> QED
    BY <2>1, <2>2, <2>3, <1>4, <1>sh, OneRequestMoves DEF Lease
<1>5. CASE NothingSelected(r)
  <2> DEFINE n == [q EXCEPT !.recovery = TRUE, !.scanned = {}]
  <2>1. RequestInv(n, now)
    <3>1. n \in RequestState
      BY <1>0, <1>5 DEF NothingSelected, RequestState, Holding, Idle
    <3>2. Balanced(n)
      BY <1>0, <1>5 DEF NothingSelected, RequestState, Balanced, Before, During
    <3>3. Timed(n, now)
      BY <1>0, <1>5 DEF NothingSelected, RequestState, Timed, Before
    <3> QED
      BY <3>1, <3>2, <3>3 DEF RequestInv
  <2>2. RequestInv(Ended(q, LastOr(q, "unavailable")), now)
    BY <1>5, <1>last, <1>res DEF NothingSelected, Before
  <2> QED
    BY <2>1, <2>2, <1>5, <1>sh, OneRequestMoves DEF NothingSelected
<1>6. CASE BeginProbe(r)
  <2> DEFINE e == TicketExpiry(q)
             n == [q EXCEPT !.pc = "selected", !.probe = nextId, !.expires = e]
  <2>1. CASE RecoveryRequired(q.bind) /\ e > now
    <3>1. e = q.deadline + Extra + Grace /\ e \in Nat
      BY <1>0, OrchestratorConstants DEF TicketExpiry, RequestState
    <3>2. RequestInv(n, now)
      <4>1. n \in RequestState
        BY <1>0, <3>1 DEF AttemptInv, SharedInv, RequestState, Holding
      <4>2. Balanced(n)
        BY <1>0, <1>6 DEF BeginProbe, RequestState, Balanced, Before, During
      <4>3. Timed(n, now)
        BY <1>0, <3>1 DEF RequestState, Timed, Before
      <4> QED
        BY <4>1, <4>2, <4>3 DEF RequestInv
    <3>3. req' = [req EXCEPT ![r] = n]
      BY <1>0, <1>6, <2>1 DEF BeginProbe
    <3>4. SharedInv'
      BY <1>0, <1>6, <2>1, <3>1 DEF BeginProbe, AttemptInv, SharedInv, QuotaState
    <3> QED
      BY <3>2, <3>3, <3>4, <1>6, OneRequestMoves DEF BeginProbe
  <2>2. CASE ~(RecoveryRequired(q.bind) /\ e > now)
    <3>1. RequestInv(Ended(q, LastOr(q, "unavailable")), now)
      BY <1>6, <1>last, <1>res DEF BeginProbe, Before
    <3> QED
      BY <3>1, <2>2, <1>6, <1>sh, OneRequestMoves DEF BeginProbe
  <2> QED
    BY <2>1, <2>2
<1>7. CASE Start(r)
  <2> DEFINE n == [q EXCEPT !.pc = "running", !.attempts = q.attempts + 1]
  <2>1. ASSUME CanStart(q) PROVE RequestInv(n, now)
    <3>1. n \in RequestState
      <4>1. ASSUME NEW k \in Nat
            PROVE  [q EXCEPT !.pc = "running", !.attempts = k] \in RequestState
        BY <1>0 DEF RequestState, Holding
      <4>2. q.attempts + 1 \in Nat
        BY <1>0 DEF RequestState
      <4> QED
        BY <4>1, <4>2, Zenon
    <3>2. Balanced(n)
      BY <1>0, <1>7, <2>1, OrchestratorConstants
         DEF Start, CanStart, RequestState, Balanced, Before, During
    <3>3. Timed(n, now)
      BY <1>0, <1>7, <2>1, OrchestratorConstants
         DEF Start, CanStart, RequestState, Timed, Before
    <3> QED
      BY <3>1, <3>2, <3>3 DEF RequestInv
  <2>2. RequestInv(Ended(q, LastOr(q, "egress")), now)
    BY <1>7, <1>last, <1>res DEF Start, Before
  <2>3. req' = [req EXCEPT ![r] =
                   IF CanStart(q) THEN n ELSE Ended(q, LastOr(q, "egress"))]
    BY <1>7 DEF Start
  <2> QED
    BY <2>1, <2>2, <2>3, <1>7, <1>sh, OneRequestMoves DEF Start
<1> QED
  BY <1>1, <1>2, <1>3, <1>4, <1>5, <1>6, <1>7

-----------------------------------------------------------------------------
(* While an attempt lasts, a step that leaves its books and its ticket     *)
(* alone, or gives the ticket back, keeps the invariant.                   *)
LEMMA WithinAttempt ==
    ASSUME NEW q, NEW n \in RequestState, NEW t \in Nat, RequestInv(q, t),
           q.pc \in During, n.pc \in During,
           n.pc = "running" => q.pc = "running",
           n.pc \in {"failed", "recording", "decide"} => n.failure \in Failures,
           n.attempts = q.attempts, n.events = q.events, n.result = q.result,
           n.excluded = q.excluded, n.bind = q.bind, n.deadline = q.deadline,
           n.probe = 0 \/ (n.probe = q.probe /\ n.expires = q.expires)
    PROVE  RequestInv(n, t)
<1>1. Balanced(n)
  BY DEF RequestInv, Balanced, During, Before
<1>2. Timed(n, t)
  BY DEF RequestInv, Timed, During, Before
<1> QED
  BY <1>1, <1>2 DEF RequestInv

(* A reported attempt is on the books, so the request may end there.       *)
LEMMA ReportedEnds ==
    ASSUME AttemptInv, NEW r \in Requests, req[r].pc \in During,
           NEW result \in Results \ {"dropped"}
    PROVE  /\ Reported(r) \in RequestState
           /\ RequestInv(Ended(Reported(r), result), now)
<1> DEFINE q == req[r]
           n == Reported(r)
<1>0. q \in RequestState /\ Balanced(q) /\ now \in Nat
  BY OrchestratorConstants DEF AttemptInv, RequestInv, SharedInv
<1>1. n \in RequestState
  <2>1. ASSUME NEW k \in Int PROVE [q EXCEPT !.events = k] \in RequestState
    BY <1>0 DEF RequestState
  <2>2. q.events + 1 \in Int
    BY <1>0 DEF RequestState
  <2> QED
    BY <2>1, <2>2, Zenon DEF Reported
<1>2. n.attempts = q.attempts /\ n.events = q.events + 1
  BY <1>0 DEF Reported, RequestState
<1>3. /\ n.attempts <= MaxAttempts
      /\ n.events = n.attempts - (IF result = "dropped" THEN 1 ELSE 0)
  BY <1>0, <1>2 DEF Balanced, RequestState
<1> QED
  BY <1>0, <1>1, <1>3, EndedKeepsInv

(* The steps of a started attempt, from the race of its driver to its end. *)
LEMMA RunningStep ==
    ASSUME AttemptInv, NEW r \in Requests,
           \/ CancelWins(r) \/ TimeoutFires(r) \/ DriverSucceeds(r)
           \/ (\E f \in Failures : DriverFails(r, f)) \/ DriverCancels(r)
           \/ SemanticEvent(r) \/ ReadClock(r) \/ DropFuture(r)
    PROVE  AttemptInv'
<1> DEFINE q == req[r]
<1>0. /\ q \in RequestState /\ Balanced(q) /\ Timed(q, now) /\ RequestInv(q, now)
      /\ now \in Nat /\ r \in DOMAIN req
  BY OrchestratorConstants DEF AttemptInv, RequestInv, SharedInv
<1>pc. q.pc \in During
  BY DEF CancelWins, TimeoutFires, DriverSucceeds, DriverFails, DriverCancels,
         SemanticEvent, ReadClock, DropFuture, During
<1>sh. SharedInv' /\ now' = now
  BY SharedUntouched
     DEF AttemptInv, CancelWins, TimeoutFires, DriverSucceeds, DriverFails,
         DriverCancels, SemanticEvent, ReadClock, DropFuture
<1>1. CASE CancelWins(r) \/ DriverCancels(r)
  <2>1. RequestInv(Ended(Reported(r), "cancelled"), now)
    BY <1>pc, ReportedEnds DEF Results, Failures
  <2> QED
    BY <2>1, <1>1, <1>sh, OneRequestMoves DEF CancelWins, DriverCancels
<1>2. ASSUME NEW f \in Failures,
             req' = [req EXCEPT ![r].pc = "failed", ![r].failure = f]
      PROVE  AttemptInv'
  <2> DEFINE n == [q EXCEPT !.pc = "failed", !.failure = f]
  <2>1. n \in RequestState
    BY <1>0 DEF RequestState, Holding
  <2>2. RequestInv(n, now)
    BY <1>0, <1>pc, <2>1, WithinAttempt DEF During, RequestState
  <2>3. req' = [req EXCEPT ![r] = n]
    BY <1>0, <1>2
  <2> QED
    BY <2>2, <2>3, <1>sh, OneRequestMoves
<1>3. CASE TimeoutFires(r)
  BY <1>2, <1>3 DEF TimeoutFires, Failures
<1>4. ASSUME NEW f \in Failures, DriverFails(r, f) PROVE AttemptInv'
  BY <1>2, <1>4 DEF DriverFails
<1>5. CASE DriverSucceeds(r)
  <2> DEFINE n == [q EXCEPT !.pc = IF q.probe # 0 THEN "succeeded" ELSE "deliver"]
  <2>1. n \in RequestState
    BY <1>0 DEF RequestState, Holding
  <2>2. RequestInv(n, now)
    BY <1>0, <1>pc, <2>1, WithinAttempt DEF During, RequestState
  <2>3. req' = [req EXCEPT ![r] = n]
    BY <1>0, <1>5 DEF DriverSucceeds
  <2> QED
    BY <2>2, <2>3, <1>sh, OneRequestMoves
<1>6. CASE SemanticEvent(r)
  <2> DEFINE n == [q EXCEPT !.semantic = TRUE]
  <2>1. n \in RequestState
    BY <1>0 DEF RequestState
  <2>2. RequestInv(n, now)
    BY <1>0, <1>6, <1>pc, <2>1, WithinAttempt DEF SemanticEvent, RequestState
  <2>3. req' = [req EXCEPT ![r] = n]
    BY <1>0, <1>6 DEF SemanticEvent
  <2> QED
    BY <2>2, <2>3, <1>sh, OneRequestMoves
<1>7. CASE ReadClock(r)
  <2> DEFINE n == [q EXCEPT !.pc = "recording", !.read = now]
  <2>1. n \in RequestState
    BY <1>0 DEF RequestState, Holding
  <2>2. n.failure \in Failures
    BY <1>0, <1>7 DEF ReadClock, RequestState, Balanced
  <2>3. RequestInv(n, now)
    BY <1>0, <1>pc, <2>1, <2>2, WithinAttempt DEF During, RequestState
  <2>4. req' = [req EXCEPT ![r] = n]
    BY <1>0, <1>7 DEF ReadClock
  <2> QED
    BY <2>3, <2>4, <1>sh, OneRequestMoves
<1>8. CASE DropFuture(r)
  <2>1. q.attempts <= MaxAttempts /\ q.events = q.attempts - 1
    BY <1>0, <1>pc DEF Balanced
  <2>2. RequestInv(Ended(q, "dropped"), now)
    BY <1>0, <2>1, EndedKeepsInv DEF Results
  <2> QED
    BY <2>2, <1>8, <1>sh, OneRequestMoves DEF DropFuture
<1> QED
  BY <1>1, <1>3, <1>4, <1>5, <1>6, <1>7, <1>8

(* Its outcome is recorded in the shared registries.                       *)
LEMMA RecordingStep ==
    ASSUME AttemptInv, NEW r \in Requests, CompleteProbe(r) \/ RecordState(r)
    PROVE  AttemptInv'
<1> DEFINE q == req[r]
<1>0. /\ q \in RequestState /\ Balanced(q) /\ RequestInv(q, now)
      /\ now \in Nat /\ r \in DOMAIN req /\ SharedInv
  BY OrchestratorConstants DEF AttemptInv, RequestInv, SharedInv
<1>pc. q.pc \in During
  BY DEF CompleteProbe, RecordState, During
<1>bind. q.bind \in Bindings
  BY <1>0, <1>pc DEF Balanced
<1>now. now' = now
  BY DEF CompleteProbe, RecordState
<1>1. CASE CompleteProbe(r)
  <2> DEFINE n == [q EXCEPT !.pc = "deliver", !.probe = 0, !.expires = 0]
  <2>1. n \in RequestState
    BY <1>0 DEF RequestState, Holding
  <2>2. RequestInv(n, now)
    BY <1>0, <1>pc, <2>1, WithinAttempt DEF During, RequestState
  <2>3. req' = [req EXCEPT ![r] = n]
    BY <1>0, <1>1 DEF CompleteProbe
  <2>4. SharedInv'
    <3>1. [Available EXCEPT !.obs = now] \in QuotaState
      BY <1>0 DEF Available, QuotaState
    <3>2. [Available EXCEPT !.obs = now].id = 0
      BY DEF Available
    <3> QED
      BY <1>0, <1>1, <1>bind, <3>1, <3>2 DEF CompleteProbe, SharedInv
  <2> QED
    BY <2>2, <2>3, <2>4, <1>now, OneRequestMoves
<1>2. ASSUME Recorded(r), q.pc = "recording", SharedInv' PROVE AttemptInv'
  <2> DEFINE n == [q EXCEPT !.pc = "decide", !.read = 0]
  <2>1. n \in RequestState
    BY <1>0 DEF RequestState, Holding
  <2>2. n.failure \in Failures
    BY <1>0, <1>2 DEF RequestState, Balanced
  <2>3. RequestInv(n, now)
    BY <1>0, <1>pc, <2>1, <2>2, WithinAttempt DEF During, RequestState
  <2>4. req' = [req EXCEPT ![r] = n]
    BY <1>0, <1>2 DEF Recorded
  <2> QED
    BY <1>2, <2>3, <2>4, <1>now, OneRequestMoves
<1>3. ASSUME RecordState(r), NotRecorded(r) PROVE AttemptInv'
  <2>1. RequestInv(Ended(Reported(r), "internal"), now)
    BY <1>pc, ReportedEnds DEF Results, Failures
  <2>2. SharedInv'
    BY <1>0, <1>3, SharedUntouched DEF RecordState, NotRecorded
  <2> QED
    BY <2>1, <2>2, <1>3, <1>now, OneRequestMoves DEF NotRecorded
<1>4. CASE RecordState(r)
  <2>1. q.failure \in Failures /\ q.pc = "recording"
    BY <1>0, <1>4 DEF RecordState, Balanced
  <2>2. CASE q.failure = "transient"
    <3>1. RecordCooldown(r)
      BY <1>4, <2>2 DEF RecordState
    <3> QED
      BY <3>1, <1>0, <1>2, <1>3, <1>4, <2>1, SharedUntouched
         DEF RecordCooldown, RecordState
  <2>3. CASE q.failure = "limited"
    <3>1. PICK d \in RetryAfter : RecordRateLimited(r, d)
      BY <1>4, <2>3 DEF RecordState
    <3>2. CASE NotRecorded(r)
      BY <3>2, <1>3, <1>4
    <3>3. CASE ~NotRecorded(r)
      <4> DEFINE e == [obs |-> q.read, reset |-> q.read + d, id |-> 0, exp |-> 0]
      <4>1. q.read \in Nat /\ q.read + d \in Nat
        BY <1>0, OrchestratorConstants DEF RequestState
      <4>2. e \in QuotaState /\ e.id = 0
        BY <4>1 DEF QuotaState
      <4>3. /\ Recorded(r) /\ quota' = [quota EXCEPT ![q.bind] = e]
            /\ UNCHANGED <<cool, blocked>> /\ UNCHANGED <<now, nextId>>
        BY <3>1, <3>3, <1>4 DEF RecordRateLimited, RecordState
      <4>4. SharedInv'
        BY <1>0, <1>bind, <4>2, <4>3 DEF SharedInv
      <4> QED
        BY <4>3, <4>4, <1>2, <2>1
    <3> QED
      BY <3>2, <3>3
  <2>4. CASE q.failure = "denied"
    <3>1. RecordDenied(r) /\ UNCHANGED <<now, nextId>>
      BY <1>4, <2>4 DEF RecordState
    <3>2. SharedInv'
      BY <3>1, <1>0, <1>bind DEF RecordDenied, SharedInv
    <3> QED
      BY <3>1, <3>2, <1>2, <2>1 DEF RecordDenied
  <2>5. CASE q.failure = "rejected"
    <3>1. Recorded(r) /\ UNCHANGED <<cool, blocked, quota>> /\ UNCHANGED <<now, nextId>>
      BY <1>4, <2>5 DEF RecordState
    <3> QED
      BY <3>1, <1>0, <1>2, <2>1, SharedUntouched
  <2> QED
    BY <2>1, <2>2, <2>3, <2>4, <2>5 DEF Failures
<1> QED
  BY <1>1, <1>4

(* The attempt is answered, or its binding is excluded for the next one.   *)
LEMMA DecidingStep ==
    ASSUME AttemptInv, NEW r \in Requests,
           Deliver(r) \/ StreamEnds(r) \/ Decide(r) \/ Cancel(r)
    PROVE  AttemptInv'
<1> DEFINE q == req[r]
<1>0. /\ q \in RequestState /\ Balanced(q) /\ Timed(q, now)
      /\ now \in Nat /\ r \in DOMAIN req
  BY OrchestratorConstants DEF AttemptInv, RequestInv, SharedInv
<1>sh. SharedInv' /\ now' = now
  BY SharedUntouched DEF AttemptInv, Deliver, StreamEnds, Decide, Cancel
<1>1. CASE Deliver(r)
  <2> DEFINE e == Ended(Reported(r), "ok")
             n == [e EXCEPT !.pc = "streaming", !.bind = q.bind]
  <2>0. q.pc \in During
    BY <1>1 DEF Deliver, During
  <2>1. /\ RequestInv(Ended(Reported(r), "cancelled"), now)
        /\ RequestInv(e, now)
    BY <2>0, ReportedEnds DEF Results, Failures
  <2>2. e \in RequestState /\ Balanced(e) /\ q.bind \in Bindings
    BY <1>0, <2>0, <2>1 DEF RequestInv, Balanced
  <2>3. e.pc = "done" /\ e.result = "ok" /\ e.probe = 0
    <3>1. Reported(r) \in RequestState
      BY <2>0, ReportedEnds DEF Results
    <3> QED
      BY <3>1 DEF Ended, RequestState
  <2>4. n \in RequestState
    BY <2>2 DEF RequestState, Holding
  <2>5. /\ n.pc = "streaming" /\ n.bind = q.bind /\ n.result = "ok" /\ n.probe = 0
        /\ n.excluded = e.excluded /\ n.events = e.events /\ n.attempts = e.attempts
    BY <2>2, <2>3 DEF RequestState
  <2>6. Balanced(n)
    BY <2>2, <2>3, <2>4, <2>5 DEF Balanced, Before, During, RequestState
  <2>7. Timed(n, now)
    BY <2>5 DEF Timed, Before
  <2>8. RequestInv(n, now)
    BY <2>4, <2>6, <2>7 DEF RequestInv
  <2> QED
    BY <2>1, <2>8, <1>1, <1>sh, OneRequestMoves DEF Deliver
<1>2. CASE StreamEnds(r)
  <2>1. q.attempts <= MaxAttempts /\ q.events = q.attempts
    BY <1>0, <1>2 DEF StreamEnds, Balanced
  <2>2. RequestInv(Ended(q, "ok"), now)
    BY <1>0, <2>1, EndedKeepsInv DEF Results, RequestState
  <2> QED
    BY <2>2, <1>2, <1>sh, OneRequestMoves DEF StreamEnds
<1>3. CASE Decide(r)
  <2>0. q.pc \in During /\ q.failure \in Failures
    BY <1>0, <1>3 DEF Decide, During, Balanced
  <2>1. /\ RequestInv(Ended(Reported(r), "cancelled"), now)
        /\ RequestInv(Ended(Reported(r), q.failure), now)
    BY <2>0, ReportedEnds DEF Results, Failures
  <2>2. ASSUME q.failure \in Retryable, ~q.semantic PROVE RequestInv(NextBinding(r), now)
    <3> DEFINE m == Reported(r)
               n == NextBinding(r)
    <3>1. m \in RequestState
      BY <2>0, ReportedEnds DEF Results
    <3>2. /\ m.excluded = q.excluded /\ m.attempts = q.attempts /\ m.events = q.events + 1
          /\ m.semantic = q.semantic /\ m.result = q.result
      BY <1>0 DEF Reported, RequestState
    <3>3. q.bind \in Bindings /\ q.bind \notin q.excluded
      BY <1>0, <2>0 DEF Balanced
    <3>4. n \in RequestState
      BY <3>1, <3>3, <2>2 DEF NextBinding, RequestState, Idle
    <3>5. /\ n.pc = "loop" /\ n.excluded = q.excluded \cup {q.bind} /\ n.probe = 0
          /\ n.attempts = q.attempts /\ n.events = q.events + 1
          /\ n.semantic = q.semantic /\ n.result = q.result
      BY <3>1, <3>2 DEF NextBinding, RequestState
    <3>6. /\ IsFiniteSet(n.excluded)
          /\ Cardinality(n.excluded) = Cardinality(q.excluded) + 1
      <4>1. IsFiniteSet(q.excluded)
        BY <1>0 DEF Balanced
      <4>2. /\ IsFiniteSet(q.excluded \cup {q.bind})
            /\ Cardinality(q.excluded \cup {q.bind}) = Cardinality(q.excluded) + 1
        BY <4>1, <3>3, FS_AddElement
      <4> QED
        BY <4>2, <3>5
    <3>7. Balanced(n)
      <4>1. /\ q.attempts = Cardinality(q.excluded) + 1 /\ q.events = q.attempts - 1
            /\ q.result = "none" /\ q.attempts <= MaxAttempts
        BY <1>0, <2>0 DEF Balanced
      <4>2. q.attempts \in Nat
        BY <1>0 DEF RequestState
      <4>3. /\ n.attempts = Cardinality(n.excluded) /\ n.events = n.attempts
            /\ n.attempts <= MaxAttempts
        BY <3>5, <3>6, <4>1, <4>2
      <4>4. ~n.semantic /\ n.result = "none" /\ n.pc = "loop" /\ n.probe = 0
        BY <2>2, <3>5, <4>1
      <4>5. IsFiniteSet(n.excluded)
        BY <3>6
      <4> HIDE DEF n
      <4> QED
        BY <4>3, <4>4, <4>5 DEF Balanced, Before, During
    <3>8. Timed(n, now)
      BY <3>5 DEF Timed
    <3> QED
      BY <3>4, <3>7, <3>8 DEF RequestInv
  <2> QED
    BY <2>1, <2>2, <1>3, <1>sh, OneRequestMoves DEF Decide
<1>4. CASE Cancel(r)
  <2> DEFINE n == [q EXCEPT !.cancelled = TRUE]
  <2>1. n \in RequestState
    BY <1>0 DEF RequestState
  <2>2. Balanced(n)
    BY <1>0 DEF Balanced, RequestState
  <2>3. Timed(n, now)
    BY <1>0 DEF Timed, RequestState
  <2>4. req' = [req EXCEPT ![r] = n]
    BY <1>0, <1>4 DEF Cancel
  <2> QED
    BY <2>1, <2>2, <2>3, <2>4, <1>sh, OneRequestMoves DEF RequestInv
<1> QED
  BY <1>1, <1>2, <1>3, <1>4

(* Time passes only up to the slack of a running attempt's timer.          *)
LEMMA ClockStep == AttemptInv /\ Tick => AttemptInv'
<1> SUFFICES ASSUME AttemptInv, Tick PROVE AttemptInv'
  OBVIOUS
<1>1. SharedInv'
  BY OrchestratorConstants DEF AttemptInv, SharedInv, Tick
<1>2. ASSUME NEW r \in Requests PROVE RequestInv(req[r], now + 1)
  <2>1. req[r] \in RequestState /\ Balanced(req[r]) /\ Timed(req[r], now) /\ now \in Nat
    BY OrchestratorConstants DEF AttemptInv, RequestInv, SharedInv
  <2>2. Timed(req[r], now + 1)
    BY <2>1, OrchestratorConstants DEF Timed, Tick, TimeoutAt, RequestState
  <2> QED
    BY <2>1, <2>2 DEF RequestInv
<1> QED
  BY <1>1, <1>2 DEF AttemptInv, Tick

LEMMA AttemptInvStep == AttemptInv /\ [Next]_vars => AttemptInv'
<1> SUFFICES ASSUME AttemptInv, [Next]_vars PROVE AttemptInv'
  OBVIOUS
<1>1. CASE Tick
  BY <1>1, ClockStep
<1>2. CASE UNCHANGED vars
  BY <1>2 DEF vars, AttemptInv, SharedInv
<1>3. CASE Next /\ ~Tick
  <2>1. PICK r \in Requests :
          \/ Begin(r) \/ Step(r) \/ DriverSucceeds(r) \/ DriverCancels(r)
          \/ \E f \in Failures : DriverFails(r, f)
          \/ SemanticEvent(r) \/ StreamEnds(r) \/ Cancel(r) \/ DropFuture(r)
    BY <1>3 DEF Next
  <2> QED
    BY <2>1, SelectionStep, RunningStep, RecordingStep, DecidingStep DEF Step
<1> QED
  BY <1>1, <1>2, <1>3

LEMMA AttemptInvariance == Spec => []AttemptInv
BY AttemptInvInit, AttemptInvStep, PTL DEF Spec

(* The states the loop reaches are the ones its code can name: a request   *)
(* past selection holds a binding of its Route, its exclusions are         *)
(* bindings of the Route, and no ticket is from the future.                *)
THEOREM OrchestratorTypeCorrect == Spec => []TypeOK
<1>1. AttemptInv => TypeOK
  <2> SUFFICES ASSUME AttemptInv PROVE TypeOK
    OBVIOUS
  <2>1. SharedInv
    BY DEF AttemptInv
  <2>2. ASSUME NEW r \in Requests
        PROVE  /\ req[r] \in RequestState
               /\ req[r].pc \in Holding => req[r].bind \in Bindings
               /\ req[r].attempts \in 0 .. MaxAttempts
    BY OrchestratorConstants
       DEF AttemptInv, RequestInv, RequestState, Balanced, Holding, During
  <2> QED
    BY <2>1, <2>2 DEF TypeOK, SharedInv, RequestState
<1> QED
  BY <1>1, AttemptInvariance, PTL

(* However selection, timers, cancellation and other requests interleave:  *)
(* a request never tries a binding twice, every attempt whose future was   *)
(* not dropped is reported exactly once, and a recovery attempt runs under *)
(* a ticket that has not lapsed.                                           *)
THEOREM AttemptsAreAccounted == Spec => []AttemptsAccounted
<1>1. AttemptInv => AttemptsAccounted
  <2> SUFFICES ASSUME AttemptInv, NEW r \in Requests
               PROVE  /\ req[r].pc \in {"loop", "scan", "leasing"} =>
                             req[r].attempts = Cardinality(req[r].excluded)
                      /\ req[r].events = req[r].attempts
                             - (IF \/ req[r].pc \in Holding \ {"ticket", "selected",
                                                               "streaming"}
                                   \/ req[r].result = "dropped"
                                THEN 1 ELSE 0)
                      /\ req[r].pc = "running" /\ req[r].probe # 0 => now < req[r].expires
    BY DEF AttemptsAccounted
  <2> DEFINE q == req[r]
  <2>1. q \in RequestState /\ Balanced(q) /\ Timed(q, now) /\ now \in Nat
    BY OrchestratorConstants DEF AttemptInv, RequestInv, SharedInv
  <2>2. q.pc \in {"loop", "scan", "leasing"} => q.attempts = Cardinality(q.excluded)
    BY <2>1 DEF Balanced, Before
  <2>3. q.events = q.attempts
            - (IF \/ q.pc \in Holding \ {"ticket", "selected", "streaming"}
                  \/ q.result = "dropped"
               THEN 1 ELSE 0)
    <3>1. CASE q.pc \in During
      BY <2>1, <3>1 DEF Balanced, During, Holding
    <3>2. CASE q.pc \in Before
      BY <2>1, <3>2 DEF Balanced, Before, Holding, RequestState
    <3>3. CASE q.pc \in {"streaming", "done"}
      BY <2>1, <3>3 DEF Balanced, Holding, RequestState
    <3> QED
      BY <2>1, <3>1, <3>2, <3>3 DEF RequestState, Before, During, Holding, Idle
  <2>4. q.pc = "running" /\ q.probe # 0 => now < q.expires
    BY <2>1, OrchestratorConstants DEF Timed, RequestState
  <2> QED
    BY <2>2, <2>3, <2>4
<1> QED
  BY <1>1, AttemptInvariance, PTL

-----------------------------------------------------------------------------
(* Ending, reporting and moving on leave the count of attempts alone.      *)
LEMMA AttemptsKept ==
    ASSUME NEW r \in Requests, req[r] \in RequestState, NEW result
    PROVE  /\ Ended(req[r], result).attempts = req[r].attempts
           /\ Ended(Reported(r), result).attempts = req[r].attempts
           /\ NextBinding(r).attempts = req[r].attempts
BY DEF Ended, Reported, NextBinding, RequestState

(* Only Start counts an attempt.                                           *)
LEMMA OnlyStartCounts ==
    ASSUME AttemptInv, Next, NEW r \in Requests,
           req'[r].attempts # req[r].attempts
    PROVE  Start(r) /\ CanStart(req[r]) /\ req'[r].attempts = req[r].attempts + 1
<1> DEFINE q == req[r]
<1>0. q \in RequestState /\ DOMAIN req = Requests
  BY DEF AttemptInv, RequestInv
<1>1. ~Tick
  BY DEF Tick
<1>2. PICK s \in Requests :
        \/ Begin(s) \/ Step(s) \/ DriverSucceeds(s) \/ DriverCancels(s)
        \/ \E f \in Failures : DriverFails(s, f)
        \/ SemanticEvent(s) \/ StreamEnds(s) \/ Cancel(s) \/ DropFuture(s)
  BY <1>1 DEF Next
<1>3. ASSUME NEW t \in Requests, NEW n, req' = [req EXCEPT ![t] = n]
      PROVE  t = r /\ n.attempts # q.attempts
  BY <1>0, <1>3
<1>4. ~Begin(s) /\ ~Iterate(s) /\ ~NothingSelected(s) /\ ~Lease(s)
        /\ \A b \in Bindings : ~Examine(s, b)
  <2> DEFINE p == req[s]
  <2>0. p \in RequestState
    BY DEF AttemptInv, RequestInv
  <2>e. ASSUME NEW result PROVE Ended(p, result).attempts = p.attempts
    BY <2>0, AttemptsKept
  <2>1. ~Begin(s)
    <3>1. [p EXCEPT !.pc = "loop", !.deadline = now + Bootstrap].attempts = p.attempts
      BY <2>0 DEF RequestState
    <3>2. Ended(p, "cancelled").attempts = p.attempts
      BY <2>e
    <3> QED
      BY <3>1, <3>2, <1>3 DEF Begin
  <2>2. ~Iterate(s)
    <3>1. [p EXCEPT !.pc = "scan", !.sel = now].attempts = p.attempts
      BY <2>0 DEF RequestState
    <3>2. /\ Ended(p, "cancelled").attempts = p.attempts
          /\ Ended(p, LastOr(p, "egress")).attempts = p.attempts
      BY <2>e
    <3> QED
      BY <3>1, <3>2, <1>3 DEF Iterate
  <2>3. ~NothingSelected(s)
    <3>1. [p EXCEPT !.recovery = TRUE, !.scanned = {}].attempts = p.attempts
      BY <2>0 DEF RequestState
    <3>2. Ended(p, LastOr(p, "unavailable")).attempts = p.attempts
      BY <2>e
    <3> QED
      BY <3>1, <3>2, <1>3 DEF NothingSelected
  <2>4. ~Lease(s)
    <3>1. /\ [p EXCEPT !.pc = IF p.recovery THEN "ticket" ELSE "selected",
                       !.scanned = {}].attempts = p.attempts
          /\ [p EXCEPT !.pc = "scan", !.bind = NoBinding,
                       !.scanned = p.scanned \cup {p.bind}].attempts = p.attempts
      BY <2>0 DEF RequestState
    <3> QED
      BY <3>1, <1>3 DEF Lease
  <2>5. ASSUME NEW b \in Bindings PROVE ~Examine(s, b)
    <3>1. /\ [p EXCEPT !.pc = "leasing", !.bind = b].attempts = p.attempts
          /\ [p EXCEPT !.scanned = p.scanned \cup {b}].attempts = p.attempts
      BY <2>0 DEF RequestState
    <3> QED
      BY <3>1, <1>3 DEF Examine
  <2> QED
    BY <2>1, <2>2, <2>3, <2>4, <2>5
<1>5. ~BeginProbe(s)
  BY <1>0, <1>3, AttemptsKept DEF BeginProbe, RequestState
<1>6. ~(CancelWins(s) \/ DriverCancels(s) \/ StreamEnds(s) \/ DropFuture(s)
          \/ Decide(s))
  BY <1>0, <1>3, AttemptsKept DEF CancelWins, DriverCancels, StreamEnds, DropFuture, Decide
<1>7. ~(TimeoutFires(s) \/ DriverSucceeds(s) \/ (\E f \in Failures : DriverFails(s, f))
          \/ SemanticEvent(s) \/ Cancel(s) \/ ReadClock(s) \/ CompleteProbe(s))
  BY <1>0 DEF TimeoutFires, DriverSucceeds, DriverFails, SemanticEvent, Cancel, ReadClock,
              CompleteProbe, RequestState
<1>8. ~Deliver(s)
  <2> SUFFICES ASSUME Deliver(s) PROVE FALSE
    OBVIOUS
  <2> DEFINE e == Ended(Reported(s), "ok")
             n == [e EXCEPT !.pc = "streaming", !.bind = req[s].bind]
  <2>1. req[s] \in RequestState
    BY DEF AttemptInv, RequestInv
  <2>2. e.attempts = req[s].attempts
    BY <2>1, AttemptsKept
  <2>3. n.attempts = e.attempts
    BY DEF Ended
  <2>4. req' = [req EXCEPT ![s] = Ended(Reported(s), "cancelled")]
        \/ req' = [req EXCEPT ![s] = n]
    BY DEF Deliver
  <2>5. Ended(Reported(s), "cancelled").attempts = req[s].attempts
    BY <2>1, AttemptsKept
  <2> QED
    BY <2>2, <2>3, <2>4, <2>5, <1>3
<1>9. ~Recorded(s) /\ ~NotRecorded(s)
  BY <1>0, <1>3, AttemptsKept DEF Recorded, NotRecorded, RequestState
<1>10. ~RecordState(s)
  <2> SUFFICES ASSUME RecordState(s) PROVE FALSE
    OBVIOUS
  <2>1. req[s].failure \in Failures
    BY DEF AttemptInv, RequestInv, Balanced, RecordState
  <2> QED
    BY <1>9, <2>1
       DEF RecordState, RecordCooldown, RecordRateLimited, RecordDenied, Failures
<1>11. Start(s)
  BY <1>2, <1>4, <1>5, <1>6, <1>7, <1>8, <1>10 DEF Step
<1>12. s = r /\ CanStart(req[s])
  BY <1>0, <1>3, <1>11, AttemptsKept DEF Start
<1>13. req'[r].attempts = req[r].attempts + 1
  BY <1>0, <1>11, <1>12 DEF Start, RequestState
<1> QED
  BY <1>11, <1>12, <1>13

(* No attempt begins at or after the cumulative bootstrap deadline, beyond *)
(* max_attempts, or once output of an earlier one was visible.             *)
THEOREM StartsAreWithinBudget == Spec => StartsWithinBudget
<1> DEFINE Budget(r) ==
        req'[r].attempts > req[r].attempts =>
            /\ now < req[r].deadline
            /\ req'[r].attempts <= MaxAttempts
            /\ ~req[r].semantic
<1>1. AttemptInv /\ [Next]_vars => [\A r \in Requests : Budget(r)]_vars
  <2> SUFFICES ASSUME AttemptInv, Next, NEW r \in Requests,
                      req'[r].attempts > req[r].attempts
               PROVE  /\ now < req[r].deadline
                      /\ req'[r].attempts <= MaxAttempts
                      /\ ~req[r].semantic
    OBVIOUS
  <2>1. req[r] \in RequestState /\ Balanced(req[r])
    BY DEF AttemptInv, RequestInv
  <2>2. req'[r].attempts # req[r].attempts
    BY <2>1 DEF RequestState
  <2>3. Start(r) /\ CanStart(req[r]) /\ req'[r].attempts = req[r].attempts + 1
    BY <2>2, OnlyStartCounts
  <2>4. now < req[r].deadline /\ req'[r].attempts <= MaxAttempts
    BY <2>1, <2>3, OrchestratorConstants DEF CanStart, RequestState
  <2>5. ~req[r].semantic
    BY <2>1, <2>3 DEF Start, Balanced, Before
  <2> QED
    BY <2>4, <2>5
<1> QED
  BY <1>1, AttemptInvariance, PTL DEF Spec, StartsWithinBudget
=============================================================================
