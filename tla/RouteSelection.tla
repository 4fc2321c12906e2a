--------------------------- MODULE RouteSelection ---------------------------
(***************************************************************************)
(* smooth_weighted_slots, the schedule compiler shared by route tiers      *)
(* (gateway-router) and credential tiers (gateway-upstream): one slot per  *)
(* unit of weight, interleaved so that no member bunches up.  One step is  *)
(* one iteration of its outer loop.                                        *)
(***************************************************************************)
EXTENDS Integers, FiniteSets, Sequences, FiniteSetsExt, SequencesExt

CONSTANTS
    MaxMembers,  \* bound on the members of one tier
    MaxWeight,   \* bound on one weight
    MaxSlots     \* MAX_SCHEDULE_SLOTS_PER_PRIORITY_TIER

ASSUME ScheduleConstants ==
    /\ MaxMembers \in Nat \ {0}
    /\ MaxWeight \in Nat \ {0}
    /\ MaxSlots \in Nat \ {0}

VARIABLES
    weights,  \* position -> weight
    current,  \* position -> current_weights
    slots     \* slot_indexes: the positions picked so far

scheduleVars == <<weights, current, slots>>

Members == DOMAIN weights

TotalWeight(w) == MapThenSumSet(LAMBDA i : w[i], DOMAIN w)

\* A tier that would need more slots is refused: RouteScheduleTooLarge.
AcceptedSchedule(w) == TotalWeight(w) <= MaxSlots

ScheduleInit ==
    /\ \E n \in 1 .. MaxMembers : weights \in [1 .. n -> 1 .. MaxWeight]
    /\ AcceptedSchedule(weights)
    /\ current = [i \in Members |-> 0]
    /\ slots = <<>>

\* Fault: the scan compares with its neighbour instead of the best so far.
SelectNeighbour(raised) ==
    CHOOSE i \in Members :
        /\ i = 1 \/ raised[i] > raised[i - 1]
        /\ \A j \in Members : j > i => ~(raised[j] > raised[j - 1])

\* The first of the members with the largest current weight.
Select(raised) ==
    CHOOSE i \in Members :
        /\ \A j \in Members : raised[j] <= raised[i]
        /\ \A j \in Members : j < i => raised[j] < raised[i]

Pick ==
    /\ Len(slots) < TotalWeight(weights)
    /\ LET raised == [i \in Members |-> current[i] + weights[i]]
           winner == Select(raised)
       IN  /\ current' = [raised EXCEPT ![winner] = @ - TotalWeight(weights)]
           /\ slots' = Append(slots, winner)
    /\ UNCHANGED weights

-----------------------------------------------------------------------------
Picked(i) == Cardinality({n \in DOMAIN slots : slots[n] = i})

(* After any number of slots no member has run ahead of its share of them  *)
(* by a whole slot, so a heavy member is never served in a burst it has    *)
(* not earned yet, and the finished schedule holds every member exactly as *)
(* often as its weight says.                                               *)
NeverOverserved ==
    \A i \in Members :
        LET total == TotalWeight(weights)
        IN  total * Picked(i) - Len(slots) * weights[i] < total

-----------------------------------------------------------------------------
(***************************************************************************)
(* gateway-router's fixed-input Route Explain beside the selection it      *)
(* explains: the first reads a snapshot, pools and runtime registries      *)
(* without moving a cursor, the second walks the same tiers slot by slot,  *)
(* drawing cursors and leasing.  One route with two Candidates that share  *)
(* an Endpoint and one on another; marks say what stands in the way.       *)
(***************************************************************************)

CONSTANT MaxStart    \* cursors start at 0 .. MaxStart

VARIABLES
    scene,    \* marks (obstacles) and the schedule starts of the input
    cursors,  \* the pool and route cursors the selection draws from
    walk      \* where the selection is, and what it leased

explainVars == <<scene, cursors, walk>>

-----------------------------------------------------------------------------
\* SnapshotRoute and its compiled schedule: slot_indexes of each tier.
RouteCandidates == <<[endpoint |-> "e1", model |-> "m1"], [endpoint |-> "e1", model |-> "m2"],
                     [endpoint |-> "e2", model |-> "m1"]>>
RouteTiers == << <<1, 2, 1>>, <<3>> >>

\* EndpointCredentialPools: the credential slots of each priority tier.
Pools == [e1 |-> << <<"a", "b">>, <<"c">> >>, e2 |-> << <<"a", "b", "a">> >>]
Creds(e) == UNION {Range(Pools[e][i]) : i \in DOMAIN Pools[e]}

Has(mark) == mark \in scene.marks

Marks ==
    LET bindings == UNION {{<<e, c>> : c \in Creds(e)} : e \in DOMAIN Pools}
    IN  {<<kind, e>> : kind \in {"pool_missing", "endpoint_health"}, e \in DOMAIN Pools}
        \cup {<<kind, b[1], b[2]>> : b \in bindings,
                kind \in {"saturated", "credential_health", "binding_quota", "expired"}}
        \cup {<<kind, k.endpoint, c, k.model>> : k \in Range(RouteCandidates), c \in {"a", "b"},
                kind \in {"excluded", "model_health", "model_quota"}}

-----------------------------------------------------------------------------
(* route_explain.rs *)

push_reason(mark) == IF Has(mark) THEN {mark[1]} ELSE {}

\* Fault: a binding this request has already tried still reads as eligible.
explain_credential_untried(k, c) ==
    push_reason(<<"saturated", k.endpoint, c>>)
    \cup push_reason(<<"credential_health", k.endpoint, c>>)
    \cup push_reason(<<"model_health", k.endpoint, c, k.model>>)
    \cup push_reason(<<"binding_quota", k.endpoint, c>>)
    \cup push_reason(<<"model_quota", k.endpoint, c, k.model>>)

explain_credential(k, c) ==
    push_reason(<<"excluded", k.endpoint, c, k.model>>)
    \cup push_reason(<<"saturated", k.endpoint, c>>)
    \cup push_reason(<<"credential_health", k.endpoint, c>>)
    \cup push_reason(<<"model_health", k.endpoint, c, k.model>>)
    \cup push_reason(<<"binding_quota", k.endpoint, c>>)
    \cup push_reason(<<"model_quota", k.endpoint, c, k.model>>)

explain_candidate(k) ==
    LET listed == IF Has(<<"pool_missing", k.endpoint>>) THEN {} ELSE Creds(k.endpoint)
        usable == {c \in listed : explain_credential(k, c) = {}}
    IN  [reasons |-> push_reason(<<"endpoint_health", k.endpoint>>)
                     \cup push_reason(<<"pool_missing", k.endpoint>>)
                     \cup (IF usable = {} THEN {"no_eligible_credential"} ELSE {}),
         usable |-> usable]

\* The slots of a tier in the order a scan from start visits them.
Scan(tier, start) ==
    [o \in 1 .. Len(tier) |-> tier[((start + o - 1) % Len(tier)) + 1]]
ScanAll(tiers, start) == FlattenSeq([i \in DOMAIN tiers |-> Scan(tiers[i], start)])
FirstOr(seq, none) == IF seq = <<>> THEN none ELSE seq[1]

\* Without a lease and without moving a cursor.
peek_eligible_from(e, start, usable) ==
    FirstOr(SelectSeq(ScanAll(Pools[e], start),
                      LAMBDA c : c \in usable /\ ~Has(<<"saturated", e, c>>)), "none")

project_selection(explained, kStart, cStart) ==
    LET picks == [i \in DOMAIN RouteCandidates |->
                    IF explained[i].reasons # {} THEN "none"
                    ELSE peek_eligible_from(RouteCandidates[i].endpoint, cStart,
                                            explained[i].usable)]
        found == SelectSeq(ScanAll(RouteTiers, kStart), LAMBDA i : picks[i] # "none")
    IN  IF found = <<>> THEN [candidate |-> 0, credential |-> "none"]
        ELSE [candidate |-> found[1], credential |-> picks[found[1]]]

explain ==
    LET explained == [i \in DOMAIN RouteCandidates |-> explain_candidate(RouteCandidates[i])]
    IN  [candidates |-> explained,
         projected |-> project_selection(explained, scene.candidate, scene.credential)]

-----------------------------------------------------------------------------
(* credential_scheduler.rs and route_scheduler.rs *)

\* An ordinary request needs a binding with quota, a recovery one whose
\* exhausted quota is due (every exhausted quota of a scene is).
QuotaAdmits(k, c, recovery) == recovery = Has(<<"binding_quota", k.endpoint, c>>)

\* The predicate the scheduler hands to the pool for one binding.
binding_is_eligible(k, c, recovery) ==
    /\ ~Has(<<"expired", k.endpoint, c>>)
    /\ ~Has(<<"excluded", k.endpoint, c, k.model>>)
    /\ ~Has(<<"credential_health", k.endpoint, c>>)
    /\ ~Has(<<"model_health", k.endpoint, c, k.model>>)
    /\ QuotaAdmits(k, c, recovery)
    /\ ~Has(<<"model_quota", k.endpoint, c, k.model>>)

\* The tiers of e a try_lease_slots visits: each draws a cursor value.
Drawn(e, c) ==
    IF c = "none" THEN DOMAIN Pools[e]
    ELSE {i \in DOMAIN Pools[e] :
            \A j \in DOMAIN Pools[e] : c \in Range(Pools[e][j]) => i <= j}

try_lease_eligible_at(k, recovery) ==
    LET e == k.endpoint
        order == FlattenSeq([i \in DOMAIN Pools[e] |-> Scan(Pools[e][i], cursors.pool[e][i])])
    IN  IF Has(<<"pool_missing", e>>) THEN "none"
        ELSE FirstOr(SelectSeq(order, LAMBDA c : /\ binding_is_eligible(k, c, recovery)
                                                 /\ ~Has(<<"saturated", e, c>>)), "none")

\* RouteCandidateScheduler::select_eligible enters a tier: fetch_add.
EnterTier ==
    /\ walk.at = "tier"
    /\ IF walk.tier > Len(RouteTiers)
       THEN walk' = [walk EXCEPT !.at = "done"] /\ UNCHANGED cursors
       ELSE /\ walk' = [walk EXCEPT !.at = "slot", !.start = cursors.route[walk.tier], !.offset = 1]
            /\ cursors' = [cursors EXCEPT !.route[walk.tier] = @ + 1]
    /\ UNCHANGED scene

NextSlot(w) ==
    IF w.offset < Len(RouteTiers[w.tier]) THEN [w EXCEPT !.offset = @ + 1]
    ELSE [w EXCEPT !.at = "tier", !.tier = @ + 1]

\* The closure select_eligible calls on one Candidate: health, then a lease.
TryCandidate(recovery) ==
    /\ walk.at = "slot"
    /\ walk.recovery = recovery
    /\ LET i == Scan(RouteTiers[walk.tier], walk.start)[walk.offset]
           k == RouteCandidates[i]
           c == try_lease_eligible_at(k, recovery)
       IN  IF Has(<<"endpoint_health", k.endpoint>>)
           THEN walk' = NextSlot(walk) /\ UNCHANGED cursors
           ELSE /\ walk' = IF c = "none" THEN NextSlot(walk)
                           ELSE [walk EXCEPT !.at = "done", !.candidate = i, !.credential = c]
                /\ cursors' = IF Has(<<"pool_missing", k.endpoint>>) THEN cursors
                              ELSE [cursors EXCEPT !.pool[k.endpoint] =
                                      [t \in DOMAIN @ |-> IF t \in Drawn(k.endpoint, c)
                                                          THEN @[t] + 1 ELSE @[t]]]
    /\ UNCHANGED scene

SelectForRequest == TryCandidate(FALSE)
SelectForQuotaRecovery == TryCandidate(TRUE)

\* Two obstacles of any kind, on an idle gateway, on one whose better
\* credentials are busy, and on one where a model or a tier is worn out.
Loads == { {},
           {<<"saturated", "e1", "a">>, <<"saturated", "e1", "c">>},
           {<<"model_health", "e1", c, "m1">> : c \in {"a", "b"}} \cup {<<"saturated", "e1", "c">>},
           {<<"binding_quota", "e1", c>> : c \in {"a", "b", "c"}} }

\* The cursors stand where the explained input says they do.
ExplainInit ==
    /\ \E load \in Loads, m, n \in Marks, k, c \in 0 .. MaxStart :
          scene = [marks |-> load \cup {m, n}, candidate |-> k, credential |-> c]
    /\ cursors = [route |-> [t \in DOMAIN RouteTiers |-> scene.candidate],
                  pool |-> [e \in DOMAIN Pools |-> [t \in DOMAIN Pools[e] |-> scene.credential]]]
    /\ \E recovery \in BOOLEAN :
          walk = [at |-> "tier", tier |-> 1, start |-> 0, offset |-> 1, recovery |-> recovery,
                  candidate |-> 0, credential |-> "none"]

\* No request: nothing is explained or selected.
ExplainIdle ==
    /\ scene = [marks |-> {}, candidate |-> 0, credential |-> 0]
    /\ cursors = <<>>
    /\ walk = [at |-> "none"]

ExplainNext == EnterTier \/ SelectForRequest \/ SelectForQuotaRecovery

-----------------------------------------------------------------------------
(* Explain against the selection that follows it with the same cursors and *)
(* nothing else moving: unless a credential has expired, which Explain     *)
(* does not look at, the projected Candidate is the one selected, and the  *)
(* credential is one Explain called eligible, of the projected one's tier. *)
(* (The credential itself may differ: a Candidate refused earlier on the   *)
(* same Endpoint has already moved that pool's cursor.)                    *)
ExplainPredictsSelection ==
    /\ walk.at = "done"
    /\ ~walk.recovery
    /\ \A m \in scene.marks : m[1] # "expired"
    => LET k == walk.candidate
           told == explain
       IN  /\ told.projected.candidate = k
           /\ k # 0 =>
                /\ walk.credential \in told.candidates[k].usable
                /\ LET tiers == Pools[RouteCandidates[k].endpoint]
                   IN  \A t \in DOMAIN tiers :
                         (walk.credential \in Range(tiers[t]))
                           = (told.projected.credential \in Range(tiers[t]))
=============================================================================
