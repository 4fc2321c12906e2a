---------------------------- MODULE RuntimeQuota ----------------------------
(***************************************************************************)
(* One shard of gateway-router's RuntimeQuotaRegistry: the newest quota    *)
(* evidence per target, and the exclusive ticket under which a target may  *)
(* be probed once all of its exhausted windows have reset.                 *)
(*                                                                         *)
(* A snapshot is reduced to what scheduling reads of it: when it was       *)
(* observed and blocking_reset_at_ms, the latest reset of its exhausted    *)
(* windows (0 when no window is exhausted).  As in RuntimeHealth, an       *)
(* operation reads the clock before it takes the shard's lock and so       *)
(* carries its own reading t; failed calls are stuttering steps.           *)
(***************************************************************************)
EXTENDS Integers, FiniteSets

CONSTANTS
    Targets,          \* the RuntimeQuotaTargets that hash to this shard
    QuotaCapacity,    \* MAX_RUNTIME_QUOTA_ENTRIES_PER_SHARD
    Fallback,         \* duration of a 429 window without a usable retry-after
    MaxQuotaTime,     \* bound on the clock and on every deadline
    MaxQuotaProbeId   \* last ticket generation that can be handed out

ASSUME QuotaConstants ==
    /\ IsFiniteSet(Targets)
    /\ QuotaCapacity \in Nat \ {0}
    /\ Fallback \in Nat \ {0}
    /\ MaxQuotaTime \in Nat
    /\ MaxQuotaProbeId \in Nat

VARIABLES
    quotaNow,       \* the clock
    quotaStates,    \* the shard's map; an absent target is QuotaAbsent
    nextId,         \* next_recovery_probe_id
    quotaTickets,   \* tickets handed out and not yet consumed
    quotaOutdated,  \* history: tickets overtaken by a newer snapshot or ticket
    newest          \* history: the most recently observed evidence ever accepted

quotaVars ==
    <<quotaNow, quotaStates, nextId, quotaTickets, quotaOutdated, newest>>

-----------------------------------------------------------------------------
QuotaTimes == 0 .. MaxQuotaTime
QuotaIds        == 0 .. MaxQuotaProbeId + 1

\* QuotaSnapshot::try_new admits exhaustion only with a reset still to come.
IsSnapshot(obs, reset) == reset = 0 \/ reset > obs

\* id = 0: no recovery_probe.  QuotaTicket generations start at 1.
RuntimeQuotaState ==
    [held : BOOLEAN, obs : QuotaTimes, reset : QuotaTimes, id : QuotaIds, exp : QuotaTimes]

Holding(obs, reset, id, exp) ==
    [held |-> TRUE, obs |-> obs, reset |-> reset, id |-> id, exp |-> exp]

QuotaAbsent == [held |-> FALSE, obs |-> 0, reset |-> 0, id |-> 0, exp |-> 0]

\* RuntimeQuotaState::availability_at, as far as is_available tells apart:
\* reaching the reset instant does not make an exhausted target available.
QuotaAvailable(s) == s.reset = 0

ProbeInFlight(s, t) == s.id # 0 /\ t < s.exp

QuotaTicket == [target : Targets, id : QuotaIds, exp : QuotaTimes, issued : QuotaTimes]

Evidence == [obs : QuotaTimes, reset : QuotaTimes]

Held == {k \in Targets : quotaStates[k].held}

-----------------------------------------------------------------------------
(* ensure_insert_capacity                                                  *)

QuotaHasRoom(n) == n < QuotaCapacity

Kept(s) == s.held /\ ~QuotaAvailable(s)

ReclaimQuota ==
    [k \in Targets |-> IF Kept(quotaStates[k]) THEN quotaStates[k] ELSE QuotaAbsent]

LiveQuotaAfterReclaim == {k \in Targets : ReclaimQuota[k].held}

\* A full shard never refuses after dropping something: see RuntimeHealth.
InsertQuota(k, s) ==
    /\ ~quotaStates[k].held
    /\ \/ /\ QuotaHasRoom(Cardinality(Held))
          /\ quotaStates' = [quotaStates EXCEPT ![k] = s]
       \/ /\ ~QuotaHasRoom(Cardinality(Held))
          /\ QuotaHasRoom(Cardinality(LiveQuotaAfterReclaim))
          /\ quotaStates' = [ReclaimQuota EXCEPT ![k] = s]

ReplaceQuota(k, s) ==
    /\ quotaStates[k].held
    /\ quotaStates' = [quotaStates EXCEPT ![k] = s]

\* Evidence about k was accepted: quotaTickets for k are overtaken.
Accepted(k, obs, reset) ==
    newest' = IF obs >= newest[k].obs
              THEN [newest EXCEPT ![k] = [obs |-> obs, reset |-> reset]]
              ELSE newest

Overtake(k) == quotaOutdated' = quotaOutdated \cup {tk \in quotaTickets : tk.target = k}

-----------------------------------------------------------------------------
QuotaInit ==
    /\ quotaNow = 0
    /\ quotaStates = [k \in Targets |-> QuotaAbsent]
    /\ nextId = 1
    /\ quotaTickets = {}
    /\ quotaOutdated = {}
    /\ newest = [k \in Targets |-> [obs |-> 0, reset |-> 0]]

QuotaTick ==
    /\ quotaNow < MaxQuotaTime
    /\ quotaNow' = quotaNow + 1
    /\ UNCHANGED <<quotaStates, nextId, quotaTickets, quotaOutdated, newest>>

RecordSnapshot(k, obs, reset) ==
    /\ obs \in 0 .. quotaNow
    /\ IsSnapshot(obs, reset)
    /\ \/ /\ obs >= quotaStates[k].obs            \* else ObservationTimeRegressed
          /\ ReplaceQuota(k, Holding(obs, reset, 0, 0))
       \/ InsertQuota(k, Holding(obs, reset, 0, 0))
    /\ Overtake(k)
    /\ Accepted(k, obs, reset)
    /\ UNCHANGED <<quotaNow, nextId, quotaTickets>>

\* A 429.  A missing or zero retry-after (0) uses the fallback duration.
RecordRateLimited(k, obs, retryAfter) ==
    LET reset == obs + (IF retryAfter > 0 THEN retryAfter ELSE Fallback)
    IN  /\ reset <= MaxQuotaTime
        /\ RecordSnapshot(k, obs, reset)

IssueProbe(k, exp, t) ==
    /\ nextId' = nextId + 1
    /\ ReplaceQuota(k, Holding(quotaStates[k].obs, quotaStates[k].reset, nextId, exp))
    /\ Overtake(k)
    /\ quotaTickets' = quotaTickets \cup
           {[target |-> k, id |-> nextId, exp |-> exp, issued |-> t]}
    /\ UNCHANGED <<quotaNow, newest>>

BeginRecoveryProbe(k, exp, t) ==
    /\ t \in 0 .. quotaNow
    /\ exp > t
    /\ quotaStates[k].held
    /\ ~QuotaAvailable(quotaStates[k])
    /\ t >= quotaStates[k].reset
    /\ ~ProbeInFlight(quotaStates[k], t)
    /\ nextId <= MaxQuotaProbeId
    /\ IssueProbe(k, exp, t)

OwnsQuota(tk) ==
    /\ quotaStates[tk.target].id = tk.id
    /\ quotaStates[tk.target].exp = tk.exp

ConsumeQuota(tk) ==
    /\ quotaTickets' = quotaTickets \ {tk}
    /\ quotaOutdated' = quotaOutdated \ {tk}

\* Fault: a follow-up observation older than the retained one is accepted.
IsCurrentIgnoringOrder(tk, obs, t) == OwnsQuota(tk) /\ t < tk.exp

IsCurrent(tk, obs, t) ==
    /\ OwnsQuota(tk)
    /\ t < tk.exp
    /\ obs >= quotaStates[tk.target].obs

CompleteRecoveryProbe(tk, obs, reset, t) ==
    /\ tk \in quotaTickets
    /\ t \in tk.issued .. quotaNow
    /\ obs \in 0 .. quotaNow
    /\ IsSnapshot(obs, reset)
    /\ quotaTickets' = quotaTickets \ {tk}
    /\ \/ /\ ~IsCurrent(tk, obs, t)                 \* StaleRecoveryProbe
          /\ quotaOutdated' = quotaOutdated \ {tk}
          /\ UNCHANGED <<quotaStates, newest>>
       \/ /\ IsCurrent(tk, obs, t)
          /\ quotaStates' = [quotaStates EXCEPT ![tk.target] = Holding(obs, reset, 0, 0)]
          /\ Accepted(tk.target, obs, reset)
          /\ quotaOutdated' =
                 (quotaOutdated \cup {o \in quotaTickets : o.target = tk.target})
                     \ {tk}
    /\ UNCHANGED <<quotaNow, nextId>>

\* The holder was cancelled or failed for a reason that says nothing of quota.
AbandonQuotaTicket(tk) ==
    /\ tk \in quotaTickets
    /\ ConsumeQuota(tk)
    /\ UNCHANGED <<quotaNow, quotaStates, nextId, newest>>

QuotaNext ==
    \/ QuotaTick
    \/ \E k \in Targets, obs, d \in QuotaTimes :
          \/ RecordSnapshot(k, obs, d)
          \/ RecordRateLimited(k, obs, d)
    \/ \E k \in Targets, exp, t \in QuotaTimes : BeginRecoveryProbe(k, exp, t)
    \/ \E tk \in quotaTickets, obs, reset, t \in QuotaTimes :
          CompleteRecoveryProbe(tk, obs, reset, t)
    \/ \E tk \in quotaTickets : AbandonQuotaTicket(tk)

QuotaSpec == QuotaInit /\ [][QuotaNext]_quotaVars

-----------------------------------------------------------------------------
QuotaTypeOK ==
    /\ quotaNow \in QuotaTimes
    /\ quotaStates \in [Targets -> RuntimeQuotaState]
    /\ nextId \in QuotaIds
    /\ quotaTickets \subseteq QuotaTicket
    /\ quotaOutdated \subseteq quotaTickets
    /\ newest \in [Targets -> Evidence]

(* Reaching a reset, losing a probe or reclaiming space never reopens a    *)
(* target: while the most recently observed evidence that was accepted is  *)
(* exhaustion, ordinary scheduling stays closed.  This also rules out that *)
(* an observation arriving late replaces a later one, and that dropping a  *)
(* due entry in ensure_insert_capacity turns it into availability.         *)
NewestExhaustionBlocks ==
    \A k \in Targets : newest[k].reset # 0 => ~QuotaAvailable(quotaStates[k])

(* Once a newer snapshot or a replacement ticket reached its target, a     *)
(* recovery probe that reports late is stale in complete_recovery_probe.   *)
LateProbePowerless == \A tk \in quotaOutdated : ~OwnsQuota(tk)

(* At most one of the probes still held for a target can be completed.     *)
SoleProbeOwner ==
    \A a, b \in quotaTickets :
        a.target = b.target /\ OwnsQuota(a) /\ OwnsQuota(b) => a = b

(* begin_recovery_probe admits controlled traffic only after every         *)
(* exhausted window of the evidence it is judged by has reset.             *)
ProbedAfterReset ==
    \A tk \in quotaTickets : OwnsQuota(tk) => tk.issued >= quotaStates[tk.target].reset

(* The newest evidence rules a target: it alone opens or closes it, and    *)
(* the one recovery probe it admits is the only one that can replace it.   *)
NewestEvidenceRules ==
    /\ NewestExhaustionBlocks
    /\ LateProbePowerless
    /\ SoleProbeOwner
    /\ ProbedAfterReset
=============================================================================
