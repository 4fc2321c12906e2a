------------------------ MODULE QuotaAndPoolProofs --------------------------
(***************************************************************************)
(* The two registries a request passes on its way to a credential.         *)
(*                                                                         *)
(* For every set of targets, capacity and clock range: only the newest     *)
(* quota evidence decides, and only its own recovery probe replaces it.    *)
(* For every pool, schedule, cursor width and number of requests: lease    *)
(* counts are exact, concurrency limits hold, CredentialPool implements    *)
(* LeasePool, and better tiers are exhausted first.                        *)
(***************************************************************************)
EXTENDS RuntimeQuota, CredentialPool, FiniteSetTheorems, TLAPS

-----------------------------------------------------------------------------
(* Type correctness.                                                       *)

LEMMA Constants == 0 \in QuotaTimes /\ 0 \in QuotaIds /\ 1 \in QuotaIds
BY QuotaConstants DEF QuotaTimes, QuotaIds

LEMMA HoldingType ==
    ASSUME NEW obs \in QuotaTimes, NEW reset \in QuotaTimes, NEW id \in QuotaIds,
           NEW exp \in QuotaTimes
    PROVE  Holding(obs, reset, id, exp) \in RuntimeQuotaState
BY DEF Holding, RuntimeQuotaState

LEMMA AbsentType == QuotaAbsent \in RuntimeQuotaState
BY Constants DEF QuotaAbsent, RuntimeQuotaState

LEMMA InsertType ==
    ASSUME QuotaTypeOK, NEW k \in Targets, NEW s \in RuntimeQuotaState, InsertQuota(k, s)
    PROVE  quotaStates' \in [Targets -> RuntimeQuotaState]
<1>1. ReclaimQuota \in [Targets -> RuntimeQuotaState]
  BY AbsentType DEF ReclaimQuota, QuotaTypeOK
<1> QED
  BY <1>1 DEF InsertQuota, QuotaTypeOK

LEMMA ReplaceType ==
    ASSUME QuotaTypeOK, NEW k \in Targets, NEW s \in RuntimeQuotaState, ReplaceQuota(k, s)
    PROVE  quotaStates' \in [Targets -> RuntimeQuotaState]
BY DEF QuotaTypeOK, ReplaceQuota

LEMMA AcceptedType ==
    ASSUME QuotaTypeOK, NEW k \in Targets, NEW obs \in QuotaTimes, NEW reset \in QuotaTimes,
           Accepted(k, obs, reset)
    PROVE  newest' \in [Targets -> Evidence]
BY DEF QuotaTypeOK, Accepted, Evidence

LEMMA TypeInitially == QuotaInit => QuotaTypeOK
<1> SUFFICES ASSUME QuotaInit PROVE QuotaTypeOK
  OBVIOUS
<1>1. newest \in [Targets -> Evidence]
  BY Constants DEF QuotaInit, Evidence
<1> QED
  BY <1>1, Constants, AbsentType DEF QuotaInit, QuotaTypeOK

LEMMA RecordSnapshotType ==
    ASSUME QuotaTypeOK, NEW k \in Targets, NEW obs \in QuotaTimes, NEW reset \in QuotaTimes,
           RecordSnapshot(k, obs, reset)
    PROVE  QuotaTypeOK'
<1>1. Holding(obs, reset, 0, 0) \in RuntimeQuotaState
  BY HoldingType, Constants
<1>2. quotaStates' \in [Targets -> RuntimeQuotaState]
  BY <1>1, InsertType, ReplaceType DEF RecordSnapshot
<1>3. newest' \in [Targets -> Evidence]
  BY AcceptedType DEF RecordSnapshot
<1>4. quotaOutdated' \subseteq quotaTickets'
  BY DEF RecordSnapshot, Overtake, QuotaTypeOK
<1> QED
  BY <1>2, <1>3, <1>4 DEF RecordSnapshot, QuotaTypeOK

\* A 429 is the recording of a snapshot whose reset lies within the modelled times.
LEMMA RateLimitedIsSnapshot ==
    ASSUME NEW k \in Targets, NEW obs \in QuotaTimes, NEW d \in QuotaTimes,
           RecordRateLimited(k, obs, d)
    PROVE  \E reset \in QuotaTimes : RecordSnapshot(k, obs, reset)
<1> DEFINE reset == obs + (IF d > 0 THEN d ELSE Fallback)
<1>1. reset \in QuotaTimes
  BY QuotaConstants DEF RecordRateLimited, QuotaTimes
<1>2. RecordSnapshot(k, obs, reset)
  BY DEF RecordRateLimited
<1> QED
  BY <1>1, <1>2

LEMMA TypePreserved == QuotaTypeOK /\ [QuotaNext]_quotaVars => QuotaTypeOK'
<1> SUFFICES ASSUME QuotaTypeOK, [QuotaNext]_quotaVars PROVE QuotaTypeOK'
  OBVIOUS
<1>1. CASE QuotaTick
  BY <1>1, QuotaConstants DEF QuotaTick, QuotaTypeOK, QuotaTimes
<1>2. ASSUME NEW k \in Targets, NEW obs \in QuotaTimes, NEW d \in QuotaTimes,
             RecordSnapshot(k, obs, d) \/ RecordRateLimited(k, obs, d)
      PROVE  QuotaTypeOK'
  BY <1>2, RecordSnapshotType, RateLimitedIsSnapshot
<1>3. ASSUME NEW k \in Targets, NEW exp \in QuotaTimes, NEW t \in QuotaTimes,
             BeginRecoveryProbe(k, exp, t)
      PROVE  QuotaTypeOK'
  <2>1. nextId \in QuotaIds /\ nextId' \in QuotaIds
    BY <1>3, QuotaConstants DEF BeginRecoveryProbe, IssueProbe, QuotaTypeOK, QuotaIds
  <2>2. quotaStates[k].obs \in QuotaTimes /\ quotaStates[k].reset \in QuotaTimes
    BY DEF QuotaTypeOK, RuntimeQuotaState
  <2>3. quotaStates' \in [Targets -> RuntimeQuotaState]
    BY <1>3, <2>1, <2>2, HoldingType, ReplaceType DEF BeginRecoveryProbe, IssueProbe
  <2>4. quotaTickets' \subseteq QuotaTicket
    BY <1>3, <2>1 DEF BeginRecoveryProbe, IssueProbe, QuotaTypeOK, QuotaTicket
  <2>5. quotaOutdated' \subseteq quotaTickets'
    BY <1>3 DEF BeginRecoveryProbe, IssueProbe, QuotaTypeOK, Overtake
  <2> QED
    BY <1>3, <2>1, <2>3, <2>4, <2>5 DEF BeginRecoveryProbe, IssueProbe, QuotaTypeOK
<1>4. ASSUME NEW tk \in quotaTickets, NEW obs \in QuotaTimes, NEW reset \in QuotaTimes,
             NEW t \in QuotaTimes,
             CompleteRecoveryProbe(tk, obs, reset, t)
      PROVE  QuotaTypeOK'
  <2>1. tk.target \in Targets
    BY DEF QuotaTypeOK, QuotaTicket
  <2>2. quotaStates' \in [Targets -> RuntimeQuotaState]
    BY <1>4, HoldingType, Constants DEF CompleteRecoveryProbe, QuotaTypeOK
  <2>3. newest' \in [Targets -> Evidence]
    BY <1>4, <2>1, AcceptedType DEF CompleteRecoveryProbe, QuotaTypeOK
  <2>4. quotaOutdated' \subseteq quotaTickets'
    BY <1>4 DEF CompleteRecoveryProbe, QuotaTypeOK
  <2> QED
    BY <1>4, <2>2, <2>3, <2>4 DEF CompleteRecoveryProbe, QuotaTypeOK
<1>5. ASSUME NEW tk \in quotaTickets, AbandonQuotaTicket(tk)
      PROVE  QuotaTypeOK'
  BY <1>5 DEF AbandonQuotaTicket, ConsumeQuota, QuotaTypeOK
<1>6. CASE UNCHANGED quotaVars
  BY <1>6 DEF quotaVars, QuotaTypeOK
<1> QED
  BY <1>1, <1>2, <1>3, <1>4, <1>5, <1>6 DEF QuotaNext

(* The shard's evidence, its ticket counter and the tickets keep their     *)
(* types for every interleaving of the registry's operations.              *)
THEOREM QuotaTypeCorrect == QuotaSpec => []QuotaTypeOK
BY TypeInitially, TypePreserved, PTL DEF QuotaSpec

-----------------------------------------------------------------------------
(* Ticket discipline.  As for the health tickets, LateProbePowerless needs *)
(* to know that a ticket's generation is never handed out again; that the  *)
(* owner was issued after the reset it is judged by is kept beside it.     *)

GenerationsSpent ==
    /\ 0 < nextId
    /\ \A tk \in quotaTickets : 0 < tk.id /\ tk.id < nextId
    /\ \A k \in Targets : quotaStates[k].id < nextId

GenerationsUnique == \A a, b \in quotaTickets : a.id = b.id => a = b

OvertakenLost == \A tk \in quotaOutdated : tk.id # quotaStates[tk.target].id

OwnersWaited ==
    \A tk \in quotaTickets :
        tk.id = quotaStates[tk.target].id => tk.issued >= quotaStates[tk.target].reset

ProbeInv ==
    QuotaTypeOK /\ GenerationsSpent /\ GenerationsUnique /\ OvertakenLost /\ OwnersWaited

\* A step that issues no ticket and leaves a changed target without one.
QuietStep ==
    /\ quotaTickets' \subseteq quotaTickets
    /\ nextId' = nextId
    /\ \A j \in Targets : quotaStates'[j] = quotaStates[j] \/ quotaStates'[j].id = 0
    /\ \A tk \in quotaOutdated' : tk \in quotaOutdated \/ quotaStates'[tk.target].id = 0

LEMMA QuietStepKeepsProbeInv ==
    ASSUME ProbeInv, QuotaTypeOK', QuietStep
    PROVE  ProbeInv'
<1>1. \A tk \in quotaTickets : tk.target \in Targets /\ 0 < tk.id
  BY DEF ProbeInv, QuotaTypeOK, QuotaTicket, GenerationsSpent
<1>2. GenerationsSpent'
  BY DEF ProbeInv, QuietStep, GenerationsSpent
<1>3. GenerationsUnique'
  BY DEF ProbeInv, QuietStep, GenerationsUnique
<1>4. OvertakenLost'
  <2> SUFFICES ASSUME NEW tk \in quotaOutdated' PROVE tk.id # quotaStates'[tk.target].id
    BY DEF OvertakenLost
  <2>1. tk \in quotaTickets
    BY DEF QuotaTypeOK, QuietStep
  <2> QED
    BY <1>1, <2>1 DEF QuietStep, ProbeInv, OvertakenLost
<1>5. OwnersWaited'
  BY <1>1 DEF ProbeInv, QuietStep, OwnersWaited
<1> QED
  BY <1>2, <1>3, <1>4, <1>5 DEF ProbeInv

LEMMA RecordSnapshotIsQuiet ==
    ASSUME QuotaTypeOK, NEW k \in Targets, NEW obs \in QuotaTimes, NEW reset \in QuotaTimes,
           RecordSnapshot(k, obs, reset)
    PROVE  QuietStep
<1>1. Holding(obs, reset, 0, 0).id = 0 /\ QuotaAbsent.id = 0
  BY DEF Holding, QuotaAbsent
<1>2. /\ quotaStates'[k].id = 0
      /\ \A j \in Targets : quotaStates'[j] = quotaStates[j] \/ quotaStates'[j].id = 0
  BY <1>1 DEF RecordSnapshot, InsertQuota, ReplaceQuota, ReclaimQuota, QuotaTypeOK
<1> QED
  BY <1>2 DEF RecordSnapshot, Overtake, QuietStep

LEMMA BeginRecoveryProbeKeepsProbeInv ==
    ASSUME ProbeInv, QuotaTypeOK', NEW k \in Targets, NEW exp \in QuotaTimes, NEW t \in QuotaTimes,
           BeginRecoveryProbe(k, exp, t)
    PROVE  ProbeInv'
<1> DEFINE new == [target |-> k, id |-> nextId, exp |-> exp, issued |-> t]
<1>0. QuotaTypeOK /\ nextId \in Int /\ t \in Int /\ quotaStates[k].reset \in Int
  BY QuotaConstants DEF ProbeInv, QuotaTypeOK, RuntimeQuotaState, QuotaTimes, QuotaIds
<1>1. /\ quotaTickets' = quotaTickets \cup {new}
      /\ nextId' = nextId + 1
      /\ quotaStates' = [quotaStates EXCEPT ![k] =
                        Holding(quotaStates[k].obs, quotaStates[k].reset, nextId, exp)]
      /\ quotaOutdated' = quotaOutdated \cup {tk \in quotaTickets : tk.target = k}
      /\ t >= quotaStates[k].reset
  BY DEF BeginRecoveryProbe, IssueProbe, ReplaceQuota, Overtake
<1>2. \A tk \in quotaTickets : tk.target \in Targets /\ tk.id \in Int /\ tk.id < nextId
  BY <1>0, QuotaConstants DEF QuotaTypeOK, QuotaTicket, QuotaIds, ProbeInv, GenerationsSpent
<1>3. /\ quotaStates'[k].id = nextId
      /\ quotaStates'[k].reset = quotaStates[k].reset
      /\ \A j \in Targets \ {k} : quotaStates'[j] = quotaStates[j]
  BY <1>0, <1>1 DEF Holding, QuotaTypeOK
<1>4. \A j \in Targets : quotaStates[j].id \in Int
  BY <1>0, QuotaConstants DEF QuotaTypeOK, RuntimeQuotaState, QuotaIds
<1>5. GenerationsSpent'
  BY <1>0, <1>1, <1>2, <1>3, <1>4 DEF ProbeInv, GenerationsSpent
<1>6. GenerationsUnique'
  BY <1>0, <1>1, <1>2 DEF ProbeInv, GenerationsUnique
<1>7. OvertakenLost'
  BY <1>0, <1>1, <1>2, <1>3 DEF ProbeInv, OvertakenLost, QuotaTypeOK
<1>8. OwnersWaited'
  <2> SUFFICES ASSUME NEW tk \in quotaTickets', tk.id = quotaStates'[tk.target].id
               PROVE  tk.issued >= quotaStates'[tk.target].reset
    BY DEF OwnersWaited
  <2>1. CASE tk = new
    BY <2>1, <1>1, <1>3
  <2>2. CASE tk \in quotaTickets
    BY <2>2, <1>2, <1>3 DEF ProbeInv, OwnersWaited
  <2> QED
    BY <2>1, <2>2, <1>1
<1> QED
  BY <1>5, <1>6, <1>7, <1>8 DEF ProbeInv

LEMMA ProbeInvPreserved == ProbeInv /\ [QuotaNext]_quotaVars => ProbeInv'
<1> SUFFICES ASSUME ProbeInv, [QuotaNext]_quotaVars PROVE ProbeInv'
  OBVIOUS
<1>0. QuotaTypeOK /\ QuotaTypeOK'
  BY TypePreserved DEF ProbeInv
<1>1. CASE QuotaTick \/ UNCHANGED quotaVars
  BY <1>1, <1>0, QuietStepKeepsProbeInv DEF QuotaTick, quotaVars, QuietStep
<1>2. ASSUME NEW k \in Targets, NEW obs \in QuotaTimes, NEW d \in QuotaTimes,
             RecordSnapshot(k, obs, d) \/ RecordRateLimited(k, obs, d)
      PROVE  ProbeInv'
  BY <1>2, <1>0, RecordSnapshotIsQuiet, RateLimitedIsSnapshot, QuietStepKeepsProbeInv
<1>3. ASSUME NEW k \in Targets, NEW exp \in QuotaTimes, NEW t \in QuotaTimes,
             BeginRecoveryProbe(k, exp, t)
      PROVE  ProbeInv'
  BY <1>3, <1>0, BeginRecoveryProbeKeepsProbeInv
<1>4. ASSUME NEW tk \in quotaTickets, NEW obs \in QuotaTimes, NEW reset \in QuotaTimes,
             NEW t \in QuotaTimes,
             CompleteRecoveryProbe(tk, obs, reset, t)
      PROVE  ProbeInv'
  <2>1. Holding(obs, reset, 0, 0).id = 0 /\ tk.target \in Targets
    BY <1>0 DEF Holding, QuotaTypeOK, QuotaTicket
  <2>2. QuietStep
    BY <1>4, <1>0, <2>1 DEF CompleteRecoveryProbe, QuietStep, QuotaTypeOK
  <2> QED
    BY <2>2, <1>0, QuietStepKeepsProbeInv
<1>5. ASSUME NEW tk \in quotaTickets, AbandonQuotaTicket(tk)
      PROVE  ProbeInv'
  BY <1>5, <1>0, QuietStepKeepsProbeInv DEF AbandonQuotaTicket, ConsumeQuota, QuietStep
<1> QED
  BY <1>1, <1>2, <1>3, <1>4, <1>5 DEF QuotaNext

LEMMA ProbeDiscipline == QuotaSpec => []ProbeInv
<1>1. QuotaInit => ProbeInv
  BY TypeInitially
  DEF QuotaInit, ProbeInv, GenerationsSpent, GenerationsUnique, OvertakenLost, OwnersWaited,
      QuotaAbsent
<1> QED
  BY <1>1, ProbeInvPreserved, PTL DEF QuotaSpec

(* A recovery probe overtaken by a newer snapshot or a replacement ticket  *)
(* can never pass complete_recovery_probe, however late it reports.        *)
THEOREM LateProbesArePowerless == QuotaSpec => []LateProbePowerless
<1>1. ProbeInv => LateProbePowerless
  BY DEF ProbeInv, OvertakenLost, LateProbePowerless, OwnsQuota
<1> QED
  BY <1>1, ProbeDiscipline, PTL

(* At most one of the probes held for a target can be completed.           *)
THEOREM ProbesAreExclusive == QuotaSpec => []SoleProbeOwner
<1>1. ProbeInv => SoleProbeOwner
  BY DEF ProbeInv, GenerationsUnique, SoleProbeOwner, OwnsQuota
<1> QED
  BY <1>1, ProbeDiscipline, PTL

(* The probe that may complete was admitted by begin_recovery_probe after  *)
(* every exhausted window of the evidence it is judged by had reset.       *)
THEOREM ProbesWaitForReset == QuotaSpec => []ProbedAfterReset
<1>1. ProbeInv => ProbedAfterReset
  BY DEF ProbeInv, OwnersWaited, ProbedAfterReset, OwnsQuota
<1> QED
  BY <1>1, ProbeDiscipline, PTL

-----------------------------------------------------------------------------
(* Exhaustion blocks.  The inductive form says that the newest evidence,   *)
(* when it is exhaustion, is still what the shard holds for the target.    *)

NewestIsHeld ==
    \A k \in Targets : newest[k].reset # 0 =>
        /\ quotaStates[k].held
        /\ quotaStates[k].obs = newest[k].obs
        /\ quotaStates[k].reset = newest[k].reset

\* Evidence accepted over what the shard holds for k, the other targets keeping theirs.
LEMMA AcceptedKeepsNewest ==
    ASSUME QuotaTypeOK, NewestIsHeld,
           NEW k \in Targets, NEW obs \in QuotaTimes, NEW reset \in QuotaTimes,
           Accepted(k, obs, reset),
           ~quotaStates[k].held \/ obs >= quotaStates[k].obs,
           quotaStates'[k] = Holding(obs, reset, 0, 0),
           \A j \in Targets \ {k} :
               \/ quotaStates'[j] = quotaStates[j]
               \/ ~quotaStates[j].held \/ QuotaAvailable(quotaStates[j])
    PROVE  NewestIsHeld'
<1>1. \A j \in Targets \ {k} : newest'[j] = newest[j]
  BY DEF Accepted, QuotaTypeOK
<1>2. ASSUME NEW j \in Targets \ {k}, newest'[j].reset # 0
      PROVE  quotaStates'[j] = quotaStates[j]
  BY <1>2, <1>1 DEF NewestIsHeld, QuotaAvailable
<1>3. obs \in Int /\ newest[k].obs \in Int
  BY QuotaConstants DEF QuotaTypeOK, Evidence, QuotaTimes
<1>4. ASSUME newest'[k].reset # 0
      PROVE  newest'[k] = [obs |-> obs, reset |-> reset]
  <2>1. CASE obs >= newest[k].obs
    BY <2>1 DEF Accepted, QuotaTypeOK
  <2>2. CASE ~(obs >= newest[k].obs)
    BY <2>2, <1>4 DEF Accepted, NewestIsHeld
  <2> QED
    BY <2>1, <2>2
<1>5. /\ Holding(obs, reset, 0, 0).held
      /\ Holding(obs, reset, 0, 0).obs = obs
      /\ Holding(obs, reset, 0, 0).reset = reset
  BY DEF Holding
<1> QED
  BY <1>1, <1>2, <1>4, <1>5 DEF NewestIsHeld

LEMMA RecordSnapshotKeepsNewest ==
    ASSUME QuotaTypeOK, NewestIsHeld, NEW k \in Targets, NEW obs \in QuotaTimes,
           NEW reset \in QuotaTimes, RecordSnapshot(k, obs, reset)
    PROVE  NewestIsHeld'
<1>1. CASE obs >= quotaStates[k].obs /\ ReplaceQuota(k, Holding(obs, reset, 0, 0))
  BY <1>1, AcceptedKeepsNewest DEF RecordSnapshot, ReplaceQuota, QuotaTypeOK
<1>2. CASE InsertQuota(k, Holding(obs, reset, 0, 0))
  <2>1. \A j \in Targets :
          ReclaimQuota[j] = quotaStates[j] \/ ~quotaStates[j].held \/ QuotaAvailable(quotaStates[j])
    BY DEF ReclaimQuota, Kept
  <2>2. /\ quotaStates'[k] = Holding(obs, reset, 0, 0)
        /\ ~quotaStates[k].held
        /\ \A j \in Targets \ {k} :
              quotaStates'[j] = quotaStates[j] \/ quotaStates'[j] = ReclaimQuota[j]
    BY <1>2 DEF InsertQuota, ReclaimQuota, QuotaTypeOK
  <2> QED
    BY <2>1, <2>2, AcceptedKeepsNewest DEF RecordSnapshot
<1> QED
  BY <1>1, <1>2 DEF RecordSnapshot

LEMMA NewestPreserved ==
    ASSUME QuotaTypeOK, NewestIsHeld, [QuotaNext]_quotaVars
    PROVE  NewestIsHeld'
<1>1. CASE QuotaTick \/ UNCHANGED quotaVars
  BY <1>1 DEF QuotaTick, quotaVars, NewestIsHeld
<1>2. ASSUME NEW k \in Targets, NEW obs \in QuotaTimes, NEW d \in QuotaTimes,
             RecordSnapshot(k, obs, d) \/ RecordRateLimited(k, obs, d)
      PROVE  NewestIsHeld'
  BY <1>2, RecordSnapshotKeepsNewest, RateLimitedIsSnapshot
<1>3. ASSUME NEW k \in Targets, NEW exp \in QuotaTimes, NEW t \in QuotaTimes,
             BeginRecoveryProbe(k, exp, t)
      PROVE  NewestIsHeld'
  <2>1. /\ quotaStates[k].held
        /\ quotaStates' = [quotaStates EXCEPT ![k] =
                          Holding(quotaStates[k].obs, quotaStates[k].reset, nextId, exp)]
        /\ newest' = newest
    BY <1>3 DEF BeginRecoveryProbe, IssueProbe, ReplaceQuota
  <2>2. \A j \in Targets : /\ quotaStates'[j].held = quotaStates[j].held
                           /\ quotaStates'[j].obs = quotaStates[j].obs
                           /\ quotaStates'[j].reset = quotaStates[j].reset
    BY <2>1 DEF Holding, QuotaTypeOK, RuntimeQuotaState
  <2> QED
    BY <2>1, <2>2 DEF NewestIsHeld
<1>4. ASSUME NEW tk \in quotaTickets, NEW obs \in QuotaTimes, NEW reset \in QuotaTimes,
             NEW t \in QuotaTimes,
             CompleteRecoveryProbe(tk, obs, reset, t)
      PROVE  NewestIsHeld'
  <2>1. tk.target \in Targets
    BY DEF QuotaTypeOK, QuotaTicket
  <2>2. CASE IsCurrent(tk, obs, t)
    BY <2>1, <2>2, <1>4, AcceptedKeepsNewest DEF CompleteRecoveryProbe, IsCurrent, QuotaTypeOK
  <2>3. CASE ~IsCurrent(tk, obs, t)
    BY <2>3, <1>4 DEF CompleteRecoveryProbe, NewestIsHeld
  <2> QED
    BY <2>2, <2>3
<1>5. ASSUME NEW tk \in quotaTickets, AbandonQuotaTicket(tk)
      PROVE  NewestIsHeld'
  BY <1>5 DEF AbandonQuotaTicket, NewestIsHeld
<1> QED
  BY <1>1, <1>2, <1>3, <1>4, <1>5 DEF QuotaNext

(* While the most recently observed evidence accepted for a target is      *)
(* exhaustion, ordinary scheduling stays closed: no reset, late            *)
(* observation, lost probe or reclaimed entry reopens it.                  *)
THEOREM ExhaustionBlocks == QuotaSpec => []NewestExhaustionBlocks
<1>1. QuotaInit => NewestIsHeld
  BY DEF QuotaInit, NewestIsHeld
<1>2. QuotaTypeOK /\ NewestIsHeld /\ [QuotaNext]_quotaVars => NewestIsHeld'
  BY NewestPreserved
<1>3. NewestIsHeld => NewestExhaustionBlocks
  BY DEF NewestIsHeld, NewestExhaustionBlocks, QuotaAvailable
<1> QED
  BY <1>1, <1>2, <1>3, QuotaTypeCorrect, PTL DEF QuotaSpec

(* The newest accepted evidence alone opens or closes a target, and only   *)
(* the one probe it admitted after its reset can replace it.               *)
THEOREM NewestEvidenceDecides == QuotaSpec => []NewestEvidenceRules
<1>1. LateProbePowerless /\ SoleProbeOwner /\ ProbedAfterReset /\ NewestExhaustionBlocks
      => NewestEvidenceRules
  BY DEF NewestEvidenceRules
<1> QED
  BY <1>1, LateProbesArePowerless, ProbesAreExclusive, ProbesWaitForReset, ExhaustionBlocks, PTL

-----------------------------------------------------------------------------
(* The credential pool.                                                    *)

\* A request that is about to exchange expects a count below the limit.
ExpectsRoom ==
    \A p \in Procs : pc[p] = "exchange" => seen[p] < Limit[Candidate(p)]

\* A lease is held exactly from its exchange to its drop.
LeasedAtLease == \A p \in Procs : lease[p] # NoCred <=> pc[p] = "leased"

PoolInv ==
    /\ PoolTypeOK
    /\ LeasesAccounted
    /\ NeverOverLimit
    /\ ExpectsRoom
    /\ LeasedAtLease

-----------------------------------------------------------------------------
\* A wrapped slot index is an index of the schedule.
LEMMA SlotIndexInRange ==
    ASSUME NEW s \in Nat, NEW o \in Nat, NEW n \in Nat \ {0}
    PROVE  SlotIndex(s, o, n) \in 0 .. n - 1
<1>1. (s + o) % Word \in Nat
  BY PoolConstants
<1>2. ((s + o) % Word) % n \in 0 .. n - 1
  BY <1>1
<1> QED
  BY <1>2 DEF SlotIndex

\* The slot a request examines names a credential of the pool.
LEMMA CandidateInPool ==
    ASSUME PoolTypeOK, NEW p \in Procs
    PROVE  Candidate(p) \in Creds
<1> DEFINE i == tier[p]
           k == SlotIndex(start[p], offset[p], Slots(i))
<1>1. i \in 1 .. Len(Schedule) /\ start[p] \in Nat /\ offset[p] \in Nat
  BY PoolConstants DEF PoolTypeOK, Tiers
<1>2. Schedule[i] \in Seq(Creds) /\ Schedule[i] # <<>>
  BY <1>1, PoolConstants
<1>3. Slots(i) \in Nat \ {0}
  BY <1>2 DEF Slots
<1>4. k \in 0 .. Slots(i) - 1
  BY <1>1, <1>3, SlotIndexInRange
<1>5. k + 1 \in 1 .. Len(Schedule[i])
  BY <1>3, <1>4 DEF Slots
<1> QED
  BY <1>2, <1>5 DEF Candidate

\* The holders of a credential are finitely many.
LEMMA HoldersFinite ==
    ASSUME NEW c PROVE IsFiniteSet(Holders(c)) /\ Cardinality(Holders(c)) \in Nat
<1>1. IsFiniteSet(Procs) /\ Holders(c) \subseteq Procs
  BY PoolConstants DEF Holders
<1> QED
  BY <1>1, FS_Subset, FS_CardinalityType

-----------------------------------------------------------------------------
\* A step that touches neither counts nor leases disturbs no lease fact.
LEMMA LeasesUntouched ==
    ASSUME PoolInv, UNCHANGED <<active, lease>>
    PROVE  LeasesAccounted' /\ NeverOverLimit'
BY DEF PoolInv, LeasesAccounted, NeverOverLimit, Holders

LEMMA DrawStartQuiet ==
    ASSUME PoolInv, NEW p \in Procs, NEW i \in Tiers, DrawStart(p, i),
           pc[p] # "leased", UNCHANGED <<active, eligible, seen, lease, refused>>
    PROVE  PoolInv'
<1>0. cursor[i] \in 0 .. Word - 1
  BY DEF PoolInv, PoolTypeOK
<1>1. (cursor[i] + 1) % Word \in 0 .. Word - 1
  BY <1>0, PoolConstants
<1>2. PoolTypeOK'
  BY <1>0, <1>1 DEF PoolInv, PoolTypeOK, DrawStart
<1>3. ExpectsRoom'
  BY DEF PoolInv, PoolTypeOK, ExpectsRoom, DrawStart, Candidate
<1>4. LeasedAtLease'
  BY DEF PoolInv, PoolTypeOK, LeasedAtLease, DrawStart
<1> QED
  BY <1>2, <1>3, <1>4, LeasesUntouched DEF PoolInv

LEMMA SkipQuiet ==
    ASSUME PoolInv, NEW p \in Procs, Skip(p), pc[p] \in {"slot", "load", "exchange"},
           UNCHANGED <<active, cursor, eligible, tier, start, seen, lease>>
    PROVE  PoolInv'
<1>1. PoolTypeOK'
  BY CandidateInPool DEF PoolInv, PoolTypeOK, Skip
<1>2. ExpectsRoom'
  <2> SUFFICES ASSUME NEW q \in Procs, pc'[q] = "exchange"
               PROVE  seen'[q] < Limit[Candidate(q)']
    BY DEF ExpectsRoom
  <2>1. q # p
    BY DEF PoolInv, PoolTypeOK, Skip
  <2>2. pc[q] = "exchange" /\ offset'[q] = offset[q]
    BY <2>1 DEF PoolInv, PoolTypeOK, Skip
  <2>3. Candidate(q)' = Candidate(q)
    BY <2>2 DEF Candidate
  <2> QED
    BY <2>2, <2>3 DEF PoolInv, ExpectsRoom
<1>3. LeasedAtLease'
  BY DEF PoolInv, PoolTypeOK, LeasedAtLease, Skip
<1> QED
  BY <1>1, <1>2, <1>3, LeasesUntouched DEF PoolInv

LEMMA ObserveQuiet ==
    ASSUME PoolInv, NEW p \in Procs, Observe(p, active[Candidate(p)]),
           pc[p] \in {"load", "exchange"},
           UNCHANGED <<active, cursor, eligible, tier, start, lease>>
    PROVE  PoolInv'
<1> DEFINE n == active[Candidate(p)]
<1>1. n \in Nat
  BY CandidateInPool DEF PoolInv, PoolTypeOK
<1>2. CASE n >= Limit[Candidate(p)] /\ Skip(p) /\ UNCHANGED seen
  BY <1>2, SkipQuiet
<1>3. CASE /\ n < Limit[Candidate(p)]
           /\ seen' = [seen EXCEPT ![p] = n]
           /\ pc' = [pc EXCEPT ![p] = "exchange"]
           /\ UNCHANGED <<offset, refused>>
  <2>1. PoolTypeOK'
    BY <1>1, <1>3 DEF PoolInv, PoolTypeOK
  <2>2. \A q \in Procs : Candidate(q)' = Candidate(q)
    BY <1>3 DEF Candidate
  <2>3. ExpectsRoom'
    BY <1>3, <2>2 DEF PoolInv, PoolTypeOK, ExpectsRoom
  <2>4. LeasedAtLease'
    BY <1>3 DEF PoolInv, PoolTypeOK, LeasedAtLease
  <2> QED
    BY <2>1, <2>3, <2>4, LeasesUntouched DEF PoolInv
<1> QED
  BY <1>2, <1>3 DEF Observe

-----------------------------------------------------------------------------
\* A successful exchange adds one holder to a credential that had room.
LEMMA ExchangeKeepsInv ==
    ASSUME PoolInv, NEW p \in Procs, ExchangeOk(p)
    PROVE  /\ PoolInv'
           /\ lease[p] = NoCred
           /\ Cardinality(Holders(Candidate(p))) < Limit[Candidate(p)]
<1>0. PICK c \in Creds : c = Candidate(p)
  BY CandidateInPool DEF PoolInv
<1>1. c \in Creds /\ c # NoCred
  BY PoolConstants
<1>2. lease[p] = NoCred
  BY DEF PoolInv, LeasedAtLease, ExchangeOk
<1>3. active[c] = Cardinality(Holders(c)) /\ active[c] < Limit[c]
  BY <1>0, <1>1 DEF PoolInv, LeasesAccounted, ExpectsRoom, ExchangeOk
<1>4. PoolTypeOK'
  <2>1. seen[p] + 1 \in Nat
    BY DEF PoolInv, PoolTypeOK
  <2> QED
    BY <1>0, <1>1, <2>1 DEF PoolInv, PoolTypeOK, ExchangeOk
<1>5. Holders(c)' = Holders(c) \cup {p} /\ p \notin Holders(c)
  BY <1>0, <1>1, <1>2 DEF Holders, ExchangeOk, PoolInv, PoolTypeOK
<1>6. Cardinality(Holders(c)') = Cardinality(Holders(c)) + 1
  BY <1>5, HoldersFinite, FS_AddElement
<1>7. ASSUME NEW d \in Creds, d # c PROVE Holders(d)' = Holders(d) /\ active'[d] = active[d]
  BY <1>0, <1>1, <1>2, <1>7, PoolConstants DEF Holders, ExchangeOk, PoolInv, PoolTypeOK
<1>8. active'[c] = active[c] + 1
  BY <1>0, <1>1 DEF ExchangeOk, PoolInv, PoolTypeOK
<1>9. LeasesAccounted'
  BY <1>3, <1>6, <1>7, <1>8 DEF LeasesAccounted, PoolInv
<1>10. NeverOverLimit'
  <2>1. Cardinality(Holders(c)) \in Nat /\ Limit[c] \in Nat
    BY <1>0, <1>1, HoldersFinite, PoolConstants
  <2>2. Cardinality(Holders(c)') <= Limit[c]
    BY <1>3, <1>6, <2>1
  <2> QED
    BY <1>7, <2>2 DEF NeverOverLimit, PoolInv
<1>11. ExpectsRoom'
  BY DEF PoolInv, PoolTypeOK, ExpectsRoom, ExchangeOk, Candidate
<1>12. LeasedAtLease'
  BY <1>0, <1>1 DEF PoolInv, PoolTypeOK, LeasedAtLease, ExchangeOk
<1> QED
  BY <1>0, <1>2, <1>3, <1>4, <1>9, <1>10, <1>11, <1>12 DEF PoolInv

\* A drop removes the one holder it stands for, so no count goes below zero.
LEMMA ReleaseKeepsInv ==
    ASSUME PoolInv, NEW p \in Procs, ReleaseLease(p)
    PROVE  PoolInv' /\ lease[p] # NoCred
<1>0. PICK c \in Creds : c = lease[p]
  BY DEF PoolInv, PoolTypeOK, LeasedAtLease, ReleaseLease
<1>1. c \in Creds /\ c # NoCred
  BY PoolConstants
<1>2. p \in Holders(c) /\ Holders(c)' = Holders(c) \ {p}
  BY <1>0, <1>1 DEF Holders, ReleaseLease, PoolInv, PoolTypeOK
<1>3. Cardinality(Holders(c)') = Cardinality(Holders(c)) - 1
  BY <1>2, HoldersFinite, FS_RemoveElement
<1>4. Cardinality(Holders(c)) \in Nat /\ Cardinality(Holders(c)) > 0
  <2>1. Holders(c) # {}
    BY <1>2
  <2>2. Cardinality(Holders(c)) # 0
    BY <2>1, HoldersFinite, FS_EmptySet
  <2> QED
    BY <2>2, HoldersFinite
<1>5. active[c] = Cardinality(Holders(c)) /\ active'[c] = active[c] - 1
  BY <1>0, <1>1 DEF PoolInv, PoolTypeOK, LeasesAccounted, ReleaseLease
<1>6. ASSUME NEW d \in Creds, d # c PROVE Holders(d)' = Holders(d) /\ active'[d] = active[d]
  BY <1>0, <1>1, <1>6, PoolConstants DEF Holders, ReleaseLease, PoolInv, PoolTypeOK
<1>7. PoolTypeOK'
  <2>1. active[c] - 1 \in Nat
    BY <1>4, <1>5
  <2>2. 1 \in Tiers /\ 0 \in 0 .. Word - 1
    BY PoolConstants DEF Tiers
  <2> QED
    BY <1>0, <1>1, <2>1, <2>2 DEF PoolInv, PoolTypeOK, ReleaseLease
<1>8. LeasesAccounted'
  BY <1>3, <1>5, <1>6 DEF LeasesAccounted, PoolInv
<1>9. NeverOverLimit'
  <2>1. Cardinality(Holders(c)) <= Limit[c] /\ Limit[c] \in Nat
    BY <1>0, <1>1, PoolConstants DEF NeverOverLimit, PoolInv
  <2>2. Cardinality(Holders(c)') <= Limit[c]
    BY <1>3, <1>4, <2>1
  <2> QED
    BY <1>6, <2>2 DEF NeverOverLimit, PoolInv
<1>10. ExpectsRoom'
  BY DEF PoolInv, PoolTypeOK, ExpectsRoom, ReleaseLease, Candidate
<1>11. LeasedAtLease'
  BY DEF PoolInv, PoolTypeOK, LeasedAtLease, ReleaseLease
<1> QED
  BY <1>0, <1>1, <1>7, <1>8, <1>9, <1>10, <1>11 DEF PoolInv

-----------------------------------------------------------------------------
LEMMA PoolInvInit == PoolInit => PoolInv
<1> SUFFICES ASSUME PoolInit PROVE PoolInv
  OBVIOUS
<1>1. PoolTypeOK
  BY PoolConstants DEF PoolInit, PoolTypeOK, Tiers
<1>2. \A c \in Creds : Holders(c) = {}
  BY PoolConstants DEF PoolInit, Holders
<1>3. \A c \in Creds : Cardinality(Holders(c)) = 0
  BY <1>2, FS_EmptySet
<1>4. LeasesAccounted /\ NeverOverLimit
  BY <1>3, PoolConstants DEF LeasesAccounted, NeverOverLimit, PoolInit
<1>5. ExpectsRoom /\ LeasedAtLease
  BY DEF PoolInit, ExpectsRoom, LeasedAtLease
<1> QED
  BY <1>1, <1>4, <1>5 DEF PoolInv

\* Every step keeps the invariant and is a step of LeasePool or invisible to it.
LEMMA StepKeepsInv ==
    ASSUME PoolInv, [PoolNext]_poolVars
    PROVE  PoolInv' /\ [Abstract!LeaseNext]_lease
<1>1. CASE UNCHANGED poolVars
  BY <1>1 DEF poolVars, PoolInv, PoolTypeOK, LeasesAccounted, NeverOverLimit, Holders,
              ExpectsRoom, LeasedAtLease, Candidate
<1>2. ASSUME NEW p \in Procs, TryLease(p) PROVE PoolInv' /\ UNCHANGED lease
  <2>1. 1 \in Tiers
    BY PoolConstants DEF Tiers
  <2> QED
    BY <1>2, <2>1, DrawStartQuiet DEF TryLease
<1>3. ASSUME NEW p \in Procs, NextTier(p) PROVE PoolInv' /\ UNCHANGED lease
  <2>0. tier[p] \in 1 .. Len(Schedule) /\ Len(Schedule) \in Nat
    BY PoolConstants DEF Tiers, PoolInv, PoolTypeOK
  <2>1. tier[p] + 1 \in Tiers
    BY <1>3, <2>0 DEF Tiers, NextTier
  <2> QED
    BY <1>3, <2>1, DrawStartQuiet DEF NextTier
<1>4. ASSUME NEW p \in Procs, ReturnNone(p) PROVE PoolInv' /\ UNCHANGED lease
  <2>1. 1 \in Tiers /\ 0 \in 0 .. Word - 1
    BY PoolConstants DEF Tiers
  <2>2. PoolTypeOK'
    BY <1>4, <2>1 DEF PoolInv, PoolTypeOK, ReturnNone
  <2>3. ExpectsRoom' /\ LeasedAtLease'
    BY <1>4 DEF PoolInv, PoolTypeOK, ExpectsRoom, LeasedAtLease, ReturnNone, Candidate
  <2> QED
    BY <1>4, <2>2, <2>3, LeasesUntouched DEF PoolInv, ReturnNone
<1>5. ASSUME NEW p \in Procs, CheckEligible(p) PROVE PoolInv' /\ UNCHANGED lease
  <2>1. CASE Skip(p)
    BY <1>5, <2>1, SkipQuiet DEF CheckEligible
  <2>2. CASE pc' = [pc EXCEPT ![p] = "load"] /\ UNCHANGED <<offset, refused>>
    <3>1. PoolTypeOK'
      BY <1>5, <2>2 DEF PoolInv, PoolTypeOK, CheckEligible
    <3>2. ExpectsRoom' /\ LeasedAtLease'
      BY <1>5, <2>2 DEF PoolInv, PoolTypeOK, ExpectsRoom, LeasedAtLease, CheckEligible, Candidate
    <3> QED
      BY <1>5, <3>1, <3>2, LeasesUntouched DEF PoolInv, CheckEligible
  <2> QED
    BY <1>5, <2>1, <2>2 DEF CheckEligible
<1>6. ASSUME NEW p \in Procs, TryAcquire(p) PROVE PoolInv' /\ UNCHANGED lease
  BY <1>6, ObserveQuiet DEF TryAcquire
<1>7. ASSUME NEW p \in Procs, ExchangeErr(p) PROVE PoolInv' /\ UNCHANGED lease
  BY <1>7, ObserveQuiet DEF ExchangeErr
<1>8. ASSUME NEW p \in Procs, ExchangeOk(p) PROVE PoolInv' /\ Abstract!LeaseNext
  <2>1. Candidate(p) \in Creds
    BY CandidateInPool DEF PoolInv
  <2>2. PICK c \in Creds : c = Candidate(p)
    BY <2>1
  <2>3. Abstract!Holders(c) = Holders(c)
    BY DEF Abstract!Holders, Holders
  <2>4. Abstract!Cardinality(Holders(c)) = Cardinality(Holders(c))
    BY DEF Abstract!Cardinality, Cardinality
  <2>5. Abstract!Acquire(p, c)
    BY <1>8, <2>2, <2>3, <2>4, ExchangeKeepsInv DEF Abstract!Acquire, ExchangeOk
  <2> QED
    BY <1>8, <2>5, ExchangeKeepsInv DEF Abstract!LeaseNext
<1>9. ASSUME NEW p \in Procs, ReleaseLease(p) PROVE PoolInv' /\ Abstract!LeaseNext
  <2>1. Abstract!Release(p)
    BY <1>9, ReleaseKeepsInv DEF Abstract!Release, ReleaseLease
  <2> QED
    BY <1>9, <2>1, ReleaseKeepsInv DEF Abstract!LeaseNext
<1>10. ASSUME NEW c \in Creds, PredicateChanges(c) PROVE PoolInv' /\ UNCHANGED lease
  <2>1. PoolTypeOK'
    BY <1>10 DEF PoolInv, PoolTypeOK, PredicateChanges
  <2>2. ExpectsRoom' /\ LeasedAtLease'
    BY <1>10 DEF PoolInv, ExpectsRoom, LeasedAtLease, PredicateChanges, Candidate
  <2> QED
    BY <1>10, <2>1, <2>2, LeasesUntouched DEF PoolInv, PredicateChanges
<1> QED
  BY <1>1, <1>2, <1>3, <1>4, <1>5, <1>6, <1>7, <1>8, <1>9, <1>10 DEF PoolNext, poolVars

\* PoolInv is an invariant of the pool.
LEMMA PoolInvariant == PoolSpec => []PoolInv
<1>1. PoolInv /\ [PoolNext]_poolVars => PoolInv'
  BY StepKeepsInv
<1> QED
  BY PoolInvInit, <1>1, PTL DEF PoolSpec

(* Counts stay natural numbers: no drop takes active_leases below zero.    *)
THEOREM PoolTypeCorrect == PoolSpec => []PoolTypeOK
<1>1. PoolInv => PoolTypeOK
  BY DEF PoolInv
<1> QED
  BY PoolInvariant, <1>1, PTL

(* active_leases of try_acquire and release always equals the number of    *)
(* live CredentialLease values.                                            *)
THEOREM LeaseCountsAreExact == PoolSpec => []LeasesAccounted
<1>1. PoolInv => LeasesAccounted
  BY DEF PoolInv
<1> QED
  BY PoolInvariant, <1>1, PTL

(* try_acquire never lets a credential serve more requests at once than    *)
(* its maximum_concurrency.                                                *)
THEOREM ConcurrencyIsBounded == PoolSpec => []NeverOverLimit
<1>1. PoolInv => NeverOverLimit
  BY DEF PoolInv
<1> QED
  BY PoolInvariant, <1>1, PTL

(* The tiered scan with its compare-exchange loop implements the atomic    *)
(* grant-and-return of leases that the schedulers build on.                *)
THEOREM PoolImplementsLeasePool == PoolSpec => ImplementsLeasePool
<1>1. PoolInit => Abstract!LeaseInit
  BY DEF PoolInit, Abstract!LeaseInit
<1>2. PoolInv /\ [PoolNext]_poolVars => [Abstract!LeaseNext]_lease
  BY StepKeepsInv
<1> QED
  BY PoolInvariant, <1>1, <1>2, PTL DEF PoolSpec, ImplementsLeasePool, Abstract!LeaseSpec

-----------------------------------------------------------------------------
(* The order of the tiers.                                                 *)

\* x divided by n is q, and r remains.
Splits(x, n, q, r) == q \in Int /\ r \in 0 .. n - 1 /\ x = n * q + r

LEMMA Division ==
    ASSUME NEW x \in Nat, NEW n \in Nat \ {0}
    PROVE  Splits(x, n, x \div n, x % n) /\ x \div n \in Nat
<1> DEFINE d == x \div n
           m == x % n
<1>1. d \in Int /\ m \in 0 .. n - 1 /\ x = n * d + m
  OBVIOUS
<1> HIDE DEF d, m
<1>2. ASSUME d <= -1 PROVE FALSE
  <2>1. n * d <= -n
    BY <1>1, <1>2
  <2> QED BY <1>1, <2>1
<1>3. Splits(x, n, d, m) /\ d \in Nat
  BY <1>1, <1>2 DEF Splits
<1> QED BY <1>3 DEF d, m

\* The remainder of a division is the only one in range.
LEMMA RemainderUnique ==
    ASSUME NEW x \in Nat, NEW n \in Nat \ {0}, NEW q, NEW r, Splits(x, n, q, r)
    PROVE  x % n = r
<1> DEFINE d == x \div n
           m == x % n
<1>1. d \in Int /\ m \in 0 .. n - 1 /\ x = n * d + m
  BY Division DEF Splits
<1> HIDE DEF d, m
<1>2. q \in Int /\ r \in 0 .. n - 1 /\ n * (d - q) = r - m
  BY <1>1 DEF Splits
<1>3. PICK e \in Int : e = d - q
  BY <1>1, <1>2
<1>4. n * e = r - m
  BY <1>2, <1>3
<1>5. ASSUME e >= 1 PROVE FALSE
  <2>1. n * e >= n
    BY <1>5
  <2> QED BY <1>1, <1>2, <1>4, <2>1
<1>6. ASSUME e <= -1 PROVE FALSE
  <2>1. n * e <= -n
    BY <1>6
  <2> QED BY <1>1, <1>2, <1>4, <2>1
<1>7. e = 0
  BY <1>5, <1>6
<1>8. m = r
  BY <1>1, <1>2, <1>4, <1>7
<1> QED BY <1>8 DEF m

(* A scan meets every slot: n offsets from any start visit all n slots,    *)
(* unless the start is so near the end of a word whose size n does not     *)
(* divide that start.wrapping_add wraps in between.                        *)
LEMMA ScanMeetsEverySlot ==
    ASSUME NEW n \in Nat \ {0}, NEW s \in 0 .. Word - 1, NEW k \in 0 .. n - 1,
           Word % n = 0 \/ s + n <= Word
    PROVE  \E o \in 0 .. n - 1 : SlotIndex(s, o, n) = k
<1>w. Word \in Nat \ {0} /\ s \in Nat
  BY PoolConstants
<1>0. PICK q \in Nat : \E r : Splits(s, n, q, r)
  BY <1>w, Division
<1>1. PICK r : Splits(s, n, q, r)
  BY <1>0
<1>2. r \in 0 .. n - 1 /\ s = n * q + r
  BY <1>1 DEF Splits
<1>3. \E o \in 0 .. n - 1, p \in Nat : s + o = n * p + k
  <2>1. CASE k >= r
    <3>1. k - r \in 0 .. n - 1 /\ s + (k - r) = n * q + k
      BY <1>2, <2>1
    <3> QED BY <3>1
  <2>2. CASE k < r
    <3>1. k - r + n \in 0 .. n - 1 /\ s + (k - r + n) = n * q + n + k
      BY <1>2, <2>2
    <3>2. q + 1 \in Nat /\ n * (q + 1) = n * q + n
      OBVIOUS
    <3> QED BY <3>1, <3>2
  <2> QED BY <1>2, <2>1, <2>2
<1>4. PICK o \in 0 .. n - 1, p \in Nat : s + o = n * p + k
  BY <1>3
<1>5. PICK x \in Nat : x = s + o
  BY <1>w
<1>6. Splits(x, n, p, k)
  BY <1>4, <1>5 DEF Splits
<1>7. SUFFICES (x % Word) % n = k
  BY <1>5 DEF SlotIndex
<1>8. CASE x < Word
  <2>1. x % Word = x
    BY <1>w, <1>8
  <2> QED BY <1>6, <2>1, RemainderUnique
<1>9. CASE x >= Word
  <2>1. Word % n = 0
    BY <1>w, <1>5, <1>9
  <2>2. PICK m \in Nat : Splits(Word, n, m, 0)
    BY <1>w, <2>1, Division
  <2>3. Word = n * m
    BY <2>2 DEF Splits
  <2>4. n <= Word
    <3>1. m >= 1
      BY <1>w, <2>3
    <3> QED BY <2>3, <3>1
  <2>5. PICK y \in 0 .. Word - 1 : y = x - Word
    BY <1>w, <1>5, <1>9, <2>4
  <2>6. Splits(x, Word, 1, y)
    BY <1>w, <2>5 DEF Splits
  <2>7. x % Word = y
    BY <1>w, <2>6, RemainderUnique
  <2>8. Splits(y, n, p - m, k)
    BY <1>6, <2>3, <2>5 DEF Splits
  <2>9. y \in Nat
    BY <1>w
  <2> QED BY <2>7, <2>8, <2>9, RemainderUnique
<1> QED BY <1>w, <1>8, <1>9

\* A scan of n slots from s misses none, see ScanMeetsEverySlot.
Covers(s, n) == Word % n = 0 \/ s + n <= Word

\* The next scan of every tier will miss no slot.
CursorsCover == \A i \in Tiers : Covers(cursor[i], Slots(i))

\* What a request that is at "at" in tier i has refused so far: every better
\* tier, and of its own tier the slots up to offset o.
Scan(at, i, s, o, done) ==
    /\ at \in {"slot", "load", "exchange"} =>
          /\ o < Slots(i)
          /\ Covers(s, Slots(i))
          /\ CredsBefore(i) \subseteq done
          /\ \A j \in 0 .. o - 1 : Schedule[i][SlotIndex(s, j, Slots(i)) + 1] \in done
    /\ at = "leased" => CredsBefore(i) \subseteq done
    /\ at = "tier" => CredsBefore(i + 1) \subseteq done

ScanInv == \A p \in Procs : Scan(pc[p], tier[p], start[p], offset[p], refused[p])

LEMMA TierHasSlots ==
    ASSUME NEW i \in Tiers
    PROVE  /\ Slots(i) \in Nat \ {0} /\ Schedule[i] \in Seq(Creds)
           /\ DOMAIN Schedule[i] = 1 .. Slots(i) /\ i \in Nat /\ i >= 1
<1>1. i \in 1 .. Len(Schedule)
  BY DEF Tiers
<1>2. Schedule[i] \in Seq(Creds) /\ Schedule[i] # <<>>
  BY <1>1, PoolConstants
<1> QED
  BY <1>1, <1>2 DEF Slots

\* The tiers before the first, and those before the next.
LEMMA NoneBeforeFirst == CredsBefore(1) = {}
BY DEF CredsBefore

LEMMA BeforeNext ==
    ASSUME NEW i \in Tiers, NEW done, CredsBefore(i) \subseteq done,
           \A k \in 1 .. Slots(i) : Schedule[i][k] \in done
    PROVE  CredsBefore(i + 1) \subseteq done
<1> SUFFICES ASSUME NEW c \in CredsBefore(i + 1) PROVE c \in done
  OBVIOUS
<1>0. i \in Nat /\ i >= 1 /\ DOMAIN Schedule[i] = 1 .. Slots(i)
  BY TierHasSlots
<1>1. (i + 1) - 1 = i
  BY <1>0
<1>2. PICK j \in 1 .. i : c \in {Schedule[j][m] : m \in DOMAIN Schedule[j]}
  BY <1>1 DEF CredsBefore
<1>3. CASE j = i
  BY <1>0, <1>2, <1>3
<1>4. CASE j \in 1 .. i - 1
  <2>1. c \in CredsBefore(i)
    BY <1>2, <1>4 DEF CredsBefore
  <2> QED BY <2>1
<1> QED BY <1>0, <1>3, <1>4

\* A tier whose slots were all refused is exhausted.
LEMMA TierExhausted ==
    ASSUME NEW i \in Tiers, NEW s \in 0 .. Word - 1, NEW done,
           Covers(s, Slots(i)), CredsBefore(i) \subseteq done,
           \A j \in 0 .. Slots(i) - 1 : Schedule[i][SlotIndex(s, j, Slots(i)) + 1] \in done
    PROVE  CredsBefore(i + 1) \subseteq done
<1>0. Slots(i) \in Nat \ {0}
  BY TierHasSlots
<1>1. ASSUME NEW k \in 1 .. Slots(i) PROVE Schedule[i][k] \in done
  <2>1. k - 1 \in 0 .. Slots(i) - 1 /\ (k - 1) + 1 = k
    BY <1>0
  <2>2. PICK h \in 0 .. Slots(i) - 1 : h + 1 = k
    BY <2>1
  <2>3. PICK o \in 0 .. Slots(i) - 1 : SlotIndex(s, o, Slots(i)) = h
    BY <1>0, ScanMeetsEverySlot DEF Covers
  <2> QED BY <2>2, <2>3
<1> QED BY <1>1, BeforeNext

LEMMA SkipScans ==
    ASSUME PoolTypeOK, ScanInv, NEW p \in Procs, Skip(p),
           pc[p] \in {"slot", "load", "exchange"}, UNCHANGED <<tier, start>>
    PROVE  ScanInv'
<1> DEFINE i == tier[p]
           s == start[p]
           o == offset[p]
           n == Slots(tier[p])
           done == refused[p] \cup {Candidate(p)}
<1>0. i \in Tiers /\ s \in 0 .. Word - 1 /\ o \in Nat /\ n \in Nat \ {0}
  BY TierHasSlots DEF PoolTypeOK
<1>1. /\ o < n /\ Covers(s, n) /\ CredsBefore(i) \subseteq refused[p]
      /\ \A j \in 0 .. o - 1 : Schedule[i][SlotIndex(s, j, n) + 1] \in refused[p]
  BY DEF ScanInv, Scan
<1>2. /\ offset'[p] = o + 1 /\ refused'[p] = done /\ tier'[p] = i /\ start'[p] = s
      /\ pc'[p] = IF o + 1 < n THEN "slot" ELSE "tier"
  BY DEF Skip, PoolTypeOK
<1>3. Candidate(p) = Schedule[i][SlotIndex(s, o, n) + 1]
  BY DEF Candidate
<1>4. \A j \in 0 .. o : Schedule[i][SlotIndex(s, j, n) + 1] \in done
  <2> SUFFICES ASSUME NEW j \in 0 .. o
               PROVE  Schedule[i][SlotIndex(s, j, n) + 1] \in done
    OBVIOUS
  <2>1. j = o \/ j \in 0 .. o - 1
    BY <1>0
  <2> QED BY <1>1, <1>3, <2>1
<1>5. CredsBefore(i) \subseteq done
  BY <1>1
<1> HIDE DEF i, s, o, n, done
<1>6. Scan(pc'[p], i, s, o + 1, done)
  <2>1. CASE o + 1 < n
    <3>1. (o + 1) - 1 = o
      BY <1>0
    <3>2. n = Slots(i)
      BY DEF n, i
    <3> QED BY <1>1, <1>2, <1>4, <1>5, <2>1, <3>1, <3>2 DEF Scan
  <2>2. CASE ~(o + 1 < n)
    <3>0. o < n
      BY <1>1
    <3>1. n - 1 = o
      BY <1>0, <2>2, <3>0
    <3>3. n = Slots(i)
      BY DEF n, i
    <3>2. CredsBefore(i + 1) \subseteq done
      BY <1>0, <1>1, <1>4, <1>5, <3>1, <3>3, TierExhausted
    <3> QED BY <1>2, <2>2, <3>2 DEF Scan
  <2> QED BY <2>1, <2>2
<1>7. ASSUME NEW r \in Procs, r # p
      PROVE  /\ pc'[r] = pc[r] /\ tier'[r] = tier[r] /\ start'[r] = start[r]
             /\ offset'[r] = offset[r] /\ refused'[r] = refused[r]
  BY <1>7 DEF Skip, PoolTypeOK
<1> QED BY <1>2, <1>6, <1>7 DEF ScanInv

LEMMA DrawScans ==
    ASSUME PoolTypeOK, ScanInv, CursorsCover, NEW p \in Procs, NEW i \in Tiers,
           DrawStart(p, i), CredsBefore(i) \subseteq refused[p], UNCHANGED refused
    PROVE  ScanInv'
<1>0. Slots(i) \in Nat \ {0}
  BY TierHasSlots
<1>1. /\ pc'[p] = "slot" /\ tier'[p] = i /\ start'[p] = cursor[i] /\ offset'[p] = 0
  BY DEF DrawStart, PoolTypeOK
<1>2. Scan("slot", i, cursor[i], 0, refused[p])
  BY <1>0 DEF Scan, CursorsCover
<1>3. ASSUME NEW r \in Procs, r # p
      PROVE  /\ pc'[r] = pc[r] /\ tier'[r] = tier[r] /\ start'[r] = start[r]
             /\ offset'[r] = offset[r] /\ refused'[r] = refused[r]
  BY <1>3 DEF DrawStart, PoolTypeOK
<1> QED BY <1>1, <1>2, <1>3 DEF ScanInv

\* A request goes on to where it has to have refused no more than it has.
LEMMA GoesOnScanning ==
    ASSUME PoolTypeOK, ScanInv, NEW p \in Procs,
           pc[p] \in {"slot", "load", "exchange"},
           NEW at \in {"load", "exchange", "leased"}, pc' = [pc EXCEPT ![p] = at],
           UNCHANGED <<tier, start, offset, refused>>
    PROVE  ScanInv'
<1>1. Scan(pc[p], tier[p], start[p], offset[p], refused[p])
  BY DEF ScanInv
<1>2. Scan(at, tier[p], start[p], offset[p], refused[p])
  BY <1>1 DEF Scan
<1>3. pc'[p] = at /\ \A r \in Procs \ {p} : pc'[r] = pc[r]
  BY DEF PoolTypeOK
<1> QED BY <1>2, <1>3 DEF ScanInv

LEMMA ObserveScans ==
    ASSUME PoolTypeOK, ScanInv, NEW p \in Procs, NEW m, Observe(p, m),
           pc[p] \in {"load", "exchange"}, UNCHANGED <<tier, start>>
    PROVE  ScanInv'
BY SkipScans, GoesOnScanning DEF Observe

LEMMA EndScans ==
    ASSUME PoolTypeOK, ScanInv, NEW p \in Procs, pc' = [pc EXCEPT ![p] = "idle"],
           tier' = [tier EXCEPT ![p] = 1], start' = [start EXCEPT ![p] = 0],
           offset' = [offset EXCEPT ![p] = 0], refused' = [refused EXCEPT ![p] = {}]
    PROVE  ScanInv'
<1>1. pc'[p] = "idle"
  BY DEF PoolTypeOK
<1>2. Scan(pc'[p], tier'[p], start'[p], offset'[p], refused'[p])
  BY <1>1 DEF Scan
<1>3. ASSUME NEW r \in Procs, r # p
      PROVE  /\ pc'[r] = pc[r] /\ tier'[r] = tier[r] /\ start'[r] = start[r]
             /\ offset'[r] = offset[r] /\ refused'[r] = refused[r]
  BY <1>3 DEF PoolTypeOK
<1> QED BY <1>2, <1>3 DEF ScanInv

LEMMA ScanStep ==
    ASSUME PoolTypeOK, ScanInv, CursorsCover, [PoolNext]_poolVars
    PROVE  ScanInv'
<1>1. ASSUME UNCHANGED <<pc, tier, start, offset, refused>> PROVE ScanInv'
  BY <1>1 DEF ScanInv
<1>2. ASSUME NEW p \in Procs, TryLease(p) PROVE ScanInv'
  <2>1. 1 \in Tiers
    BY PoolConstants DEF Tiers
  <2> QED BY <1>2, <2>1, NoneBeforeFirst, DrawScans DEF TryLease
<1>3. ASSUME NEW p \in Procs, NextTier(p) PROVE ScanInv'
  <2>1. tier[p] \in 1 .. Len(Schedule) /\ Len(Schedule) \in Nat
    BY PoolConstants DEF Tiers, PoolTypeOK
  <2>2. tier[p] + 1 \in Tiers
    BY <1>3, <2>1 DEF Tiers, NextTier
  <2>3. CredsBefore(tier[p] + 1) \subseteq refused[p]
    BY <1>3 DEF NextTier, ScanInv, Scan
  <2> QED BY <1>3, <2>2, <2>3, DrawScans DEF NextTier
<1>4. ASSUME NEW p \in Procs, ReturnNone(p) \/ ReleaseLease(p) PROVE ScanInv'
  BY <1>4, EndScans DEF ReturnNone, ReleaseLease
<1>5. ASSUME NEW p \in Procs, CheckEligible(p) PROVE ScanInv'
  BY <1>5, SkipScans, GoesOnScanning DEF CheckEligible
<1>6. ASSUME NEW p \in Procs, TryAcquire(p) \/ ExchangeErr(p) PROVE ScanInv'
  BY <1>6, ObserveScans DEF TryAcquire, ExchangeErr
<1>7. ASSUME NEW p \in Procs, ExchangeOk(p) PROVE ScanInv'
  BY <1>7, GoesOnScanning DEF ExchangeOk
<1>8. ASSUME NEW c \in Creds, PredicateChanges(c) PROVE ScanInv'
  BY <1>8, <1>1 DEF PredicateChanges
<1> QED
  BY <1>1, <1>2, <1>3, <1>4, <1>5, <1>6, <1>7, <1>8 DEF PoolNext, poolVars

(* As long as no cursor comes within a scan of the end of its word, or for *)
(* ever where the number of slots divides it: try_lease_slots uses a worse *)
(* tier, or gives up, only after this very scan found each credential of   *)
(* every better tier ineligible or saturated, whatever others lease, drop  *)
(* or change meanwhile.                                                    *)
THEOREM TiersInOrder == PoolSpec /\ []CursorsCover => []BetterTiersExhausted
<1>1. PoolInit => ScanInv
  BY DEF PoolInit, ScanInv, Scan
<1>2. PoolInv => PoolTypeOK
  BY DEF PoolInv
<1>3. PoolTypeOK /\ ScanInv /\ CursorsCover /\ [PoolNext]_poolVars => ScanInv'
  BY ScanStep
<1>4. PoolInv /\ ScanInv => BetterTiersExhausted
  BY DEF PoolInv, ScanInv, Scan, LeasedAtLease, BetterTiersExhausted
<1> QED
  BY PoolInvariant, <1>1, <1>2, <1>3, <1>4, PTL DEF PoolSpec
=============================================================================
