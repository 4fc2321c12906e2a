------------------------- MODULE RuntimeHealthProofs -------------------------
(***************************************************************************)
(* Proofs, for every set of keys, capacity and clock range, of what        *)
(* MCRuntimeRegistries checks on one small shard.                          *)
(***************************************************************************)
EXTENDS RuntimeHealth, FiniteSetTheorems, TLAPS

-----------------------------------------------------------------------------
(* Type correctness.                                                       *)

LEMMA EntryType ==
    ASSUME NEW tag \in Tags, NEW at \in Times, NEW id \in Ids, NEW exp \in Times
    PROVE  Entry(tag, at, id, exp) \in RuntimeHealthState
BY DEF Entry, RuntimeHealthState

LEMMA ConstantEntries ==
    /\ 0 \in Times /\ 0 \in Ids /\ 1 \in Ids
    /\ Absent \in RuntimeHealthState
    /\ AccountForbidden \in RuntimeHealthState
    /\ CredentialUnauthorized \in RuntimeHealthState
    /\ \A d \in Times : /\ CoolingDown(d) \in RuntimeHealthState
                        /\ CircuitOpen(d) \in RuntimeHealthState
<1>1. 0 \in Times /\ 0 \in Ids /\ 1 \in Ids
  BY HealthConstants DEF Times, Ids
<1>2. {"Absent", "AccountForbidden", "CredentialUnauthorized", "CoolingDown",
       "CircuitOpen"} \subseteq Tags
  BY DEF Tags
<1> QED
  BY <1>1, <1>2, EntryType
  DEF Absent, AccountForbidden, CredentialUnauthorized, CoolingDown, CircuitOpen

LEMMA ReclaimType ==
    ASSUME TypeOK, NEW t
    PROVE  Reclaim(t) \in [Keys -> RuntimeHealthState]
BY ConstantEntries DEF TypeOK, Reclaim

LEMMA InsertType ==
    ASSUME TypeOK, NEW k \in Keys, NEW s \in RuntimeHealthState, NEW t,
           Insert(k, s, t)
    PROVE  states' \in [Keys -> RuntimeHealthState]
BY ReclaimType DEF TypeOK, Insert

LEMMA ReplaceType ==
    ASSUME TypeOK, NEW k \in Keys, NEW s \in RuntimeHealthState, Replace(k, s)
    PROVE  states' \in [Keys -> RuntimeHealthState]
BY DEF TypeOK, Replace

LEMMA TypeInitially == Init => TypeOK
BY ConstantEntries, HealthConstants DEF Init, TypeOK, Times, Ids

LEMMA TypePreserved ==
    TypeOK /\ [Next]_vars => TypeOK'
<1> SUFFICES ASSUME TypeOK, [Next]_vars PROVE TypeOK'
  OBVIOUS
<1> USE HealthConstants
<1>1. CASE Tick
  BY <1>1 DEF Tick, TypeOK, Times
<1>2. ASSUME NEW k \in Keys, NEW t \in Times, MarkCredentialForbidden(k, t)
      PROVE  TypeOK'
  <2>1. states' \in [Keys -> RuntimeHealthState]
    BY <1>2, InsertType, ReplaceType, ConstantEntries DEF MarkCredentialForbidden
  <2> QED
    BY <1>2, <2>1 DEF MarkCredentialForbidden, TypeOK, NewVerdict
<1>3. ASSUME NEW k \in Keys, NEW t \in Times, MarkCredentialUnauthorized(k, t)
      PROVE  TypeOK'
  <2>1. states' \in [Keys -> RuntimeHealthState]
    BY <1>3, InsertType, ReplaceType, ConstantEntries
    DEF MarkCredentialUnauthorized
  <2> QED
    BY <1>3, <2>1 DEF MarkCredentialUnauthorized, TypeOK, NewVerdict
<1>4. ASSUME NEW k \in Keys, NEW d \in Times, NEW t \in Times,
             CoolDownUntil(k, d, t)
      PROVE  TypeOK'
  <2>1. MaxOf(states[k].at, d) \in Times
    BY DEF TypeOK, RuntimeHealthState, MaxOf
  <2>2. states' \in [Keys -> RuntimeHealthState]
    BY <1>4, <2>1, InsertType, ReplaceType, ConstantEntries DEF CoolDownUntil
  <2> QED
    BY <1>4, <2>2 DEF CoolDownUntil, TypeOK
<1>5. ASSUME NEW k \in Keys, NEW d \in Times, NEW t \in Times,
             OpenCircuitUntil(k, d, t)
      PROVE  TypeOK'
  <2>1. MaxOf(states[k].at, d) \in Times
    BY DEF TypeOK, RuntimeHealthState, MaxOf
  <2>2. states' \in [Keys -> RuntimeHealthState]
    BY <1>5, <2>1, InsertType, ReplaceType, ConstantEntries DEF OpenCircuitUntil
  <2> QED
    BY <1>5, <2>2 DEF OpenCircuitUntil, TypeOK, NewVerdict
<1>6. ASSUME NEW k \in Keys, NEW d \in Times, NEW t \in Times,
             BeginAccountRecovery(k, d, t)
      PROVE  TypeOK'
  <2>1. nextAccountId \in Ids /\ nextAccountId' \in Ids
    BY <1>6 DEF BeginAccountRecovery, TypeOK, Ids
  <2>2. states' \in [Keys -> RuntimeHealthState]
    BY <1>6, <2>1, EntryType, ReplaceType, ConstantEntries
    DEF BeginAccountRecovery, Tags
  <2>3. tickets' \subseteq Ticket
    BY <1>6, <2>1 DEF BeginAccountRecovery, TypeOK, Ticket
  <2> QED
    BY <1>6, <2>1, <2>2, <2>3 DEF BeginAccountRecovery, TypeOK, NewVerdict
<1>7. ASSUME NEW k \in Keys, NEW d \in Times, NEW t \in Times,
             BeginCircuitProbe(k, d, t)
      PROVE  TypeOK'
  <2>1. nextCircuitId \in Ids /\ nextCircuitId' \in Ids
    BY <1>7 DEF BeginCircuitProbe, TypeOK, Ids
  <2>2. states[k].at \in Times
    BY DEF TypeOK, RuntimeHealthState
  <2>3. states' \in [Keys -> RuntimeHealthState]
    BY <1>7, <2>1, <2>2, EntryType, ReplaceType DEF BeginCircuitProbe, Tags
  <2>4. tickets' \subseteq Ticket
    BY <1>7, <2>1 DEF BeginCircuitProbe, TypeOK, Ticket
  <2> QED
    BY <1>7, <2>1, <2>3, <2>4 DEF BeginCircuitProbe, TypeOK, NewVerdict
<1>8. ASSUME NEW k \in Keys, MarkHealthy(k)
      PROVE  TypeOK'
  <2>1. states' \in [Keys -> RuntimeHealthState]
    BY <1>8, ReplaceType, ConstantEntries DEF MarkHealthy
  <2> QED
    BY <1>8, <2>1 DEF MarkHealthy, TypeOK, NewVerdict
<1>9. ASSUME NEW tk \in tickets, NEW t \in Times, NEW allowed \in BOOLEAN,
             CompleteAccountRecovery(tk, allowed, t)
      PROVE  TypeOK'
  <2>1. states' \in [Keys -> RuntimeHealthState]
    BY <1>9, ConstantEntries DEF CompleteAccountRecovery, TypeOK
  <2> QED
    BY <1>9, <2>1 DEF CompleteAccountRecovery, TypeOK, Consume
<1>10. ASSUME NEW tk \in tickets, NEW t \in Times, NEW retry \in Times,
              CompleteCircuitProbe(tk, retry, t)
       PROVE  TypeOK'
  <2>1. states' \in [Keys -> RuntimeHealthState]
    BY <1>10, ConstantEntries DEF CompleteCircuitProbe, TypeOK
  <2> QED
    BY <1>10, <2>1 DEF CompleteCircuitProbe, TypeOK, Consume
<1>11. ASSUME NEW tk \in tickets, AbandonTicket(tk)
       PROVE  TypeOK'
  BY <1>11 DEF AbandonTicket, TypeOK, Consume
<1>12. CASE UNCHANGED vars
  BY <1>12 DEF vars, TypeOK
<1> QED
  BY <1>1, <1>2, <1>3, <1>4, <1>5, <1>6, <1>7, <1>8, <1>9, <1>10, <1>11, <1>12
  DEF Next

(* The shard's entries, counters and tickets keep their types for every    *)
(* interleaving of the registry's operations.                              *)
THEOREM TypeCorrect == Spec => []TypeOK
BY TypeInitially, TypePreserved, PTL DEF Spec

-----------------------------------------------------------------------------
(* Ticket discipline.  LateTicketPowerless is not inductive by itself: a   *)
(* successor ticket must not happen to carry an outdated ticket's          *)
(* generation.  GenerationsSpent says that generations in circulation were *)
(* all handed out before, GenerationsUnique that each went to one ticket.  *)

GenerationsSpent ==
    /\ \A tk \in tickets :
          tk.id < IF tk.kind = "circuit" THEN nextCircuitId ELSE nextAccountId
    /\ \A k \in Keys :
          /\ states[k].tag = "CircuitHalfOpen" => states[k].id < nextCircuitId
          /\ states[k].tag = "AccountRecoveryInFlight" =>
                states[k].id < nextAccountId

GenerationsUnique ==
    \A a, b \in tickets : a.kind = b.kind /\ a.id = b.id => a = b

\* A half-open Circuit was due when its current ticket was issued.
DueWhenIssued ==
    \A tk \in tickets : tk.kind = "circuit" /\ Owns(tk) =>
        states[tk.key].at <= tk.issued

HalfOpenWasDue ==
    \A k \in Keys : states[k].tag = "CircuitHalfOpen" =>
        states[k].at < states[k].exp

TicketInv ==
    /\ TypeOK
    /\ GenerationsSpent
    /\ GenerationsUnique
    /\ LateTicketPowerless
    /\ DueWhenIssued
    /\ HalfOpenWasDue

OwnedTags == {"CircuitHalfOpen", "AccountRecoveryInFlight"}

\* A step that issues no ticket and puts no key under a ticket's control.
QuietStep ==
    /\ tickets' \subseteq tickets
    /\ UNCHANGED <<nextCircuitId, nextAccountId>>
    /\ \A j \in Keys : states'[j] = states[j] \/ states'[j].tag \notin OwnedTags
    /\ \A tk \in outdated' :
          tk \in outdated \/ states'[tk.key].tag \notin OwnedTags

LEMMA QuietStepKeepsTicketInv ==
    ASSUME TicketInv, TypeOK', QuietStep
    PROVE  TicketInv'
<1>1. \A tk \in tickets' : /\ tk.key \in Keys
                           /\ tk.kind \in {"circuit", "account"}
                           /\ Owns(tk)' => Owns(tk) /\ states'[tk.key] = states[tk.key]
  BY DEF TicketInv, TypeOK, QuietStep, Ticket, Owns, OwnedTags
<1>2. GenerationsSpent'
  BY DEF TicketInv, QuietStep, GenerationsSpent, OwnedTags
<1>3. GenerationsUnique'
  BY DEF TicketInv, QuietStep, GenerationsUnique
<1>4. LateTicketPowerless'
  <2> SUFFICES ASSUME NEW tk \in outdated', Owns(tk)' PROVE FALSE
    BY DEF LateTicketPowerless
  <2>1. tk \in tickets'
    BY DEF TypeOK
  <2>2. states'[tk.key].tag \in OwnedTags
    BY <1>1, <2>1 DEF Owns, OwnedTags
  <2> QED
    BY <1>1, <2>1, <2>2 DEF QuietStep, TicketInv, LateTicketPowerless
<1>5. DueWhenIssued'
  BY <1>1 DEF TicketInv, DueWhenIssued, QuietStep
<1>6. HalfOpenWasDue'
  BY DEF TicketInv, HalfOpenWasDue, QuietStep, OwnedTags
<1> QED
  BY <1>2, <1>3, <1>4, <1>5, <1>6 DEF TicketInv

LEMMA UnownedEntries ==
    /\ Absent.tag \notin OwnedTags
    /\ AccountForbidden.tag \notin OwnedTags
    /\ CredentialUnauthorized.tag \notin OwnedTags
    /\ \A d : CoolingDown(d).tag \notin OwnedTags
    /\ \A d : CircuitOpen(d).tag \notin OwnedTags
BY DEF Absent, AccountForbidden, CredentialUnauthorized, CoolingDown,
       CircuitOpen, Entry, OwnedTags

LEMMA InsertIsQuiet ==
    ASSUME TypeOK, NEW k \in Keys, NEW s, NEW t, s.tag \notin OwnedTags,
           Insert(k, s, t)
    PROVE  /\ states'[k].tag \notin OwnedTags
           /\ \A j \in Keys :
                 states'[j] = states[j] \/ states'[j].tag \notin OwnedTags
BY UnownedEntries DEF TypeOK, Insert, Reclaim

LEMMA ReplaceIsQuiet ==
    ASSUME TypeOK, NEW k \in Keys, NEW s, s.tag \notin OwnedTags, Replace(k, s)
    PROVE  /\ states'[k].tag \notin OwnedTags
           /\ \A j \in Keys :
                 states'[j] = states[j] \/ states'[j].tag \notin OwnedTags
BY DEF TypeOK, Replace

LEMMA TicketInvInitially == Init => TicketInv
<1> SUFFICES ASSUME Init PROVE TicketInv
  OBVIOUS
<1>1. \A k \in Keys : states[k].tag \notin OwnedTags
  BY UnownedEntries DEF Init
<1> QED
  BY <1>1, TypeInitially DEF Init, TicketInv, GenerationsSpent,
     GenerationsUnique, LateTicketPowerless, DueWhenIssued, HalfOpenWasDue, OwnedTags

LEMMA BeginAccountRecoveryKeepsTicketInv ==
    ASSUME TicketInv, TypeOK', NEW k \in Keys, NEW d \in Times, NEW t \in Times,
           BeginAccountRecovery(k, d, t)
    PROVE  TicketInv'
<1> DEFINE new == [kind |-> "account", key |-> k, id |-> nextAccountId,
                   exp |-> d, issued |-> t]
<1>0. TypeOK /\ nextAccountId \in Int /\ nextCircuitId \in Int
  BY HealthConstants DEF TicketInv, TypeOK, Ids
<1>1. /\ tickets' = tickets \cup {new}
      /\ nextAccountId' = nextAccountId + 1
      /\ nextCircuitId' = nextCircuitId
      /\ states' = [states EXCEPT ![k] =
                        Entry("AccountRecoveryInFlight", 0, nextAccountId, d)]
      /\ outdated' = outdated \cup {tk \in tickets : tk.key = k}
  BY DEF BeginAccountRecovery, Replace, NewVerdict
<1>2. \A tk \in tickets : /\ tk.key \in Keys
                          /\ tk.kind \in {"circuit", "account"}
                          /\ tk.id \in Int
  BY <1>0, HealthConstants DEF TypeOK, Ticket, Ids
<1>3. \A j \in Keys : states[j].id \in Int
  BY <1>0, HealthConstants DEF TypeOK, RuntimeHealthState, Ids
<1>4. \A tk \in tickets : tk.kind = "account" => tk.id < nextAccountId
  BY <1>2 DEF TicketInv, GenerationsSpent
<1>5. \A tk \in tickets : tk.key = k => ~Owns(tk)'
  BY <1>0, <1>1, <1>2, <1>4 DEF Owns, Entry, TypeOK
<1>6. \A tk \in tickets : tk.key # k => Owns(tk)' = Owns(tk)
                                        /\ states'[tk.key] = states[tk.key]
  BY <1>0, <1>1, <1>2 DEF Owns, TypeOK
<1>7. GenerationsSpent'
  <2>1. \A tk \in tickets' : tk.id < IF tk.kind = "circuit"
                                     THEN nextCircuitId' ELSE nextAccountId'
    BY <1>0, <1>1, <1>2 DEF TicketInv, GenerationsSpent
  <2>2. \A j \in Keys :
          /\ states'[j].tag = "CircuitHalfOpen" => states'[j].id < nextCircuitId'
          /\ states'[j].tag = "AccountRecoveryInFlight" =>
                states'[j].id < nextAccountId'
    BY <1>0, <1>1, <1>3 DEF TicketInv, GenerationsSpent, TypeOK, Entry
  <2> QED
    BY <2>1, <2>2 DEF GenerationsSpent
<1>8. GenerationsUnique'
  BY <1>0, <1>1, <1>2, <1>4 DEF TicketInv, GenerationsUnique
<1>9. LateTicketPowerless'
  BY <1>0, <1>1, <1>5, <1>6 DEF TicketInv, LateTicketPowerless, TypeOK
<1>10. DueWhenIssued'
  BY <1>0, <1>1, <1>5, <1>6 DEF TicketInv, DueWhenIssued
<1>11. HalfOpenWasDue'
  BY <1>0, <1>1 DEF TicketInv, HalfOpenWasDue, Entry, TypeOK
<1> QED
  BY <1>7, <1>8, <1>9, <1>10, <1>11 DEF TicketInv

LEMMA BeginCircuitProbeKeepsTicketInv ==
    ASSUME TicketInv, TypeOK', NEW k \in Keys, NEW d \in Times, NEW t \in Times,
           BeginCircuitProbe(k, d, t)
    PROVE  TicketInv'
<1> DEFINE new == [kind |-> "circuit", key |-> k, id |-> nextCircuitId,
                   exp |-> d, issued |-> t]
<1>0. TypeOK /\ nextAccountId \in Int /\ nextCircuitId \in Int
  BY HealthConstants DEF TicketInv, TypeOK, Ids
<1>1. /\ tickets' = tickets \cup {new}
      /\ nextAccountId' = nextAccountId
      /\ nextCircuitId' = nextCircuitId + 1
      /\ states' = [states EXCEPT ![k] =
                        Entry("CircuitHalfOpen", states[k].at, nextCircuitId, d)]
      /\ outdated' = outdated \cup {tk \in tickets : tk.key = k}
  BY DEF BeginCircuitProbe, Replace, NewVerdict
<1>2. \A tk \in tickets : /\ tk.key \in Keys
                          /\ tk.kind \in {"circuit", "account"}
                          /\ tk.id \in Int
  BY <1>0, HealthConstants DEF TypeOK, Ticket, Ids
<1>3. \A j \in Keys : states[j].id \in Int
  BY <1>0, HealthConstants DEF TypeOK, RuntimeHealthState, Ids
<1>4. \A tk \in tickets : tk.kind = "circuit" => tk.id < nextCircuitId
  BY <1>2 DEF TicketInv, GenerationsSpent
<1>5. \A tk \in tickets : tk.key = k => ~Owns(tk)'
  BY <1>0, <1>1, <1>2, <1>4 DEF Owns, Entry, TypeOK
<1>6. \A tk \in tickets : tk.key # k => Owns(tk)' = Owns(tk)
                                        /\ states'[tk.key] = states[tk.key]
  BY <1>0, <1>1, <1>2 DEF Owns, TypeOK
<1>7. GenerationsSpent'
  <2>1. \A tk \in tickets' : tk.id < IF tk.kind = "circuit"
                                     THEN nextCircuitId' ELSE nextAccountId'
    BY <1>0, <1>1, <1>2 DEF TicketInv, GenerationsSpent
  <2>2. \A j \in Keys :
          /\ states'[j].tag = "CircuitHalfOpen" => states'[j].id < nextCircuitId'
          /\ states'[j].tag = "AccountRecoveryInFlight" =>
                states'[j].id < nextAccountId'
    BY <1>0, <1>1, <1>3 DEF TicketInv, GenerationsSpent, TypeOK, Entry
  <2> QED
    BY <2>1, <2>2 DEF GenerationsSpent
<1>8. GenerationsUnique'
  BY <1>0, <1>1, <1>2, <1>4 DEF TicketInv, GenerationsUnique
<1>9. LateTicketPowerless'
  BY <1>0, <1>1, <1>5, <1>6 DEF TicketInv, LateTicketPowerless, TypeOK
<1>10. states[k].at <= t /\ states[k].at < d
  BY <1>0, HealthConstants
  DEF BeginCircuitProbe, TicketInv, HalfOpenWasDue, TypeOK, RuntimeHealthState,
      Times
<1>11. DueWhenIssued'
  BY <1>0, <1>1, <1>5, <1>6, <1>10 DEF TicketInv, DueWhenIssued, Entry, TypeOK
<1>12. HalfOpenWasDue'
  BY <1>0, <1>1, <1>10 DEF TicketInv, HalfOpenWasDue, Entry, TypeOK
<1> QED
  BY <1>7, <1>8, <1>9, <1>11, <1>12 DEF TicketInv

LEMMA TicketInvPreserved ==
    TicketInv /\ [Next]_vars => TicketInv'
<1> SUFFICES ASSUME TicketInv, [Next]_vars PROVE TicketInv'
  OBVIOUS
<1>0. TypeOK /\ TypeOK'
  BY TypePreserved DEF TicketInv
<1>q. QuietStep => TicketInv'
  BY <1>0, QuietStepKeepsTicketInv
<1>1. CASE Tick
  BY <1>0, <1>1, <1>q DEF Tick, QuietStep
<1>2. ASSUME NEW k \in Keys, NEW t \in Times,
             \/ MarkCredentialForbidden(k, t) \/ MarkCredentialUnauthorized(k, t)
      PROVE  TicketInv'
  <2>1. /\ states'[k].tag \notin OwnedTags
        /\ \A j \in Keys :
              states'[j] = states[j] \/ states'[j].tag \notin OwnedTags
    BY <1>0, <1>2, UnownedEntries, InsertIsQuiet, ReplaceIsQuiet
    DEF MarkCredentialForbidden, MarkCredentialUnauthorized
  <2> QED
    BY <1>2, <1>q, <2>1 DEF MarkCredentialForbidden,
       MarkCredentialUnauthorized, NewVerdict, QuietStep
<1>3. ASSUME NEW k \in Keys, NEW d \in Times, NEW t \in Times,
             CoolDownUntil(k, d, t)
      PROVE  TicketInv'
  <2>1. \A j \in Keys : states'[j] = states[j] \/ states'[j].tag \notin OwnedTags
    BY <1>0, <1>3, UnownedEntries, InsertIsQuiet, ReplaceIsQuiet
    DEF CoolDownUntil
  <2> QED
    BY <1>3, <1>q, <2>1 DEF CoolDownUntil, QuietStep
<1>4. ASSUME NEW k \in Keys, NEW d \in Times, NEW t \in Times,
             OpenCircuitUntil(k, d, t)
      PROVE  TicketInv'
  <2>1. /\ states'[k].tag \notin OwnedTags
        /\ \A j \in Keys :
              states'[j] = states[j] \/ states'[j].tag \notin OwnedTags
    BY <1>0, <1>4, UnownedEntries, InsertIsQuiet, ReplaceIsQuiet
    DEF OpenCircuitUntil
  <2> QED
    BY <1>4, <1>q, <2>1 DEF OpenCircuitUntil, NewVerdict, QuietStep
<1>5. ASSUME NEW k \in Keys, MarkHealthy(k)
      PROVE  TicketInv'
  <2>1. /\ states'[k].tag \notin OwnedTags
        /\ \A j \in Keys :
              states'[j] = states[j] \/ states'[j].tag \notin OwnedTags
    BY <1>0, <1>5, UnownedEntries, ReplaceIsQuiet DEF MarkHealthy
  <2> QED
    BY <1>5, <1>q, <2>1 DEF MarkHealthy, NewVerdict, QuietStep
<1>6. ASSUME NEW tk \in tickets, NEW t \in Times, NEW allowed \in BOOLEAN,
             CompleteAccountRecovery(tk, allowed, t)
      PROVE  TicketInv'
  BY <1>0, <1>6, <1>q, UnownedEntries
  DEF CompleteAccountRecovery, Consume, QuietStep, TypeOK
<1>7. ASSUME NEW tk \in tickets, NEW t \in Times, NEW retry \in Times,
             CompleteCircuitProbe(tk, retry, t)
      PROVE  TicketInv'
  BY <1>0, <1>7, <1>q, UnownedEntries
  DEF CompleteCircuitProbe, Consume, QuietStep, TypeOK
<1>8. ASSUME NEW tk \in tickets, AbandonTicket(tk)
      PROVE  TicketInv'
  BY <1>0, <1>8, <1>q DEF AbandonTicket, Consume, QuietStep
<1>9. CASE UNCHANGED vars
  BY <1>0, <1>9, <1>q DEF vars, QuietStep
<1> QED
  BY <1>0, <1>1, <1>2, <1>3, <1>4, <1>5, <1>6, <1>7, <1>8, <1>9,
     BeginAccountRecoveryKeepsTicketInv, BeginCircuitProbeKeepsTicketInv
  DEF Next

LEMMA TicketDiscipline == Spec => []TicketInv
BY TicketInvInitially, TicketInvPreserved, PTL DEF Spec

(* A ticket whose key received a newer verdict changes nothing, whenever   *)
(* its holder reports.                                                     *)
THEOREM LateTicketsArePowerless == Spec => []LateTicketPowerless
<1>1. TicketInv => LateTicketPowerless
  BY DEF TicketInv
<1> QED
  BY <1>1, TicketDiscipline, PTL

(* At most one outstanding ticket can still decide a key's recovery.       *)
THEOREM TicketsAreExclusive == Spec => []SoleTicketOwner
<1>1. TicketInv => SoleTicketOwner
  BY DEF TicketInv, TypeOK, Ticket, GenerationsUnique, SoleTicketOwner, Owns
<1> QED
  BY <1>1, TicketDiscipline, PTL

-----------------------------------------------------------------------------
(* Action properties, from the same invariant.                             *)

LEMMA StickyStep ==
    ASSUME TicketInv, [Next]_vars, NEW k \in Keys, IsAccountBlocked(k),
           ~IsAccountBlocked(k)'
    PROVE  \E tk \in tickets \ tickets' :
               /\ tk.kind = "account" /\ tk.key = k
               /\ tk \notin outdated  /\ tk.id = states[k].id
<1>0. TypeOK
  BY DEF TicketInv
<1>a. states[k].tag \in AccountTags /\ states'[k].tag \notin AccountTags
  BY DEF IsAccountBlocked
<1>b. ~(states[k].tag \in {"Absent", "CoolingDown"} \cup CircuitTags)
  BY <1>a DEF AccountTags, CircuitTags
<1>c. \A t : Reclaim(t)[k] = states[k]
  BY <1>b DEF Reclaim, IsExpiredCooldown
<1>d. \A j, s, t : Insert(j, s, t) => states'[k] = states[k]
  BY <1>0, <1>b, <1>c DEF Insert, Reclaim, TypeOK
<1>e. \A j, s : Replace(j, s) /\ j # k => states'[k] = states[k]
  BY <1>0 DEF Replace, TypeOK
<1>f. \A j, s : Replace(j, s) /\ j = k => states'[k] = s
  BY <1>0 DEF Replace, TypeOK
<1>1. CASE Tick \/ UNCHANGED vars \/ \E tk \in tickets : AbandonTicket(tk)
  BY <1>1, <1>a DEF Tick, vars, AbandonTicket
<1>2. ASSUME NEW j \in Keys, NEW t \in Times,
             \/ MarkCredentialForbidden(j, t) \/ MarkCredentialUnauthorized(j, t)
      PROVE  FALSE
  BY <1>2, <1>a, <1>d, <1>e, <1>f
  DEF MarkCredentialForbidden, MarkCredentialUnauthorized, AccountForbidden,
      CredentialUnauthorized, Entry, AccountTags
<1>3. ASSUME NEW j \in Keys, NEW d \in Times, NEW t \in Times,
             \/ CoolDownUntil(j, d, t) \/ OpenCircuitUntil(j, d, t)
      PROVE  FALSE
  BY <1>3, <1>a, <1>b, <1>d, <1>e DEF CoolDownUntil, OpenCircuitUntil, IsCircuit
<1>4. ASSUME NEW j \in Keys, NEW d \in Times, NEW t \in Times,
             \/ BeginAccountRecovery(j, d, t) \/ BeginCircuitProbe(j, d, t)
      PROVE  FALSE
  BY <1>4, <1>a, <1>b, <1>e, <1>f
  DEF BeginAccountRecovery, BeginCircuitProbe, Entry, AccountTags, CircuitTags
<1>5. ASSUME NEW j \in Keys, MarkHealthy(j)
      PROVE  FALSE
  BY <1>5, <1>a, <1>e DEF MarkHealthy, IsAccountBlocked
<1>6. ASSUME NEW tk \in tickets, NEW t \in Times, NEW allowed \in BOOLEAN,
             CompleteAccountRecovery(tk, allowed, t)
      PROVE  /\ tk \in tickets \ tickets'
             /\ tk.kind = "account" /\ tk.key = k
             /\ tk \notin outdated  /\ tk.id = states[k].id
  <2>1. Owns(tk) /\ tk.key = k
    BY <1>0, <1>6, <1>a DEF CompleteAccountRecovery, TypeOK
  <2>2. tk \notin outdated
    BY <2>1 DEF TicketInv, LateTicketPowerless
  <2> QED
    BY <1>6, <2>1, <2>2 DEF CompleteAccountRecovery, Consume, Owns
<1>7. ASSUME NEW tk \in tickets, NEW t \in Times, NEW retry \in Times,
             CompleteCircuitProbe(tk, retry, t)
      PROVE  FALSE
  BY <1>0, <1>7, <1>a, <1>b
  DEF CompleteCircuitProbe, TypeOK, Owns, CircuitTags
<1> QED
  BY <1>1, <1>2, <1>3, <1>4, <1>5, <1>6, <1>7 DEF Next

(* A 401/403 block ends only through its current account ticket.           *)
THEOREM AccountBlocksAreSticky == Spec => AccountBlockSticky
<1>1. TicketInv /\ [Next]_vars => [AccountBlockKept]_vars
  BY StickyStep DEF AccountBlockKept
<1> QED
  BY <1>1, TicketDiscipline, PTL DEF Spec, AccountBlockSticky

LEMMA RetryStep ==
    ASSUME TicketInv, [Next]_vars, NEW k \in Keys, IsCircuit(k), IsCircuit(k)'
    PROVE  states'[k].at >= states[k].at
<1>0. TypeOK /\ states[k].at \in Int /\ states[k].tag \in CircuitTags
             /\ states'[k].tag \in CircuitTags
  BY HealthConstants DEF TicketInv, TypeOK, RuntimeHealthState, Times, IsCircuit
<1>a. states[k].tag \notin {"Absent", "CoolingDown"} \cup AccountTags
  BY <1>0 DEF CircuitTags, AccountTags
<1>b. \A t : Reclaim(t)[k] = states[k]
  BY <1>a DEF Reclaim, IsExpiredCooldown
<1>d. \A j, s, t : Insert(j, s, t) => states'[k] = states[k]
  BY <1>0, <1>a, <1>b DEF Insert, Reclaim, TypeOK
<1>e. \A j, s : Replace(j, s) /\ j # k => states'[k] = states[k]
  BY <1>0 DEF Replace, TypeOK
<1>f. \A j, s : Replace(j, s) /\ j = k => states'[k] = s
  BY <1>0 DEF Replace, TypeOK
<1>1. CASE Tick \/ UNCHANGED vars \/ \E tk \in tickets : AbandonTicket(tk)
  BY <1>1, <1>0 DEF Tick, vars, AbandonTicket
<1>2. ASSUME NEW j \in Keys, NEW t \in Times,
             \/ MarkCredentialForbidden(j, t) \/ MarkCredentialUnauthorized(j, t)
      PROVE  states'[k].at >= states[k].at
  BY <1>2, <1>0, <1>d, <1>e, <1>f
  DEF MarkCredentialForbidden, MarkCredentialUnauthorized, AccountForbidden,
      CredentialUnauthorized, Entry, CircuitTags
<1>3. ASSUME NEW j \in Keys, NEW d \in Times, NEW t \in Times,
             CoolDownUntil(j, d, t)
      PROVE  states'[k].at >= states[k].at
  BY <1>3, <1>0, <1>a, <1>d, <1>e DEF CoolDownUntil
<1>4. ASSUME NEW j \in Keys, NEW d \in Times, NEW t \in Times,
             OpenCircuitUntil(j, d, t)
      PROVE  states'[k].at >= states[k].at
  <2>1. d \in Int
    BY HealthConstants DEF Times
  <2> QED
    BY <1>4, <1>0, <1>a, <1>d, <1>e, <1>f, <2>1
    DEF OpenCircuitUntil, CircuitOpen, Entry, MaxOf
<1>5. ASSUME NEW j \in Keys, NEW d \in Times, NEW t \in Times,
             \/ BeginAccountRecovery(j, d, t) \/ BeginCircuitProbe(j, d, t)
      PROVE  states'[k].at >= states[k].at
  BY <1>5, <1>0, <1>a, <1>e, <1>f
  DEF BeginAccountRecovery, BeginCircuitProbe, Entry, AccountTags
<1>6. ASSUME NEW j \in Keys, MarkHealthy(j)
      PROVE  states'[k].at >= states[k].at
  BY <1>6, <1>0, <1>e, <1>f DEF MarkHealthy, Absent, Entry, CircuitTags
<1>7. ASSUME NEW tk \in tickets, NEW t \in Times, NEW allowed \in BOOLEAN,
             CompleteAccountRecovery(tk, allowed, t)
      PROVE  states'[k].at >= states[k].at
  BY <1>7, <1>0, <1>a
  DEF CompleteAccountRecovery, Owns, TypeOK, AccountTags
<1>8. ASSUME NEW tk \in tickets, NEW t \in Times, NEW retry \in Times,
             CompleteCircuitProbe(tk, retry, t)
      PROVE  states'[k].at >= states[k].at
  <2>1. /\ t \in Int /\ retry \in Int /\ tk.issued \in Int /\ now \in Int
        /\ tk.issued <= t
    BY <1>8, <1>0, HealthConstants
    DEF CompleteCircuitProbe, TypeOK, Ticket, Times
  <2>2. Owns(tk) => states[tk.key].at <= tk.issued
    BY <1>8 DEF CompleteCircuitProbe, TicketInv, DueWhenIssued
  <2> QED
    BY <1>8, <1>0, <2>1, <2>2
    DEF CompleteCircuitProbe, CircuitOpen, Absent, Entry, TypeOK, CircuitTags
<1> QED
  BY <1>1, <1>2, <1>3, <1>4, <1>5, <1>6, <1>7, <1>8 DEF Next

(* Reopening a Circuit, or failing its probe, never brings its earliest    *)
(* recovery instant forward.                                               *)
THEOREM CircuitDeadlinesNeverShorten == Spec => RetryNeverShortens
<1>1. TicketInv /\ [Next]_vars =>
        [\A k \in Keys : IsCircuit(k) /\ IsCircuit(k)' =>
            states'[k].at >= states[k].at]_vars
  BY RetryStep
<1> QED
  BY <1>1, TicketDiscipline, PTL DEF Spec, RetryNeverShortens

-----------------------------------------------------------------------------
(* The shard's capacity and the reclamation that defends it.               *)

LEMMA InsertIsolates ==
    ASSUME TypeOK, NEW i \in Keys, NEW s \in RuntimeHealthState,
           NEW t \in 0 .. now, Insert(i, s, t),
           NEW j \in Keys, NEW k \in Keys, j # k,
           states[j].tag = "Absent", states'[j].tag # "Absent"
    PROVE  IsAvailable(states'[k], now) = IsAvailable(states[k], now)
<1>1. Absent.tag = "Absent"
  BY DEF Absent, Entry
<1>2. i = j
  BY <1>1 DEF TypeOK, Insert, Reclaim
<1>3. states'[k] = states[k] \/ states'[k] = Reclaim(t)[k]
  BY <1>2 DEF TypeOK, Insert, Reclaim
<1>4. CASE states'[k] = states[k]
  BY <1>4
<1>5. CASE states'[k] # states[k]
  <2>1. states'[k] = Absent /\ IsExpiredCooldown(states[k], t)
    BY <1>3, <1>5 DEF Reclaim
  <2>2. states[k].at \in Int /\ now \in Int /\ t \in Int /\ t <= now
    BY HealthConstants DEF TypeOK, RuntimeHealthState, Times
  <2>3. IsAvailable(states[k], now)
    BY <2>1, <2>2 DEF IsExpiredCooldown, IsAvailable
  <2>4. IsAvailable(states'[k], now)
    BY <1>1, <2>1 DEF IsAvailable
  <2> QED
    BY <2>3, <2>4
<1> QED
  BY <1>4, <1>5

LEMMA IsolationStep ==
    ASSUME TypeOK, [Next]_vars, NEW j \in Keys, NEW k \in Keys, j # k,
           states[j].tag = "Absent", states'[j].tag # "Absent"
    PROVE  IsAvailable(states'[k], now) = IsAvailable(states[k], now)
<1>a. \A i, s : ~Replace(i, s)
  BY DEF Replace, TypeOK
<1>1. CASE Tick \/ UNCHANGED vars \/ \E tk \in tickets : AbandonTicket(tk)
  BY <1>1 DEF Tick, vars, AbandonTicket
<1>2. ASSUME NEW i \in Keys, NEW t \in Times,
             \/ MarkCredentialForbidden(i, t) \/ MarkCredentialUnauthorized(i, t)
      PROVE  IsAvailable(states'[k], now) = IsAvailable(states[k], now)
  BY <1>2, <1>a, InsertIsolates, ConstantEntries
  DEF MarkCredentialForbidden, MarkCredentialUnauthorized
<1>3. ASSUME NEW i \in Keys, NEW d \in Times, NEW t \in Times,
             \/ CoolDownUntil(i, d, t) \/ OpenCircuitUntil(i, d, t)
      PROVE  IsAvailable(states'[k], now) = IsAvailable(states[k], now)
  BY <1>3, <1>a, InsertIsolates, ConstantEntries
  DEF CoolDownUntil, OpenCircuitUntil
<1>4. ASSUME NEW i \in Keys, NEW d \in Times, NEW t \in Times,
             \/ BeginAccountRecovery(i, d, t) \/ BeginCircuitProbe(i, d, t)
      PROVE  FALSE
  BY <1>4, <1>a DEF BeginAccountRecovery, BeginCircuitProbe
<1>5. ASSUME NEW i \in Keys, MarkHealthy(i)
      PROVE  FALSE
  BY <1>5, <1>a DEF MarkHealthy
<1>6. ASSUME NEW tk \in tickets, NEW t \in Times, NEW allowed \in BOOLEAN,
             CompleteAccountRecovery(tk, allowed, t)
      PROVE  FALSE
  BY <1>6 DEF CompleteAccountRecovery, TypeOK, Owns
<1>7. ASSUME NEW tk \in tickets, NEW t \in Times, NEW retry \in Times,
             CompleteCircuitProbe(tk, retry, t)
      PROVE  FALSE
  BY <1>7 DEF CompleteCircuitProbe, TypeOK, Owns
<1> QED
  BY <1>1, <1>2, <1>3, <1>4, <1>5, <1>6, <1>7 DEF Next

(* Inserting one key never changes whether another one is available.       *)
THEOREM InsertionsAreIsolated == Spec => InsertIsolated
<1>1. TypeOK /\ [Next]_vars =>
        [\A j, k \in Keys :
            j # k /\ states[j].tag = "Absent" /\ states'[j].tag # "Absent" =>
              IsAvailable(states'[k], now) = IsAvailable(states[k], now)]_vars
  BY IsolationStep
<1> QED
  BY <1>1, TypeCorrect, PTL DEF Spec, InsertIsolated

LEMMA OneMoreElement ==
    ASSUME NEW S, NEW T, NEW x, IsFiniteSet(S), T \subseteq S \cup {x}
    PROVE  /\ Cardinality(S) \in Nat
           /\ Cardinality(T) \in Nat
           /\ Cardinality(T) <= Cardinality(S) + 1
<1>1. Cardinality(S) \in Nat
  BY FS_CardinalityType
<1>2. /\ IsFiniteSet(S \cup {x})
      /\ Cardinality(S \cup {x}) = IF x \in S THEN Cardinality(S)
                                   ELSE Cardinality(S) + 1
  BY FS_AddElement
<1>3. IsFiniteSet(T) /\ Cardinality(T) <= Cardinality(S \cup {x})
  BY <1>2, FS_Subset
<1>4. Cardinality(T) \in Nat
  BY <1>3, FS_CardinalityType
<1> QED
  BY <1>1, <1>2, <1>3, <1>4

LEMMA InsertBounded ==
    ASSUME TypeOK, ShardBounded, NEW k \in Keys, NEW s, NEW t, Insert(k, s, t)
    PROVE  ShardBounded'
<1>0. IsFiniteSet(Present) /\ IsFiniteSet(LiveAfterReclaim(t))
  BY HealthConstants, FS_Subset DEF Present, LiveAfterReclaim
<1>1. CASE states' = [states EXCEPT ![k] = s] /\ HasRoom(Cardinality(Present))
  <2>1. Present' \subseteq Present \cup {k}
    BY <1>1 DEF Present, TypeOK
  <2>2. /\ Cardinality(Present) \in Nat
        /\ Cardinality(Present') \in Nat
        /\ Cardinality(Present') <= Cardinality(Present) + 1
    BY <1>0, <2>1, OneMoreElement
  <2>3. Cardinality(Present) < Capacity
    BY <1>1 DEF HasRoom
  <2>4. Cardinality(Present') <= Capacity
    BY <2>2, <2>3, HealthConstants
  <2> QED
    BY <2>4 DEF ShardBounded
<1>2. CASE /\ states' = [Reclaim(t) EXCEPT ![k] = s]
           /\ HasRoom(Cardinality(LiveAfterReclaim(t)))
  <2>1. Present' \subseteq LiveAfterReclaim(t) \cup {k}
    BY <1>2 DEF Present, LiveAfterReclaim, Reclaim
  <2>2. /\ Cardinality(LiveAfterReclaim(t)) \in Nat
        /\ Cardinality(Present') \in Nat
        /\ Cardinality(Present') <= Cardinality(LiveAfterReclaim(t)) + 1
    BY <1>0, <2>1, OneMoreElement
  <2>3. Cardinality(LiveAfterReclaim(t)) < Capacity
    BY <1>2 DEF HasRoom
  <2>4. Cardinality(Present') <= Capacity
    BY <2>2, <2>3, HealthConstants
  <2> QED
    BY <2>4 DEF ShardBounded
<1> QED
  BY <1>1, <1>2 DEF Insert

LEMMA NoInsertBounded ==
    ASSUME TypeOK, ShardBounded,
           \A k \in Keys : states[k].tag = "Absent" => states'[k].tag = "Absent"
    PROVE  ShardBounded'
<1>1. Present' \subseteq Present /\ IsFiniteSet(Present)
  BY HealthConstants, FS_Subset DEF Present
<1>2. /\ Cardinality(Present') <= Cardinality(Present)
      /\ Cardinality(Present') \in Nat /\ Cardinality(Present) \in Nat
  BY <1>1, FS_Subset, FS_CardinalityType
<1> QED
  BY <1>2, HealthConstants DEF ShardBounded

LEMMA BoundPreserved ==
    TypeOK /\ ShardBounded /\ [Next]_vars => ShardBounded'
<1> SUFFICES ASSUME TypeOK, ShardBounded, [Next]_vars PROVE ShardBounded'
  OBVIOUS
<1>a. ASSUME NEW i \in Keys, NEW s, Replace(i, s) PROVE ShardBounded'
  BY <1>a, NoInsertBounded DEF Replace, TypeOK
<1>1. CASE Tick \/ UNCHANGED vars \/ \E tk \in tickets : AbandonTicket(tk)
  BY <1>1, NoInsertBounded DEF Tick, vars, AbandonTicket
<1>2. ASSUME NEW i \in Keys, NEW t \in Times,
             \/ MarkCredentialForbidden(i, t) \/ MarkCredentialUnauthorized(i, t)
      PROVE  ShardBounded'
  BY <1>2, <1>a, InsertBounded
  DEF MarkCredentialForbidden, MarkCredentialUnauthorized
<1>3. ASSUME NEW i \in Keys, NEW d \in Times, NEW t \in Times,
             \/ CoolDownUntil(i, d, t) \/ OpenCircuitUntil(i, d, t)
      PROVE  ShardBounded'
  BY <1>3, <1>a, InsertBounded DEF CoolDownUntil, OpenCircuitUntil
<1>4. ASSUME NEW i \in Keys, NEW d \in Times, NEW t \in Times,
             \/ BeginAccountRecovery(i, d, t) \/ BeginCircuitProbe(i, d, t)
      PROVE  ShardBounded'
  BY <1>4, <1>a DEF BeginAccountRecovery, BeginCircuitProbe
<1>5. ASSUME NEW i \in Keys, MarkHealthy(i)
      PROVE  ShardBounded'
  BY <1>5, <1>a DEF MarkHealthy
<1>6. ASSUME NEW tk \in tickets, NEW t \in Times, NEW allowed \in BOOLEAN,
             CompleteAccountRecovery(tk, allowed, t)
      PROVE  ShardBounded'
  BY <1>6, NoInsertBounded DEF CompleteAccountRecovery, TypeOK, Owns
<1>7. ASSUME NEW tk \in tickets, NEW t \in Times, NEW retry \in Times,
             CompleteCircuitProbe(tk, retry, t)
      PROVE  ShardBounded'
  BY <1>7, NoInsertBounded DEF CompleteCircuitProbe, TypeOK, Owns
<1> QED
  BY <1>1, <1>2, <1>3, <1>4, <1>5, <1>6, <1>7 DEF Next

(* The shard never outgrows its configured capacity.                       *)
THEOREM ShardStaysBounded == Spec => []ShardBounded
<1>1. Init => ShardBounded
  <2> SUFFICES ASSUME Init PROVE ShardBounded
    OBVIOUS
  <2>1. Present = {}
    BY DEF Init, Present, Absent, Entry
  <2> QED
    BY <2>1, FS_EmptySet, HealthConstants DEF ShardBounded
<1> QED
  BY <1>1, BoundPreserved, TypeCorrect, PTL DEF Spec

(* Everything a ticket may and may not do to its key, for every shard:     *)
(* late tickets are powerless, one ticket decides, and only an account's   *)
(* own ticket lifts its 401/403 block.                                     *)
THEOREM TicketsDecideRecovery == Spec => TicketsDecide
BY LateTicketsArePowerless, TicketsAreExclusive, AccountBlocksAreSticky, PTL
   DEF TicketsDecide, AccountBlockSticky
=============================================================================
