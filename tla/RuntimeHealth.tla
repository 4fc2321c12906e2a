---------------------------- MODULE RuntimeHealth ----------------------------
(***************************************************************************)
(* One shard of gateway-router's RuntimeHealthRegistry: the transient      *)
(* Cooldown, Circuit and account states that keep a key out of ordinary    *)
(* scheduling, and the two kinds of exclusive recovery ticket that let a   *)
(* controller bring it back.                                               *)
(*                                                                         *)
(* Every mutation reads the clock first and takes the shard's write lock   *)
(* afterwards, so an action carries the reading t it decided on: any       *)
(* instant up to now, because a thread may wait for the lock.  A ticket    *)
(* holder reads the clock again only after the ticket was handed out.      *)
(* Calls that return an error or Ok(None) leave the shard as it is and are *)
(* stuttering steps.                                                       *)
(***************************************************************************)
EXTENDS Integers, FiniteSets

CONSTANTS
    Keys,         \* the RuntimeHealthKeys that hash to this shard
    BindingKeys,  \* those that name an exact (Endpoint, Credential) binding
    Capacity,     \* MAX_RUNTIME_HEALTH_ENTRIES_PER_SHARD
    MaxTime,      \* bound on the clock and on every deadline
    MaxProbeId    \* last ticket generation that can be handed out

ASSUME HealthConstants ==
    /\ IsFiniteSet(Keys)
    /\ BindingKeys \subseteq Keys
    /\ Capacity \in Nat \ {0}
    /\ MaxTime \in Nat
    /\ MaxProbeId \in Nat

VARIABLES
    now,            \* the clock
    states,         \* the shard's map; an absent key is Absent
    nextCircuitId,  \* next_circuit_probe_id
    nextAccountId,  \* next_account_recovery_probe_id
    tickets,        \* tickets handed out and not yet consumed
    outdated        \* history: tickets whose key received a newer verdict

vars == <<now, states, nextCircuitId, nextAccountId, tickets, outdated>>

-----------------------------------------------------------------------------
Times == 0 .. MaxTime
Ids   == 0 .. MaxProbeId + 1

Tags == {"Absent", "CoolingDown", "CircuitOpen", "CircuitHalfOpen",
         "AccountForbidden", "CredentialUnauthorized",
         "AccountRecoveryInFlight"}

\* at is until_ms or retry_after_ms; id and exp belong to an owning ticket.
RuntimeHealthState == [tag : Tags, at : Times, id : Ids, exp : Times]

Entry(tag, at, id, exp) == [tag |-> tag, at |-> at, id |-> id, exp |-> exp]

Absent                 == Entry("Absent", 0, 0, 0)
CoolingDown(until)     == Entry("CoolingDown", until, 0, 0)
CircuitOpen(retry)     == Entry("CircuitOpen", retry, 0, 0)
AccountForbidden       == Entry("AccountForbidden", 0, 0, 0)
CredentialUnauthorized == Entry("CredentialUnauthorized", 0, 0, 0)

CircuitTags == {"CircuitOpen", "CircuitHalfOpen"}
AccountTags == {"AccountForbidden", "CredentialUnauthorized",
                "AccountRecoveryInFlight"}

IsCircuit(k) == states[k].tag \in CircuitTags
IsAccountBlocked(k) == states[k].tag \in AccountTags

\* RuntimeHealthState::is_expired_cooldown
IsExpiredCooldown(s, t) == s.tag = "CoolingDown" /\ s.at <= t

\* RuntimeHealthState::availability_at, as far as is_available tells apart.
IsAvailable(s, t) == s.tag = "Absent" \/ IsExpiredCooldown(s, t)

Ticket == [kind : {"circuit", "account"}, key : Keys, id : Ids,
           exp : Times, issued : Times]

MaxOf(a, b) == IF a >= b THEN a ELSE b

Present == {k \in Keys : states[k].tag # "Absent"}

-----------------------------------------------------------------------------
(* ensure_insert_capacity: a full shard first drops its expired Cooldowns  *)
(* and then refuses the insertion if that did not make room; since a shard *)
(* never exceeds its capacity, a refusal dropped nothing.                  *)

HasRoom(n) == n < Capacity

Reclaim(t) ==
    [k \in Keys |-> IF IsExpiredCooldown(states[k], t)
                    THEN Absent ELSE states[k]]

LiveAfterReclaim(t) == {k \in Keys : Reclaim(t)[k].tag # "Absent"}

\* An insertion of s for the absent key k that read the clock at t.
Insert(k, s, t) ==
    /\ states[k].tag = "Absent"
    /\ \/ /\ HasRoom(Cardinality(Present))
          /\ states' = [states EXCEPT ![k] = s]
       \/ /\ ~HasRoom(Cardinality(Present))
          /\ HasRoom(Cardinality(LiveAfterReclaim(t)))
          /\ states' = [Reclaim(t) EXCEPT ![k] = s]

\* A replacement of the present key k's entry.
Replace(k, s) ==
    /\ states[k].tag # "Absent"
    /\ states' = [states EXCEPT ![k] = s]

\* Every ticket for k that was issued before this verdict is out of date.
NewVerdict(k) == outdated' = outdated \cup {tk \in tickets : tk.key = k}

-----------------------------------------------------------------------------
Init ==
    /\ now = 0
    /\ states = [k \in Keys |-> Absent]
    /\ nextCircuitId = 1
    /\ nextAccountId = 1
    /\ tickets = {}
    /\ outdated = {}

Tick ==
    /\ now < MaxTime
    /\ now' = now + 1
    /\ UNCHANGED <<states, nextCircuitId, nextAccountId, tickets, outdated>>

\* Fault: a 403 that arrives during a recovery leaves the ticket in charge.
MarkCredentialForbiddenKeepsTicket(k, t) ==
    /\ k \in BindingKeys
    /\ t \in 0 .. now
    /\ \/ /\ states[k].tag # "AccountRecoveryInFlight"
          /\ Replace(k, AccountForbidden)
       \/ /\ states[k].tag = "AccountRecoveryInFlight"
          /\ UNCHANGED states
       \/ Insert(k, AccountForbidden, t)
    /\ NewVerdict(k)
    /\ UNCHANGED <<now, nextCircuitId, nextAccountId, tickets>>

MarkCredentialForbidden(k, t) ==
    /\ k \in BindingKeys
    /\ t \in 0 .. now
    /\ Replace(k, AccountForbidden) \/ Insert(k, AccountForbidden, t)
    /\ NewVerdict(k)
    /\ UNCHANGED <<now, nextCircuitId, nextAccountId, tickets>>

MarkCredentialUnauthorized(k, t) ==
    /\ k \in BindingKeys
    /\ t \in 0 .. now
    /\ \/ Replace(k, CredentialUnauthorized)
       \/ Insert(k, CredentialUnauthorized, t)
    /\ NewVerdict(k)
    /\ UNCHANGED <<now, nextCircuitId, nextAccountId, tickets>>

BeginAccountRecovery(k, exp, t) ==
    /\ k \in BindingKeys
    /\ t \in 0 .. now
    /\ exp > t
    /\ \/ states[k].tag \in {"AccountForbidden", "CredentialUnauthorized"}
       \/ states[k].tag = "AccountRecoveryInFlight" /\ t >= states[k].exp
    /\ nextAccountId <= MaxProbeId
    /\ nextAccountId' = nextAccountId + 1
    /\ Replace(k, Entry("AccountRecoveryInFlight", 0, nextAccountId, exp))
    /\ NewVerdict(k)
    /\ tickets' = tickets \cup
           {[kind |-> "account", key |-> k, id |-> nextAccountId,
             exp |-> exp, issued |-> t]}
    /\ UNCHANGED <<now, nextCircuitId>>

\* The ticket is the current owner of its key.  The stored deadline is
\* compared as well; the caller still has to be before it.
Owns(tk) ==
    /\ states[tk.key].tag = IF tk.kind = "circuit" THEN "CircuitHalfOpen"
                            ELSE "AccountRecoveryInFlight"
    /\ states[tk.key].id = tk.id
    /\ states[tk.key].exp = tk.exp

\* A ticket is passed by value, so even a stale completion uses it up.
Consume(tk) ==
    /\ tickets' = tickets \ {tk}
    /\ outdated' = outdated \ {tk}

CompleteAccountRecovery(tk, allowed, t) ==
    /\ tk \in tickets
    /\ tk.kind = "account"
    /\ t \in tk.issued .. now
    /\ Consume(tk)
    /\ \/ /\ ~(Owns(tk) /\ t < tk.exp)              \* StaleAccountRecoveryProbe
          /\ UNCHANGED states
       \/ /\ Owns(tk) /\ t < tk.exp
          /\ states' = [states EXCEPT ![tk.key] =
                            IF allowed THEN Absent ELSE AccountForbidden]
    /\ UNCHANGED <<now, nextCircuitId, nextAccountId>>

CoolDownUntil(k, until, t) ==
    /\ t \in 0 .. now
    /\ until > t
    /\ \/ /\ states[k].tag = "CoolingDown"
          /\ Replace(k, CoolingDown(MaxOf(states[k].at, until)))
       \/ Insert(k, CoolingDown(until), t)
    /\ UNCHANGED <<now, nextCircuitId, nextAccountId, tickets, outdated>>

OpenCircuitUntil(k, retry, t) ==
    /\ t \in 0 .. now
    /\ retry > t
    /\ \/ /\ IsCircuit(k)
          /\ Replace(k, CircuitOpen(MaxOf(states[k].at, retry)))
       \/ /\ states[k].tag = "CoolingDown"
          /\ Replace(k, CircuitOpen(retry))
       \/ Insert(k, CircuitOpen(retry), t)
    /\ NewVerdict(k)
    /\ UNCHANGED <<now, nextCircuitId, nextAccountId, tickets>>

MarkHealthy(k) ==
    /\ ~IsAccountBlocked(k)
    /\ Replace(k, Absent)
    /\ NewVerdict(k)
    /\ UNCHANGED <<now, nextCircuitId, nextAccountId, tickets>>

BeginCircuitProbe(k, exp, t) ==
    /\ t \in 0 .. now
    /\ exp > t
    /\ \/ states[k].tag = "CircuitOpen" /\ t >= states[k].at
       \/ states[k].tag = "CircuitHalfOpen" /\ t >= states[k].exp
    /\ nextCircuitId <= MaxProbeId
    /\ nextCircuitId' = nextCircuitId + 1
    /\ Replace(k, Entry("CircuitHalfOpen", states[k].at, nextCircuitId, exp))
    /\ NewVerdict(k)
    /\ tickets' = tickets \cup
           {[kind |-> "circuit", key |-> k, id |-> nextCircuitId,
             exp |-> exp, issued |-> t]}
    /\ UNCHANGED <<now, nextAccountId>>

\* retry = 0 stands for the Healthy outcome, a positive retry for Unhealthy.
\* An Unhealthy outcome whose retry instant has passed is rejected after the
\* ticket was consumed: the Circuit stays half-open until the ticket expires.
CompleteCircuitProbe(tk, retry, t) ==
    /\ tk \in tickets
    /\ tk.kind = "circuit"
    /\ t \in tk.issued .. now
    /\ Consume(tk)
    /\ \/ /\ ~(Owns(tk) /\ t < tk.exp)              \* StaleCircuitProbe
          /\ UNCHANGED states
       \/ /\ Owns(tk) /\ t < tk.exp
          /\ retry = 0
          /\ states' = [states EXCEPT ![tk.key] = Absent]
       \/ /\ Owns(tk) /\ t < tk.exp
          /\ retry # 0 /\ retry <= t                \* DeadlineNotInFuture
          /\ UNCHANGED states
       \/ /\ Owns(tk) /\ t < tk.exp
          /\ retry > t
          /\ states' = [states EXCEPT ![tk.key] = CircuitOpen(retry)]
    /\ UNCHANGED <<now, nextCircuitId, nextAccountId>>

\* A ticket holder that is dropped never reports: the value just disappears.
AbandonTicket(tk) ==
    /\ tk \in tickets
    /\ Consume(tk)
    /\ UNCHANGED <<now, states, nextCircuitId, nextAccountId>>

Next ==
    \/ Tick
    \/ \E k \in Keys, t \in Times :
          \/ MarkCredentialForbidden(k, t)
          \/ MarkCredentialUnauthorized(k, t)
    \/ \E k \in Keys, d \in Times, t \in Times :
          \/ CoolDownUntil(k, d, t)
          \/ OpenCircuitUntil(k, d, t)
          \/ BeginAccountRecovery(k, d, t)
          \/ BeginCircuitProbe(k, d, t)
    \/ \E k \in Keys : MarkHealthy(k)
    \/ \E tk \in tickets, t \in Times :
          \/ \E allowed \in BOOLEAN : CompleteAccountRecovery(tk, allowed, t)
          \/ \E retry \in Times : CompleteCircuitProbe(tk, retry, t)
    \/ \E tk \in tickets : AbandonTicket(tk)

Spec == Init /\ [][Next]_vars

-----------------------------------------------------------------------------
TypeOK ==
    /\ now \in Times
    /\ states \in [Keys -> RuntimeHealthState]
    /\ nextCircuitId \in Ids
    /\ nextAccountId \in Ids
    /\ tickets \subseteq Ticket
    /\ outdated \subseteq tickets

(* A late result is powerless: once a newer verdict reached a ticket's key *)
(* (another 401/403, a reopened Circuit, an explicit recovery, a           *)
(* replacement ticket), complete_account_recovery and                      *)
(* complete_circuit_probe find the ticket stale and change nothing.        *)
LateTicketPowerless == \A tk \in outdated : ~Owns(tk)

(* complete_*_probe is exclusive: of all the tickets still held for a key  *)
(* at most one, of either kind, can still change the key's state.          *)
SoleTicketOwner ==
    \A a, b \in tickets : a.key = b.key /\ Owns(a) /\ Owns(b) => a = b

(* A 401/403 block survives Cooldowns, Circuits, mark_healthy, capacity    *)
(* reclamation and the passing of time: it ends only when the holder of    *)
(* the current account ticket reports back before the ticket's deadline.   *)
AccountBlockKept ==
    \A k \in Keys : IsAccountBlocked(k) /\ ~IsAccountBlocked(k)' =>
        \E tk \in tickets \ tickets' :
            /\ tk.kind = "account"
            /\ tk.key = k
            /\ tk \notin outdated
            /\ tk.id = states[k].id

AccountBlockSticky == [][AccountBlockKept]_vars

(* What ends a block is a ticket, and only the right one: after every step *)
(* the late are powerless and of those held one may decide, and no step    *)
(* lifts a 401/403 verdict but the report of the account's own ticket.     *)
TicketsDecide == [][LateTicketPowerless' /\ SoleTicketOwner' /\ AccountBlockKept]_vars

(* While a key stays in its Circuit states, open_circuit_until and a       *)
(* failed probe only move its earliest-recovery instant forward.           *)
RetryNeverShortens ==
    [][\A k \in Keys : IsCircuit(k) /\ IsCircuit(k)' =>
          states'[k].at >= states[k].at]_vars

(* Making room in a full shard never reopens (nor closes) a neighbour: an  *)
(* insertion leaves the availability of every other key as it was.         *)
InsertIsolated ==
    [][\A j, k \in Keys :
          j # k /\ states[j].tag = "Absent" /\ states'[j].tag # "Absent" =>
              IsAvailable(states'[k], now) = IsAvailable(states[k], now)]_vars

(* The shard never holds more than MAX_RUNTIME_HEALTH_ENTRIES_PER_SHARD    *)
(* keys, whatever order insertions and reclamations come in.               *)
ShardBounded == Cardinality(Present) <= Capacity

=============================================================================
