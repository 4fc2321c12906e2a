--------------------------- MODULE CredentialPool ---------------------------
(***************************************************************************)
(* gateway-upstream's EndpointCredentialPool: requests scan precompiled    *)
(* priority tiers from an atomic cursor, ask a caller-supplied predicate   *)
(* about each credential, and reserve capacity with a compare-exchange     *)
(* loop.  Every step below is one atomic access to shared memory.          *)
(*                                                                         *)
(* The predicate (runtime health, quota, expiry, request exclusions) reads *)
(* state this module does not own; eligible is its current answer and may  *)
(* change between any two steps.                                           *)
(***************************************************************************)
EXTENDS Integers, FiniteSets, Sequences

CONSTANTS
    Creds,     \* the pool's credentials
    Procs,     \* the requests that share the pool
    Limit,     \* maximum_concurrency of each credential
    Schedule,  \* slot_indexes of each tier, best tier first
    Word,      \* 2^w for the w bits of usize: the range of a cursor
    NoCred     \* a request without a lease

ASSUME PoolConstants ==
    /\ IsFiniteSet(Procs)
    /\ Limit \in [Creds -> Nat \ {0}]
    /\ NoCred \notin Creds
    /\ Word \in Nat \ {0}
    /\ Schedule \in Seq(Seq(Creds) \ {<<>>})
    /\ Len(Schedule) > 0

VARIABLES
    active,    \* credential -> active_leases
    cursor,    \* tier -> its cursor
    eligible,  \* the credentials the predicate accepts at this instant
    pc,        \* request -> where it is in try_lease_slots
    tier,      \* request -> the tier it scans
    start,     \* request -> the cursor value it drew
    offset,    \* request -> the slot offset it examines
    seen,      \* request -> the lease count its next exchange expects
    lease,     \* request -> its leased credential or NoCred
    refused    \* history: credentials this scan found unusable

poolVars == <<active, cursor, eligible, pc, tier, start, offset, seen, lease, refused>>

-----------------------------------------------------------------------------
Tiers == 1 .. Len(Schedule)
Slots(i) == Len(Schedule[i])

\* start.wrapping_add(offset) % slot_indexes.len()
SlotIndex(s, o, n) == ((s + o) % Word) % n

Candidate(p) ==
    Schedule[tier[p]][SlotIndex(start[p], offset[p], Slots(tier[p])) + 1]

PoolInit ==
    /\ active = [c \in Creds |-> 0]
    /\ cursor = [i \in Tiers |-> 0]
    /\ eligible \in SUBSET Creds
    /\ pc = [p \in Procs |-> "idle"]
    /\ tier = [p \in Procs |-> 1]
    /\ start = [p \in Procs |-> 0]
    /\ offset = [p \in Procs |-> 0]
    /\ seen = [p \in Procs |-> 0]
    /\ lease = [p \in Procs |-> NoCred]
    /\ refused = [p \in Procs |-> {}]

\* cursor.fetch_add(1): every request draws a start of its own.
DrawStart(p, i) ==
    /\ start' = [start EXCEPT ![p] = cursor[i]]
    /\ cursor' = [cursor EXCEPT ![i] = (@ + 1) % Word]
    /\ tier' = [tier EXCEPT ![p] = i]
    /\ offset' = [offset EXCEPT ![p] = 0]
    /\ pc' = [pc EXCEPT ![p] = "slot"]

TryLease(p) ==
    /\ pc[p] = "idle"
    /\ DrawStart(p, 1)
    /\ UNCHANGED <<active, eligible, seen, lease, refused>>

NextTier(p) ==
    /\ pc[p] = "tier"
    /\ tier[p] < Len(Schedule)
    /\ DrawStart(p, tier[p] + 1)
    /\ UNCHANGED <<active, eligible, seen, lease, refused>>

\* Every tier is exhausted: no lease is currently available.
ReturnNone(p) ==
    /\ pc[p] = "tier"
    /\ tier[p] = Len(Schedule)
    /\ pc' = [pc EXCEPT ![p] = "idle"]
    /\ tier' = [tier EXCEPT ![p] = 1]
    /\ start' = [start EXCEPT ![p] = 0]
    /\ offset' = [offset EXCEPT ![p] = 0]
    /\ refused' = [refused EXCEPT ![p] = {}]
    /\ UNCHANGED <<active, cursor, eligible, seen, lease>>

\* Fault: the scan ends before its last slot.
SkipShort(p) ==
    /\ offset' = [offset EXCEPT ![p] = @ + 1]
    /\ pc' = [pc EXCEPT ![p] =
                  IF offset[p] + 2 < Slots(tier[p]) THEN "slot" ELSE "tier"]
    /\ refused' = [refused EXCEPT ![p] = @ \cup {Candidate(p)}]

\* The examined credential is passed over; on to the next slot or tier.
Skip(p) ==
    /\ offset' = [offset EXCEPT ![p] = @ + 1]
    /\ pc' = [pc EXCEPT ![p] =
                  IF offset[p] + 1 < Slots(tier[p]) THEN "slot" ELSE "tier"]
    /\ refused' = [refused EXCEPT ![p] = @ \cup {Candidate(p)}]

CheckEligible(p) ==
    /\ pc[p] = "slot"
    /\ \/ /\ Candidate(p) \notin eligible
          /\ Skip(p)
       \/ /\ Candidate(p) \in eligible
          /\ pc' = [pc EXCEPT ![p] = "load"]
          /\ UNCHANGED <<offset, refused>>
    /\ UNCHANGED <<active, cursor, eligible, tier, start, seen, lease>>

\* Go round the compare-exchange loop with the observed count n.
Observe(p, n) ==
    \/ /\ n >= Limit[Candidate(p)]
       /\ Skip(p)
       /\ UNCHANGED seen
    \/ /\ n < Limit[Candidate(p)]
       /\ seen' = [seen EXCEPT ![p] = n]
       /\ pc' = [pc EXCEPT ![p] = "exchange"]
       /\ UNCHANGED <<offset, refused>>

TryAcquire(p) ==
    /\ pc[p] = "load"
    /\ Observe(p, active[Candidate(p)])
    /\ UNCHANGED <<active, cursor, eligible, tier, start, lease>>

\* Fault: the count is bumped with fetch_add after the check.
ExchangeOkFetchAdd(p) ==
    /\ pc[p] = "exchange"
    /\ active' = [active EXCEPT ![Candidate(p)] = @ + 1]
    /\ lease' = [lease EXCEPT ![p] = Candidate(p)]
    /\ pc' = [pc EXCEPT ![p] = "leased"]
    /\ seen' = [seen EXCEPT ![p] = 0]
    /\ UNCHANGED <<cursor, eligible, tier, start, offset, refused>>

ExchangeOk(p) ==
    /\ pc[p] = "exchange"
    /\ active[Candidate(p)] = seen[p]
    /\ active' = [active EXCEPT ![Candidate(p)] = seen[p] + 1]
    /\ lease' = [lease EXCEPT ![p] = Candidate(p)]
    /\ pc' = [pc EXCEPT ![p] = "leased"]
    /\ seen' = [seen EXCEPT ![p] = 0]
    /\ UNCHANGED <<cursor, eligible, tier, start, offset, refused>>

\* compare_exchange_weak may fail although the count is the expected one.
ExchangeErr(p) ==
    /\ pc[p] = "exchange"
    /\ Observe(p, active[Candidate(p)])
    /\ UNCHANGED <<active, cursor, eligible, tier, start, lease>>

\* Drop of the lease: at the end of the request, or at any point it is cancelled.
ReleaseLease(p) ==
    /\ pc[p] = "leased"
    /\ active' = [active EXCEPT ![lease[p]] = @ - 1]
    /\ lease' = [lease EXCEPT ![p] = NoCred]
    /\ pc' = [pc EXCEPT ![p] = "idle"]
    /\ tier' = [tier EXCEPT ![p] = 1]
    /\ start' = [start EXCEPT ![p] = 0]
    /\ offset' = [offset EXCEPT ![p] = 0]
    /\ refused' = [refused EXCEPT ![p] = {}]
    /\ UNCHANGED <<cursor, eligible, seen>>

PredicateChanges(c) ==
    /\ eligible' = IF c \in eligible THEN eligible \ {c} ELSE eligible \cup {c}
    /\ UNCHANGED <<active, cursor, pc, tier, start, offset, seen, lease, refused>>

PoolNext ==
    \/ \E p \in Procs :
          \/ TryLease(p) \/ NextTier(p) \/ ReturnNone(p)
          \/ CheckEligible(p) \/ TryAcquire(p)
          \/ ExchangeOk(p) \/ ExchangeErr(p)
          \/ ReleaseLease(p)
    \/ \E c \in Creds : PredicateChanges(c)

PoolSpec == PoolInit /\ [][PoolNext]_poolVars

-----------------------------------------------------------------------------
PoolTypeOK ==
    /\ active \in [Creds -> Nat]
    /\ cursor \in [Tiers -> 0 .. Word - 1]
    /\ eligible \subseteq Creds
    /\ pc \in [Procs -> {"idle", "tier", "slot", "load", "exchange", "leased"}]
    /\ tier \in [Procs -> Tiers]
    /\ start \in [Procs -> 0 .. Word - 1]
    /\ offset \in [Procs -> Nat]
    /\ seen \in [Procs -> Nat]
    /\ lease \in [Procs -> Creds \cup {NoCred}]
    /\ refused \in [Procs -> SUBSET Creds]

Holders(c) == {p \in Procs : lease[p] = c}

(* Every successful exchange is given back exactly once: active_leases is  *)
(* the number of live leases, so release never meets the zero its          *)
(* debug_assert forbids and capacity never leaks.                          *)
LeasesAccounted == \A c \in Creds : active[c] = Cardinality(Holders(c))

(* Whatever the interleaving of loads, exchanges and drops, a credential   *)
(* never serves more requests at once than its maximum_concurrency.        *)
NeverOverLimit == \A c \in Creds : Cardinality(Holders(c)) <= Limit[c]

CredsBefore(i) ==
    UNION {{Schedule[j][n] : n \in DOMAIN Schedule[j]} : j \in 1 .. i - 1}

(* A worse tier is used, and None returned, only after this very scan      *)
(* found each credential of every better tier ineligible or saturated.     *)
BetterTiersExhausted ==
    \A p \in Procs :
        /\ lease[p] # NoCred => CredsBefore(tier[p]) \subseteq refused[p]
        /\ pc[p] = "tier" => CredsBefore(tier[p] + 1) \subseteq refused[p]

(* The pool implements LeasePool: exchanges are its Acquire, drops its     *)
(* Release, and everything else a request does is invisible.               *)
Abstract == INSTANCE LeasePool
    WITH Creds <- Creds, Procs <- Procs, Limit <- Limit, NoCred <- NoCred,
         lease <- lease
ImplementsLeasePool == Abstract!LeaseSpec

=============================================================================
