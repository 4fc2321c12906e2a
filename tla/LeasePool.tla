------------------------------ MODULE LeasePool ------------------------------
(***************************************************************************)
(* What an Endpoint's credential pool promises its callers: a request      *)
(* holds at most one lease, a lease is granted in one indivisible step,    *)
(* and a credential is never leased to more than its concurrency limit.    *)
(***************************************************************************)
EXTENDS Integers, FiniteSets

CONSTANTS
    Creds,   \* the pool's credentials
    Procs,   \* the requests that share the pool
    Limit,   \* maximum_concurrency of each credential
    NoCred   \* a request without a lease

VARIABLE lease   \* request -> its leased credential or NoCred

Holders(c) == {p \in Procs : lease[p] = c}

LeaseInit == lease = [p \in Procs |-> NoCred]

Acquire(p, c) ==
    /\ lease[p] = NoCred
    /\ Cardinality(Holders(c)) < Limit[c]
    /\ lease' = [lease EXCEPT ![p] = c]

Release(p) ==
    /\ lease[p] # NoCred
    /\ lease' = [lease EXCEPT ![p] = NoCred]

LeaseNext == \E p \in Procs : Release(p) \/ \E c \in Creds : Acquire(p, c)

LeaseSpec == LeaseInit /\ [][LeaseNext]_lease
=============================================================================
