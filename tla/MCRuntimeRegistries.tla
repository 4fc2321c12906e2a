------------------------- MODULE MCRuntimeRegistries -------------------------
(***************************************************************************)
(* What a selection reads and reserves: health, health with its probe      *)
(* metrics, quota, and an Endpoint's credential pool.  A behaviour is one  *)
(* of these while the others keep their initial state.  Health: two        *)
(* bindings and an Endpoint key in a shard with room for two entries.      *)
(* Quota: a shard with room for one of two interchangeable targets.  Pool: *)
(* two requests on two credentials of equal weight, one of which serves    *)
(* both at once, and a spare one in a second tier.                         *)
(***************************************************************************)
EXTENDS RuntimeProbe, RuntimeQuota, CredentialPool, TLC

CONSTANTS e1, b1, b2, q1, q2, a, b, c

VARIABLES
    registry,
    owed    \* history of one run: the keys that owe an explicit recovery

EqualPair == <<<<a, b>>, <<c>>>>
TwoOnFirst == (a :> 2) @@ (b :> 1) @@ (c :> 1)

RegistriesInit ==
    /\ registry \in {"health", "probe", "quota", "pool"}
    /\ Init /\ ProbeInit /\ QuotaInit /\ PoolInit
    /\ registry # "pool" => eligible = {}
    /\ owed = {}

RegistriesNext ==
    /\ \/ registry = "health" /\ Next /\ UNCHANGED <<probeVars, quotaVars, poolVars>>
       \/ registry = "probe" /\ ProbeNext /\ UNCHANGED <<quotaVars, poolVars>>
       \/ registry = "quota" /\ QuotaNext /\ UNCHANGED <<vars, probeVars, poolVars>>
       \/ registry = "pool" /\ PoolNext /\ UNCHANGED <<vars, probeVars, quotaVars>>
    /\ UNCHANGED <<registry, owed>>

RegistriesSpec ==
    RegistriesInit
    /\ [][RegistriesNext]_<<vars, probeVars, quotaVars, poolVars, registry, owed>>

-----------------------------------------------------------------------------
(* The health registry with one more piece of history: the keys that still *)
(* owe an explicit recovery (mark_healthy or a Healthy Circuit probe)      *)
(* because a Circuit was opened on them.                                   *)

OwedInit == RegistriesInit /\ registry = "health"

ClosedExplicitly == {k \in Keys : IsCircuit(k) /\ states'[k].tag = "Absent"}

OwedNext ==
    /\ Next
    /\ owed' = (owed \cup {k \in Keys : IsCircuit(k)'}) \ ClosedExplicitly
    /\ UNCHANGED <<probeVars, quotaVars, poolVars, registry>>

OwedSpec ==
    OwedInit /\ [][OwedNext]_<<vars, probeVars, quotaVars, poolVars, registry, owed>>

(* What BC-HEALTH-001 says of open_circuit_until: a Circuit "rejects       *)
(* selection until explicit mark_healthy".  The code does not keep it:     *)
(* mark_credential_forbidden replaces the Circuit entry by an account      *)
(* block, and an Allowed account recovery then removes the entry.          *)
CircuitRejectsUntilClosed == \A k \in owed : ~IsAvailable(states[k], now)

Symmetry == Permutations({b1, b2}) \cup Permutations({q1, q2})
==============================================================================
