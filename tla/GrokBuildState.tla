--------------------------- MODULE GrokBuildState ---------------------------
(***************************************************************************)
(* The durable Grok Build state of provider-grok: the catalog, billing and *)
(* quota snapshots of runtime_state.rs and the cache affinities, response  *)
(* ownership and reasoning replay of continuity_state.rs.  A store object  *)
(* serialises its callers with a mutex; two store objects on one database  *)
(* are ordered by SQLite alone, one statement or transaction at a time.    *)
(***************************************************************************)
EXTENDS Integers, Sequences, FiniteSets

CONSTANTS
    Stores,          \* store objects open on the database
    BuildCredentials,
    EgressPolicies,
    Payloads,        \* reasoning replay plaintexts
    MaxBuildTime,    \* bound: observation and expiry times
    MaxBreaks        \* bound: affinity breaks recorded

VARIABLES
    buildNow,
    profile,    \* billing profile and model catalog of one credential
    window,     \* quota window of one kind of one credential
    syncing,    \* per store: what sync_quota_window has read
    affinity,   \* cache affinity of one key
    breaks,     \* grok_build_affinity_breaks of that key, oldest first
    owner,      \* response ownership of one downstream response
    resolved,   \* credentials resolve_response_ownership ever answered
    replay,     \* reasoning replay of one session
    replaying   \* per store: the write_reasoning_replay in progress

buildVars == <<buildNow, profile, window, syncing, affinity, breaks, owner,
               resolved, replay, replaying>>

BuildTimes == 1 .. MaxBuildTime
Missing == [present |-> FALSE]
NoSync  == [at |-> 0, seen |-> 0]
NoWrite == [step |-> "none"]

BuildInit ==
    /\ buildNow = 1
    /\ profile = [at |-> 0, catalog |-> 0]
    /\ window = 0
    /\ syncing = [s \in Stores |-> NoSync]
    /\ affinity = Missing
    /\ breaks = <<>>
    /\ owner = Missing
    /\ resolved = {}
    /\ replay = Missing
    /\ replaying = [s \in Stores |-> NoWrite]

\* Only one operation of a store runs at a time, except that a replay write
\* gives the mutex back between its statements.
Unlocked(s) == syncing[s] = NoSync

BuildTick ==
    /\ buildNow < MaxBuildTime
    /\ buildNow' = buildNow + 1
    /\ UNCHANGED <<profile, window, syncing, affinity, breaks, owner, resolved,
                   replay, replaying>>

-----------------------------------------------------------------------------
\* sync_model_catalog: profile and catalog are replaced in one transaction,
\* and only by a later billing observation.
SyncCatalog(s, at) ==
    /\ Unlocked(s)
    /\ at > profile.at
    /\ profile' = [at |-> at, catalog |-> at]
    /\ UNCHANGED <<buildNow, window, syncing, affinity, breaks, owner, resolved,
                   replay, replaying>>

\* sync_quota_window reads the stored observation ...
ReadWindow(s, at) ==
    /\ Unlocked(s)
    /\ at > window
    /\ syncing' = [syncing EXCEPT ![s] = [at |-> at, seen |-> window]]
    /\ UNCHANGED <<buildNow, profile, window, affinity, breaks, owner, resolved,
                   replay, replaying>>

\* ... and upserts under the same mutex, but in another statement.
WriteWindow(s) ==
    /\ syncing[s] # NoSync
    /\ window' = syncing[s].at
    /\ syncing' = [syncing EXCEPT ![s] = NoSync]
    /\ UNCHANGED <<buildNow, profile, affinity, breaks, owner, resolved, replay,
                   replaying>>

-----------------------------------------------------------------------------
\* bind_cache_affinity, one transaction: another credential or egress policy
\* than the stored one, expired or not, needs a break record.
\* Fault: an expired affinity counts as absent.
BindAffinityExpired(s, cred, egress, expires, explained) ==
    /\ Unlocked(s)
    /\ expires > buildNow
    /\ LET rebinds == affinity.present /\ affinity.expires > buildNow
                      /\ <<affinity.cred, affinity.egress>> # <<cred, egress>>
       IN  /\ rebinds => explained /\ Len(breaks) < MaxBreaks
           /\ breaks' = IF rebinds
                        THEN Append(breaks, [prior |-> affinity.cred, next |-> cred])
                        ELSE breaks
    /\ affinity' = [present |-> TRUE, cred |-> cred, egress |-> egress, expires |-> expires]
    /\ UNCHANGED <<buildNow, profile, window, syncing, owner, resolved, replay, replaying>>

BindAffinity(s, cred, egress, expires, explained) ==
    /\ Unlocked(s)
    /\ expires > buildNow
    /\ LET rebinds == affinity.present
                      /\ <<affinity.cred, affinity.egress>> # <<cred, egress>>
       IN  /\ rebinds => explained /\ Len(breaks) < MaxBreaks
           /\ breaks' = IF rebinds
                        THEN Append(breaks, [prior |-> affinity.cred, next |-> cred])
                        ELSE breaks
    /\ affinity' = [present |-> TRUE, cred |-> cred, egress |-> egress, expires |-> expires]
    /\ UNCHANGED <<buildNow, profile, window, syncing, owner, resolved, replay, replaying>>

\* record_response_ownership: the first record stays, expired or not.
RecordOwner(s, cred, expires) ==
    /\ Unlocked(s)
    /\ expires > buildNow
    /\ ~owner.present
    /\ owner' = [present |-> TRUE, cred |-> cred, expires |-> expires]
    /\ UNCHANGED <<buildNow, profile, window, syncing, affinity, breaks, resolved,
                   replay, replaying>>

\* resolve_response_ownership for the credential a request selected.
ResolveOwner(s, cred) ==
    /\ Unlocked(s)
    /\ owner.present
    /\ owner.expires > buildNow
    /\ owner.cred = cred
    /\ resolved' = resolved \cup {cred}
    /\ UNCHANGED <<buildNow, profile, window, syncing, affinity, breaks, owner,
                   replay, replaying>>

-----------------------------------------------------------------------------
\* write_reasoning_replay: load and compare, load again for the outcome's
\* label, upsert.
LoadReplay(s, payload, expires) ==
    /\ Unlocked(s)
    /\ replaying[s] = NoWrite
    /\ expires > buildNow
    /\ ~(replay.present /\ replay.expires > buildNow /\ replay.payload = payload)
    /\ replaying' = [replaying EXCEPT ![s] =
         [step |-> "label", payload |-> payload, expires |-> expires]]
    /\ UNCHANGED <<buildNow, profile, window, syncing, affinity, breaks, owner,
                   resolved, replay>>

LabelReplay(s) ==
    /\ Unlocked(s)
    /\ replaying[s].step = "label"
    /\ replaying' = [replaying EXCEPT ![s] = [@ EXCEPT !.step = "store"]]
    /\ UNCHANGED <<buildNow, profile, window, syncing, affinity, breaks, owner,
                   resolved, replay>>

StoreReplay(s) ==
    /\ Unlocked(s)
    /\ replaying[s].step = "store"
    /\ replay' = [present |-> TRUE, payload |-> replaying[s].payload,
                  expires |-> replaying[s].expires]
    /\ replaying' = [replaying EXCEPT ![s] = NoWrite]
    /\ UNCHANGED <<buildNow, profile, window, syncing, affinity, breaks, owner, resolved>>

ClearReplay(s) ==
    /\ Unlocked(s)
    /\ replay.present
    /\ replay' = Missing
    /\ UNCHANGED <<buildNow, profile, window, syncing, affinity, breaks, owner,
                   resolved, replaying>>

-----------------------------------------------------------------------------
\* The four tables do not refer to each other.
SnapshotNext(s) ==
    \/ \E at \in BuildTimes : SyncCatalog(s, at)
    \/ \E at \in BuildTimes : ReadWindow(s, at)
    \/ WriteWindow(s)

AffinityNext(s) ==
    \E c \in BuildCredentials, e \in EgressPolicies, t \in BuildTimes,
       explained \in BOOLEAN : BindAffinity(s, c, e, t, explained)

OwnerNext(s) ==
    \/ \E c \in BuildCredentials, t \in BuildTimes : RecordOwner(s, c, t)
    \/ \E c \in BuildCredentials : ResolveOwner(s, c)

ReplayNext(s) ==
    \/ \E p \in Payloads, t \in BuildTimes : LoadReplay(s, p, t)
    \/ LabelReplay(s)
    \/ StoreReplay(s)
    \/ ClearReplay(s)

BuildNext ==
    \/ BuildTick
    \/ \E s \in Stores :
           SnapshotNext(s) \/ AffinityNext(s) \/ OwnerNext(s) \/ ReplayNext(s)

BuildSpec == BuildInit /\ [][BuildNext]_buildVars

-----------------------------------------------------------------------------
\* The break records explain every move of an affinity: each starts at the
\* credential the one before it moved to, and the last one ends at the
\* credential bound now, over expiries and rebindings.  And a downstream
\* response is resolved to one credential only, however often it is recorded
\* and whenever it expires.
ContinuityHolds ==
    /\ \A i \in 2 .. Len(breaks) : breaks[i].prior = breaks[i - 1].next
    /\ breaks # <<>> => affinity.cred = breaks[Len(breaks)].next
    /\ Cardinality(resolved) <= 1
=============================================================================
