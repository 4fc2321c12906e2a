---------------------------- MODULE GrokAccounts ----------------------------
(***************************************************************************)
(* The native Grok account pool (provider-grok: account_pool.rs), the      *)
(* refresh and quota workers (account_worker.rs) and the reauthentication  *)
(* coordinator (reauth.rs).  Several processes open the same database and  *)
(* run passes over it; every store call is one transaction, and a pass     *)
(* holds nothing between its calls but the jobs it claimed.                *)
(***************************************************************************)
EXTENDS Integers, Sequences

CONSTANTS
    Identities,      \* account identities, hashed by identity_digest
    Batches,         \* import batch ids
    Passes,          \* concurrent callers of run_once
    WorkerLease,     \* claim_lease_ms
    WorkerLimit,     \* maximum_concurrency and the reauth limit
    MaxAccountTime,  \* bound: the clock
    MaxClaimId,      \* bound: claims ever made (random_claim_id)
    MaxIssued        \* bound: credentials ever issued by the upstream

ASSUME AccountConstants ==
    {WorkerLease, WorkerLimit, MaxAccountTime, MaxClaimId, MaxIssued} \subseteq Nat

VARIABLES
    acctNow,      \* the wall clock the callers read observed_at_ms from
    acctBatches,  \* grok_account_import_batches.status
    acctRows,     \* grok_accounts, by identity
    acctReauth,   \* grok_account_reauth_state, by identity
    acctPasses,   \* one run_once per pass
    acctClaims,   \* claims made so far
    acctIssued    \* credentials issued so far

acctVars == <<acctNow, acctBatches, acctRows, acctReauth, acctPasses,
              acctClaims, acctIssued>>

AcctTimes == 0 .. MaxAccountTime
Null      == -1
Never     == AcctTimes \cup {Null}
WorkerKinds == {"refresh", "quota"}

NoClaim  == [kind |-> "none", id |-> 0, exp |-> 0]
NoRow    == [live |-> FALSE]
NoReauth == [queued |-> FALSE]
IdlePass == [kind |-> "idle"]

\* A batch is applied once, so identity and batch together stand for the
\* random account id.  from is the credential that the pass which stored cred
\* had opened, quotaAt the observation the stored quota windows carry.  The
\* failure counts only choose a back-off delay, which is left open.
ImportedRow(batch, entry) ==
    [live |-> TRUE, batch |-> batch, auth |-> entry.auth, enabled |-> entry.enabled,
     cred |-> entry.cred, from |-> entry.cred, rev |-> 0,
     due |-> [k \in WorkerKinds |-> entry.due[k]],
     claim |-> NoClaim, quotaAt |-> Null]

ReauthRow == [queued |-> TRUE, next |-> Null, operator |-> FALSE, claim |-> NoClaim]

\* The entries operators import: a disabled account takes part in no pass.
Entries ==
    [auth : {"active", "reauth_required"}, enabled : {TRUE}, cred : {0},
     due : {[k \in WorkerKinds |-> 0]}]

ClaimFree(claim, at) == claim = NoClaim \/ claim.exp <= at
ClaimHeld(claim, job, at) == claim = job.claim /\ claim.exp > at

-----------------------------------------------------------------------------
AcctInit ==
    /\ acctNow = 0
    /\ acctBatches = [b \in Batches |-> "absent"]
    /\ acctRows = [a \in Identities |-> NoRow]
    /\ acctReauth = [a \in Identities |-> NoReauth]
    /\ acctPasses = [p \in Passes |-> IdlePass]
    /\ acctClaims = 0
    /\ acctIssued = 0

AcctTick ==
    /\ acctNow < MaxAccountTime
    /\ acctNow' = acctNow + 1
    /\ UNCHANGED <<acctBatches, acctRows, acctReauth, acctPasses, acctClaims, acctIssued>>

\* import_one: an identity that is already stored must carry the same
\* credential and metadata.
Unchanged(row, entry) ==
    /\ row.cred = entry.cred
    /\ row.enabled = entry.enabled
    /\ row.auth = entry.auth
    /\ row.due = entry.due

\* import_batch_with_relations: one transaction, refused as a whole.
ImportBatch(b, set, entry) ==
    /\ acctBatches[b] = "absent"
    /\ set # {}
    /\ \A a \in set : acctRows[a].live => Unchanged(acctRows[a], entry)
    /\ acctBatches' = [acctBatches EXCEPT ![b] = "applied"]
    /\ acctRows' = [a \in Identities |->
         IF a \in set /\ ~acctRows[a].live THEN ImportedRow(b, entry) ELSE acctRows[a]]
    /\ acctReauth' = [a \in Identities |->
         IF a \in set /\ entry.auth = "reauth_required" /\ ~acctReauth[a].queued
         THEN ReauthRow ELSE acctReauth[a]]
    /\ UNCHANGED <<acctNow, acctPasses, acctClaims, acctIssued>>

\* rollback_import_batch: the accounts the batch created go, with their reauth
\* rows (ON DELETE CASCADE), whatever claims are out on them.
\* Fault: the reauth rows stay behind.
RollbackBatchOrphans(b) ==
    /\ acctBatches[b] = "applied"
    /\ acctBatches' = [acctBatches EXCEPT ![b] = "rolled_back"]
    /\ acctRows' = [a \in Identities |->
         IF acctRows[a].live /\ acctRows[a].batch = b THEN NoRow ELSE acctRows[a]]
    /\ UNCHANGED <<acctNow, acctReauth, acctPasses, acctClaims, acctIssued>>

RollbackBatch(b) ==
    /\ acctBatches[b] = "applied"
    /\ acctBatches' = [acctBatches EXCEPT ![b] = "rolled_back"]
    /\ LET gone == {a \in Identities : acctRows[a].live /\ acctRows[a].batch = b}
       IN  /\ acctRows' = [a \in Identities |-> IF a \in gone THEN NoRow ELSE acctRows[a]]
           /\ acctReauth' =
                [a \in Identities |-> IF a \in gone THEN NoReauth ELSE acctReauth[a]]
    /\ UNCHANGED <<acctNow, acctPasses, acctClaims, acctIssued>>

-----------------------------------------------------------------------------
\* due_rows: in the order of the due time, ties in the order of the id.
Due(kind, at) ==
    {a \in Identities :
        /\ acctRows[a].live
        /\ acctRows[a].enabled
        /\ acctRows[a].auth = "active"
        /\ acctRows[a].due[kind] # Null
        /\ acctRows[a].due[kind] <= at
        /\ ClaimFree(acctRows[a].claim, at)}

DueOrders(kind, at) ==
    LET dueAt(a) == acctRows[a].due[kind]
    IN  {q \in UNION {[1 .. n -> Due(kind, at)] : n \in 0 .. WorkerLimit} :
            /\ \A i, j \in DOMAIN q : i < j => q[i] # q[j] /\ dueAt(q[i]) <= dueAt(q[j])
            /\ \A a \in Due(kind, at) :
                 \/ \E i \in DOMAIN q : q[i] = a
                 \/ Len(q) = WorkerLimit /\ \A i \in DOMAIN q : dueAt(q[i]) <= dueAt(a)}

Job(a, claim) ==
    [a |-> a, batch |-> acctRows[a].batch, rev |-> acctRows[a].rev,
     cred |-> acctRows[a].cred, claim |-> claim]

\* claim_due_worker_jobs: the whole batch is claimed in one transaction.
ClaimWorkerJobs(p, kind) ==
    /\ acctPasses[p] = IdlePass
    /\ \E q \in DueOrders(kind, acctNow) :
         /\ q # <<>>
         /\ acctClaims + Len(q) <= MaxClaimId
         /\ LET claim(i) == [kind |-> kind, id |-> acctClaims + i,
                             exp |-> acctNow + WorkerLease]
            IN  /\ acctRows' = [a \in Identities |->
                     IF \E i \in DOMAIN q : q[i] = a
                     THEN [acctRows[a] EXCEPT !.claim =
                             claim(CHOOSE i \in DOMAIN q : q[i] = a)]
                     ELSE acctRows[a]]
                /\ acctPasses' = [acctPasses EXCEPT ![p] =
                     [kind |-> kind, at |-> acctNow, step |-> "execute",
                      jobs |-> [i \in DOMAIN q |-> Job(q[i], claim(i))],
                      results |-> <<>>]]
         /\ acctClaims' = acctClaims + Len(q)
    /\ UNCHANGED <<acctNow, acctBatches, acctReauth, acctIssued>>

Results == {"refreshed", "synchronized", "transient", "reauth_required", "panicked"}

\* The executors run in parallel and are all joined before the first result
\* is stored; every refresh that succeeds makes the upstream issue a new
\* credential, the i-th job the i-th of the next numbers.
ExecuteJobs(p) ==
    /\ acctPasses[p].kind \in WorkerKinds
    /\ acctPasses[p].step = "execute"
    /\ \E res \in [DOMAIN acctPasses[p].jobs -> Results] :
         /\ acctIssued' = IF \E i \in DOMAIN res : res[i] = "refreshed"
                          THEN acctIssued + Len(res) ELSE acctIssued
         /\ acctIssued' <= MaxIssued
         /\ acctPasses' = [acctPasses EXCEPT
              ![p].step = "complete",
              ![p].results = [i \in DOMAIN res |-> [tag |-> res[i], cred |-> acctIssued + i]]]
    /\ UNCHANGED <<acctNow, acctBatches, acctRows, acctReauth, acctClaims>>

\* The WHERE clause every completion repeats; fault: the revision alone.
OwnsJobRevision(job, kind, at) ==
    /\ acctRows[job.a].live
    /\ acctRows[job.a].batch = job.batch
    /\ acctRows[job.a].rev = job.rev

OwnsJob(job, kind, at) ==
    /\ acctRows[job.a].live
    /\ acctRows[job.a].batch = job.batch
    /\ acctRows[job.a].rev = job.rev
    /\ acctRows[job.a].claim.kind = kind
    /\ ClaimHeld(acctRows[job.a].claim, job, at)

\* deterministic_refresh_due_at: some time before the expiry, never below 0.
RefreshDueTimes(at) == {t \in AcctTimes : t <= at + 1}
BackoffTimes(at)    == {t \in AcctTimes : t > at} \cup {MaxAccountTime}

CompletedRefresh(row, job, cred, at, due) ==
    [row EXCEPT !.cred = cred, !.from = job.cred, !.rev = job.rev + 1,
                !.auth = "active", !.due["refresh"] = due, !.claim = NoClaim]

CompletedQuota(row, at, due) ==
    [row EXCEPT !.due["quota"] = due, !.claim = NoClaim, !.quotaAt = at]

FailedJob(row, kind, due) ==
    [row EXCEPT !.due[kind] = due, !.claim = NoClaim,
                !.auth = IF due = Null THEN "reauth_required" ELSE row.auth]

\* One iteration of run_once's completion loop.  A panicked job keeps its
\* claim.  A result of the wrong kind or a lost claim ends the pass: the
\* results that follow are dropped.
StoreResult(p, job, res) ==
    LET kind == acctPasses[p].kind
        at   == acctPasses[p].at
        row  == acctRows[job.a]
    IN  \/ /\ res.tag = "refreshed" /\ kind = "refresh"
           /\ OwnsJob(job, kind, at)
           /\ \E due \in RefreshDueTimes(at) :
                acctRows' = [acctRows EXCEPT ![job.a] =
                               CompletedRefresh(row, job, res.cred, at, due)]
           /\ UNCHANGED acctReauth
        \/ /\ res.tag = "synchronized" /\ kind = "quota"
           /\ OwnsJob(job, kind, at)
           /\ \E due \in BackoffTimes(at) :
                acctRows' = [acctRows EXCEPT ![job.a] = CompletedQuota(row, at, due)]
           /\ UNCHANGED acctReauth
        \/ /\ res.tag = "transient"
           /\ OwnsJob(job, kind, at)
           /\ \E due \in BackoffTimes(at) :
                acctRows' = [acctRows EXCEPT ![job.a] = FailedJob(row, kind, due)]
           /\ UNCHANGED acctReauth
        \/ /\ res.tag = "reauth_required"
           /\ OwnsJob(job, kind, at)
           /\ acctRows' = [acctRows EXCEPT ![job.a] = FailedJob(row, kind, Null)]
           /\ acctReauth' = [acctReauth EXCEPT ![job.a] =
                IF @.queued THEN @ ELSE ReauthRow]

Storable(p, job, res) ==
    /\ OwnsJob(job, acctPasses[p].kind, acctPasses[p].at)
    /\ res.tag = "refreshed" => acctPasses[p].kind = "refresh"
    /\ res.tag = "synchronized" => acctPasses[p].kind = "quota"

CompleteJob(p) ==
    /\ acctPasses[p].kind \in WorkerKinds
    /\ acctPasses[p].step = "complete"
    /\ LET job == Head(acctPasses[p].jobs)
           res == Head(acctPasses[p].results)
           on  == IF Len(acctPasses[p].jobs) = 1 THEN IdlePass
                  ELSE [acctPasses[p] EXCEPT !.jobs = Tail(@), !.results = Tail(@)]
       IN  \/ /\ res.tag = "panicked"
              /\ acctPasses' = [acctPasses EXCEPT ![p] = on]
              /\ UNCHANGED <<acctRows, acctReauth>>
           \/ /\ res.tag # "panicked"
              /\ StoreResult(p, job, res)
              /\ acctPasses' = [acctPasses EXCEPT ![p] = on]
           \/ /\ res.tag # "panicked"
              /\ ~Storable(p, job, res)
              /\ acctPasses' = [acctPasses EXCEPT ![p] = IdlePass]
              /\ UNCHANGED <<acctRows, acctReauth>>
    /\ UNCHANGED <<acctNow, acctBatches, acctClaims, acctIssued>>

\* The process dies: its claims stay until they expire.
CrashPass(p) ==
    /\ acctPasses[p] # IdlePass
    /\ acctPasses' = [acctPasses EXCEPT ![p] = IdlePass]
    /\ UNCHANGED <<acctNow, acctBatches, acctRows, acctReauth, acctClaims, acctIssued>>

-----------------------------------------------------------------------------
ReauthDue(at) ==
    {a \in Identities :
        /\ acctRows[a].live
        /\ acctRows[a].enabled
        /\ acctRows[a].auth = "reauth_required"
        /\ LET r == IF acctReauth[a].queued THEN acctReauth[a] ELSE ReauthRow
           IN  ~r.operator /\ r.next <= at /\ ClaimFree(r.claim, at)}

\* claim_due_reauth_job: first queues every account that lacks a row.  The
\* pass goes on with the time it started at until nothing is due or its limit
\* is reached (left).
ClaimReauth(p) ==
    /\ \/ acctPasses[p] = IdlePass
       \/ acctPasses[p].kind = "reauth" /\ acctPasses[p].step = "claim"
    /\ acctClaims < MaxClaimId
    /\ LET at   == IF acctPasses[p] = IdlePass THEN acctNow ELSE acctPasses[p].at
           left == IF acctPasses[p] = IdlePass THEN WorkerLimit ELSE acctPasses[p].left
           queue == [a \in Identities |->
                        IF acctRows[a].live /\ acctRows[a].auth = "reauth_required"
                           /\ ~acctReauth[a].queued
                        THEN ReauthRow ELSE acctReauth[a]]
           claim == [kind |-> "reauth", id |-> acctClaims + 1, exp |-> at + WorkerLease]
       IN  \/ /\ left > 0
              /\ \E a \in ReauthDue(at) :
                   /\ \A o \in ReauthDue(at) : queue[a].next <= queue[o].next
                   /\ acctReauth' = [queue EXCEPT ![a].claim = claim]
                   /\ acctClaims' = acctClaims + 1
                   /\ acctPasses' = [acctPasses EXCEPT ![p] =
                        [kind |-> "reauth", at |-> at, step |-> "attempt",
                         left |-> left - 1, job |-> Job(a, claim)]]
           \/ /\ acctPasses[p] # IdlePass
              /\ left = 0 \/ ReauthDue(at) = {}
              /\ acctReauth' = IF left = 0 THEN acctReauth ELSE queue
              /\ acctPasses' = [acctPasses EXCEPT ![p] = IdlePass]
              /\ UNCHANGED acctClaims
    /\ UNCHANGED <<acctNow, acctBatches, acctRows, acctIssued>>

OwnsReauth(job, at) ==
    acctReauth[job.a].queued /\ ClaimHeld(acctReauth[job.a].claim, job, at)

\* complete_reauth_success: both statements or neither.
ReauthSuccess(p) ==
    /\ acctPasses[p].kind = "reauth" /\ acctPasses[p].step = "attempt"
    /\ acctIssued < MaxIssued
    /\ acctIssued' = acctIssued + 1
    /\ LET job == acctPasses[p].job
           row == acctRows[job.a]
       IN  IF /\ row.live
              /\ row.batch = job.batch
              /\ row.rev = job.rev
              /\ row.auth = "reauth_required"
              /\ OwnsReauth(job, acctPasses[p].at)
           THEN /\ \E due \in BackoffTimes(acctPasses[p].at) :
                     acctRows' = [acctRows EXCEPT ![job.a] =
                       [row EXCEPT !.cred = acctIssued + 1, !.from = job.cred,
                                   !.rev = job.rev + 1, !.auth = "active",
                                   !.due["refresh"] = due]]
                /\ acctReauth' = [acctReauth EXCEPT ![job.a] = NoReauth]
                /\ acctPasses' = [acctPasses EXCEPT ![p].step = "claim"]
           ELSE /\ acctPasses' = [acctPasses EXCEPT ![p] = IdlePass]
                /\ UNCHANGED <<acctRows, acctReauth>>
    /\ UNCHANGED <<acctNow, acctBatches, acctClaims>>

\* complete_reauth_failure: a transient failure backs off, a denial and a
\* strategy that ran out of attempts wait for the operator.
ReauthFailure(p, transient) ==
    /\ acctPasses[p].kind = "reauth" /\ acctPasses[p].step = "attempt"
    /\ LET job == acctPasses[p].job
       IN  IF OwnsReauth(job, acctPasses[p].at)
           THEN /\ \E next \in (IF transient THEN BackoffTimes(acctPasses[p].at)
                                ELSE {Null}) :
                     acctReauth' = [acctReauth EXCEPT ![job.a].next = next,
                       ![job.a].operator = ~transient, ![job.a].claim = NoClaim]
                /\ acctPasses' = [acctPasses EXCEPT ![p].step = "claim"]
           ELSE /\ acctPasses' = [acctPasses EXCEPT ![p] = IdlePass]
                /\ UNCHANGED acctReauth
    /\ UNCHANGED <<acctNow, acctBatches, acctRows, acctClaims, acctIssued>>

\* requeue_reauth
RequeueReauth(a) ==
    /\ acctReauth[a].queued
    /\ acctRows[a].auth = "reauth_required"
    /\ acctReauth[a].operator
    /\ ClaimFree(acctReauth[a].claim, acctNow)
    /\ acctReauth' = [acctReauth EXCEPT ![a].next = acctNow, ![a].operator = FALSE,
                                       ![a].claim = NoClaim]
    /\ UNCHANGED <<acctNow, acctBatches, acctRows, acctPasses, acctClaims, acctIssued>>

-----------------------------------------------------------------------------
AcctNext ==
    \/ AcctTick
    \/ \E b \in Batches, set \in SUBSET Identities, e \in Entries : ImportBatch(b, set, e)
    \/ \E b \in Batches : RollbackBatch(b)
    \/ \E p \in Passes, kind \in WorkerKinds : ClaimWorkerJobs(p, kind)
    \/ \E p \in Passes : ExecuteJobs(p)
    \/ \E p \in Passes : CompleteJob(p)
    \/ \E p \in Passes : CrashPass(p)
    \/ \E p \in Passes : ClaimReauth(p)
    \/ \E p \in Passes : ReauthSuccess(p)
    \/ \E p \in Passes, transient \in BOOLEAN : ReauthFailure(p, transient)
    \/ \E a \in Identities : RequeueReauth(a)

AcctSpec == AcctInit /\ [][AcctNext]_acctVars

-----------------------------------------------------------------------------
\* A job whose claim was lost (it expired and another pass took the account,
\* or the batch was rolled back and imported again) changes nothing: the
\* credential a pass stores replaces the one it had opened, never a newer one,
\* and quota windows never give way to an older observation.
LateJobPowerless ==
    [][\A a \in Identities :
         (acctRows[a].live /\ acctRows'[a].live /\ acctRows'[a].batch = acctRows[a].batch) =>
            /\ acctRows'[a].cred # acctRows[a].cred => acctRows'[a].from = acctRows[a].cred
            /\ acctRows'[a].quotaAt >= acctRows[a].quotaAt]_acctVars

\* No interleaving of imports, rollbacks, workers and reauthentication strands
\* an account: an active one always has its next refresh scheduled, and the
\* reauth queue holds exactly the accounts that need reauthentication.
NoAccountStranded ==
    \A a \in Identities :
        /\ (acctRows[a].live /\ acctRows[a].auth = "active")
               => acctRows[a].due["refresh"] # Null
        /\ acctReauth[a].queued
               <=> (acctRows[a].live /\ acctRows[a].auth = "reauth_required")

-----------------------------------------------------------------------------
(***************************************************************************)
(* The OAuth device-code flow of Grok Build (provider-grok: oauth.rs):     *)
(* GrokBuildOAuthFlow::start_device_authorization and the polls of one     *)
(* GrokBuildDevicePoller.  Times are in poll-interval units.               *)
(***************************************************************************)

CONSTANTS
    DeviceLifetimes,  \* expires_in values the upstream answers with
    DeviceIntervals,  \* interval values
    SlowDown,         \* DEVICE_SLOW_DOWN_SECONDS
    MaxDeviceTime     \* bound: the clock

VARIABLES
    deviceNow,
    poller,    \* GrokBuildDevicePoller, or unstarted
    polled     \* when the last answered poll was sent, and the interval then due

deviceVars == <<deviceNow, poller, polled>>

\* parse_token_result: the answers that are understood.  Any other status,
\* field or credential shape is an error, as is a transport failure.
TokenResult == {"granted", "pending", "slow_down", "denied", "expired", "invalid"}

DeviceInit ==
    /\ deviceNow = 0
    /\ poller = [started |-> FALSE]
    /\ polled = [at |-> 0, interval |-> 0]

DeviceTick ==
    /\ deviceNow < MaxDeviceTime
    /\ deviceNow' = deviceNow + 1
    /\ UNCHANGED <<poller, polled>>

\* start_device_authorization and GrokBuildDevicePoller::new: the first poll
\* waits one interval too.
StartDevice(lifetime, interval) ==
    /\ ~poller.started
    /\ poller' = [started |-> TRUE, interval |-> interval, expires |-> deviceNow + lifetime,
                  next |-> deviceNow + interval, completed |-> FALSE, granted |-> FALSE]
    /\ polled' = [at |-> deviceNow, interval |-> interval]
    /\ UNCHANGED deviceNow

\* schedule_after
Scheduled(interval) ==
    [poller EXCEPT !.interval = interval, !.next = deviceNow + interval]

\* Fault: slow_down waits the old interval once more.
AnsweredCareless(result) ==
    CASE result = "granted" -> [poller EXCEPT !.completed = TRUE, !.granted = TRUE]
      [] result \in {"denied", "expired"} -> [poller EXCEPT !.completed = TRUE]
      [] result = "pending" -> Scheduled(poller.interval)
      [] result = "slow_down" -> [poller EXCEPT !.interval = @ + SlowDown,
                                                !.next = deviceNow + poller.interval]
      [] result = "invalid" -> poller

\* The poller after an answer.  An error leaves it as it was: the poll may be
\* repeated at once.
Answered(result) ==
    CASE result = "granted" -> [poller EXCEPT !.completed = TRUE, !.granted = TRUE]
      [] result \in {"denied", "expired"} -> [poller EXCEPT !.completed = TRUE]
      [] result = "pending" -> Scheduled(poller.interval)
      [] result = "slow_down" -> Scheduled(poller.interval + SlowDown)
      [] result = "invalid" -> poller

\* poll: an expired authorization completes without a request, an early poll
\* is refused.
PollExpired ==
    /\ poller.started
    /\ ~poller.completed
    /\ deviceNow >= poller.expires
    /\ poller' = [poller EXCEPT !.completed = TRUE]
    /\ UNCHANGED <<deviceNow, polled>>

PollDevice(result) ==
    /\ poller.started
    /\ ~poller.completed
    /\ deviceNow < poller.expires
    /\ deviceNow >= poller.next
    /\ poller' = Answered(result)
    /\ polled' = IF result = "invalid" THEN polled
                 ELSE [at |-> deviceNow, interval |-> poller'.interval]
    /\ UNCHANGED deviceNow

DeviceNext ==
    \/ DeviceTick
    \/ \E lifetime \in DeviceLifetimes, interval \in DeviceIntervals :
         StartDevice(lifetime, interval)
    \/ PollExpired
    \/ \E result \in TokenResult : PollDevice(result)

DeviceSpec == DeviceInit /\ [][DeviceNext]_deviceVars

-----------------------------------------------------------------------------
\* A poll is sent only when the interval the upstream last asked for has
\* passed since its last answer, slow_down answers added up, and never once
\* the authorization expired or the flow completed.
PollsRespectUpstream ==
    [][polled' # polled /\ poller.started =>
         /\ deviceNow >= polled.at + polled.interval
         /\ deviceNow < poller.expires
         /\ ~poller.completed]_deviceVars
=============================================================================
