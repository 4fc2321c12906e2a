--------------------------- MODULE SharedFlights ----------------------------
(***************************************************************************)
(* ModelCatalogScheduler (crates/gateway-catalog/src/lib.rs): callers that *)
(* ask for the models of one Endpoint/Credential target at the same time   *)
(* share one detached discovery task.  Flights are numbered in the order   *)
(* they are started.  A source that panics aborts the process in the       *)
(* release profile, so a task always comes back from its source or hangs.  *)
(***************************************************************************)
EXTENDS Integers, Sequences, FiniteSets

CONSTANTS
    Callers,
    Targets,
    MaxFlights  \* bound on the discoveries of one behaviour

VARIABLES
    inFlight,  \* target -> its registered flight, 0 if none
    task,      \* flight -> the detached task: its target and where it is
    caller     \* caller -> what it awaits

flightVars == <<inFlight, task, caller>>

Flights == DOMAIN task

FlightInit ==
    /\ inFlight = [t \in Targets |-> 0]
    /\ task = <<>>
    /\ caller = [c \in Callers |-> [pc |-> "idle", flight |-> 0]]

Moved(f, pc) == [task EXCEPT ![f].pc = pc]

\* The critical section of synchronize: join the registered flight or start one.
Synchronize(c, t) ==
    /\ caller[c].pc # "waiting"
    /\ \/ /\ inFlight[t] # 0
          /\ caller' = [caller EXCEPT ![c] = [pc |-> "waiting", flight |-> inFlight[t]]]
          /\ UNCHANGED <<inFlight, task>>
       \/ /\ inFlight[t] = 0
          /\ Len(task) < MaxFlights
          /\ task' = Append(task, [target |-> t, pc |-> "calling"])
          /\ inFlight' = [inFlight EXCEPT ![t] = Len(task) + 1]
          /\ caller' = [caller EXCEPT ![c] = [pc |-> "waiting", flight |-> Len(task) + 1]]

\* source.models() resolves, with models or with an error.
SourceReturns(f) ==
    /\ task[f].pc = "calling"
    /\ task' = Moved(f, "returned")
    /\ UNCHANGED <<inFlight, caller>>

\* Fault: the result is published while the flight can still be joined.
FinishesPublishingFirst(f) ==
    \/ /\ task[f].pc = "returned"
       /\ task' = Moved(f, "published")
       /\ UNCHANGED <<inFlight, caller>>
    \/ /\ task[f].pc = "published"
       /\ inFlight[task[f].target] = f
       /\ inFlight' = [inFlight EXCEPT ![task[f].target] = 0]
       /\ UNCHANGED <<task, caller>>

\* The rest of the detached task: forget the flight, then publish its result.
Finishes(f) ==
    \/ /\ task[f].pc = "returned"
       /\ inFlight' = [t \in Targets |-> IF inFlight[t] = f THEN 0 ELSE inFlight[t]]
       /\ task' = Moved(f, "removed")
       /\ UNCHANGED caller
    \/ /\ task[f].pc = "removed"
       /\ task' = Moved(f, "published")
       /\ UNCHANGED <<inFlight, caller>>

\* wait_for_result: borrow_and_update sees the published value, at once or when changed().
Answered(c) ==
    /\ caller[c].pc = "waiting"
    /\ task[caller[c].flight].pc = "published"
    /\ caller' = [caller EXCEPT ![c] = [pc |-> "answered", flight |-> 0]]
    /\ UNCHANGED <<inFlight, task>>

\* The caller's future is dropped; the detached task is not.
CallerLeaves(c) ==
    /\ caller[c].pc = "waiting"
    /\ caller' = [caller EXCEPT ![c] = [pc |-> "idle", flight |-> 0]]
    /\ UNCHANGED <<inFlight, task>>

FlightNext ==
    \/ \E c \in Callers : \/ \E t \in Targets : Synchronize(c, t)
                          \/ Answered(c)
                          \/ CallerLeaves(c)
    \/ \E f \in Flights : SourceReturns(f) \/ Finishes(f)

\* Tokio polls a task that can go on and a caller that was woken.  Nothing is assumed of
\* the source, and no caller has to stay.
FlightFairness ==
    /\ \A f \in 1 .. MaxFlights : WF_flightVars(f \in Flights /\ Finishes(f))
    /\ \A c \in Callers : WF_flightVars(Answered(c))

FlightSpec == FlightInit /\ [][FlightNext]_flightVars /\ FlightFairness

-----------------------------------------------------------------------------
(* One discovery runs per target, and what callers can join is a discovery *)
(* whose result nobody has seen: the scheduler never serves a result from  *)
(* a cache.  Removing the flight before publishing makes both hold.        *)
SingleFlight ==
    /\ \A f, g \in Flights :
          /\ task[f].pc = "calling" /\ task[g].pc = "calling"
          /\ task[f].target = task[g].target
          => f = g
    /\ \A t \in Targets : inFlight[t] # 0 => task[inFlight[t]].pc # "published"

Awaits(c, pcs) == caller[c].pc = "waiting" /\ task[caller[c].flight].pc \in pcs

(* Every caller, the one that started the discovery and those that joined  *)
(* it at any point of its life, is answered once the source has returned,  *)
(* also when the initiating caller left.                                   *)
FollowersAnswered ==
    \A c \in Callers :
        Awaits(c, {"returned", "removed", "published"}) ~> caller[c].pc # "waiting"

-----------------------------------------------------------------------------
(***************************************************************************)
(* GrokBuildCredentialRefreshCoordinator (provider-grok:                   *)
(* credential_runtime.rs): several gateway processes keep one credential   *)
(* in one durable row.  Inside a process callers share a RefreshSlot       *)
(* (mutex and condition variable), between processes only the revision     *)
(* compare-and-swap orders them.                                           *)
(***************************************************************************)

CONSTANTS
    Processes,      \* gateway processes, each with its own slot
    RefreshCallers, \* calls of refresh_if_expired
    ProcessOf,      \* the process a call runs in
    MaxExpiry       \* bound: expiry times

ASSUME RefreshConstants ==
    /\ ProcessOf \in [RefreshCallers -> Processes]
    /\ MaxExpiry \in Nat

VARIABLES
    stored,   \* the durable row: revision and expires_at_ms
    slots,    \* RefreshSlotState of each process
    refreshes \* each call: where it is and what it knows

refreshVars == <<stored, slots, refreshes>>

IsExpired(version, now) == version.expires <= now

NoVersion == [rev |-> -1, expires |-> -1]

Call(c) == refreshes[c]
Slot(c) == slots[ProcessOf[c]]

Goto(c, pc) == refreshes' = [refreshes EXCEPT ![c].pc = pc]

\* The call returns; version is NoVersion for an error.
Return(c, tag, version) ==
    refreshes' = [refreshes EXCEPT ![c].pc = "done", ![c].answer = tag,
                                   ![c].version = version]

-----------------------------------------------------------------------------
\* Calls carry the time their caller read, so later calls may see an earlier
\* credential as expired.
RefreshInit ==
    /\ stored = [rev |-> 0, expires |-> 0]
    /\ slots = [p \in Processes |-> [refreshing |-> FALSE, generation |-> 0, error |-> FALSE]]
    /\ refreshes \in [RefreshCallers ->
         [pc : {"enter"}, now : 0 .. MaxExpiry - 1, seen : {0}, answer : {"none"},
          version : {NoVersion}]]

\* Loop head with the slot locked: wait for the leader, return the current
\* credential, or become the leader.  The load may fail.
Elect(c) ==
    /\ Call(c).pc = "enter"
    /\ \/ /\ Slot(c).refreshing
          /\ refreshes' = [refreshes EXCEPT ![c].pc = "wait",
                                            ![c].seen = Slot(c).generation]
          /\ UNCHANGED slots
       \/ /\ ~Slot(c).refreshing
          /\ ~IsExpired(stored, Call(c).now)
          /\ Return(c, "current", stored)
          /\ UNCHANGED slots
       \/ /\ ~Slot(c).refreshing
          /\ Return(c, "persistence_error", NoVersion)
          /\ UNCHANGED slots
       \/ /\ ~Slot(c).refreshing
          /\ IsExpired(stored, Call(c).now)
          /\ slots' = [slots EXCEPT ![ProcessOf[c]].refreshing = TRUE,
                                    ![ProcessOf[c]].error = FALSE]
          /\ refreshes' = [refreshes EXCEPT ![c].pc = "refresh", ![c].version = stored]
    /\ UNCHANGED stored

\* wait_timeout returned: the leader is done, or the time is up.
Awake(c) ==
    /\ Call(c).pc = "wait"
    /\ ~Slot(c).refreshing
    /\ IF Slot(c).generation # Call(c).seen /\ Slot(c).error
       THEN Return(c, "leader_error", NoVersion)
       ELSE Goto(c, "reload")
    /\ UNCHANGED <<stored, slots>>

TimeOut(c) ==
    /\ Call(c).pc = "wait"
    /\ Slot(c).refreshing
    /\ Return(c, "timed_out", NoVersion)
    /\ UNCHANGED <<stored, slots>>

\* The slot is unlocked again when a follower loads.
\* Fault: what the leader left is taken without another look at its expiry.
ReloadTrusting(c) ==
    /\ Call(c).pc = "reload"
    /\ Return(c, "current", stored)
    /\ UNCHANGED <<stored, slots>>

Reload(c) ==
    /\ Call(c).pc = "reload"
    /\ \/ ~IsExpired(stored, Call(c).now) /\ Return(c, "current", stored)
       \/ IsExpired(stored, Call(c).now) /\ Goto(c, "enter")
       \/ Return(c, "persistence_error", NoVersion)
    /\ UNCHANGED <<stored, slots>>

-----------------------------------------------------------------------------
\* refresh_once publishes every result, errors included, before it returns.
\* The leader's answer is kept in answer until then.
FinishRefresh(c, tag, version) ==
    refreshes' = [refreshes EXCEPT ![c].pc = "publish", ![c].answer = tag,
                                   ![c].version = version]

\* The OAuth exchange, then the compare-and-swap on the revision the leader
\* loaded; either may fail.  The refreshed credential outlives the caller's
\* own time.
Exchange(c) ==
    /\ Call(c).pc = "refresh"
    /\ \/ Goto(c, "swap")
       \/ FinishRefresh(c, "oauth_error", NoVersion)
    /\ UNCHANGED <<stored, slots>>

Swap(c) ==
    /\ Call(c).pc = "swap"
    /\ \/ /\ stored.rev = Call(c).version.rev
          /\ \E e \in Call(c).now + 1 .. MaxExpiry :
               /\ stored' = [rev |-> stored.rev + 1, expires |-> e]
               /\ FinishRefresh(c, "refreshed", stored')
       \/ /\ stored.rev # Call(c).version.rev
          /\ Goto(c, "superseded")
          /\ UNCHANGED stored
       \/ /\ FinishRefresh(c, "persistence_error", NoVersion)
          /\ UNCHANGED stored
    /\ UNCHANGED slots

Superseded(c) ==
    /\ Call(c).pc = "superseded"
    /\ \/ IsExpired(stored, Call(c).now) /\ FinishRefresh(c, "concurrent_change", NoVersion)
       \/ ~IsExpired(stored, Call(c).now) /\ FinishRefresh(c, "superseded", stored)
       \/ FinishRefresh(c, "persistence_error", NoVersion)
    /\ UNCHANGED <<stored, slots>>

Publish(c) ==
    /\ Call(c).pc = "publish"
    /\ slots' = [slots EXCEPT ![ProcessOf[c]] =
         [refreshing |-> FALSE, generation |-> @.generation + 1,
          error |-> Call(c).version = NoVersion]]
    /\ Goto(c, "done")
    /\ UNCHANGED stored

-----------------------------------------------------------------------------
RefreshStep(c) ==
    Elect(c) \/ Awake(c) \/ Reload(c) \/ Exchange(c) \/ Swap(c) \/ Superseded(c) \/ Publish(c)

RefreshNext == \E c \in RefreshCallers : RefreshStep(c) \/ TimeOut(c)

RefreshFairness == \A c \in RefreshCallers : WF_refreshVars(RefreshStep(c))

RefreshSpec == RefreshInit /\ [][RefreshNext]_refreshVars /\ RefreshFairness

-----------------------------------------------------------------------------
Leading(c) == Call(c).pc \in {"refresh", "swap", "superseded", "publish"}

\* A call that returns a credential returns one that is unexpired at the
\* call's own time and was durably stored, whichever process stored it and
\* however long the call waited.  One process never runs two refreshes of a
\* credential at a time, although the slot is unlocked during the exchange,
\* and no refresh overwrites what another stored.
RefreshesSound ==
    /\ \A c \in RefreshCallers :
         (Call(c).pc = "done" /\ Call(c).version # NoVersion) =>
             /\ ~IsExpired(Call(c).version, Call(c).now)
             /\ Call(c).version.rev <= stored.rev
             /\ Call(c).version.rev = stored.rev => Call(c).version = stored
    /\ \A c, d \in RefreshCallers :
         /\ (c # d /\ Leading(c) /\ Leading(d)) => ProcessOf[c] # ProcessOf[d]
         /\ (c # d /\ {Call(c).answer, Call(d).answer} = {"refreshed"})
                => Call(c).version.rev # Call(d).version.rev

\* Every call returns: a follower whose leader fails, is superseded or leaves
\* an expired credential is elected or answered in turn.  No timeout is needed
\* for it.
RefreshCallersAnswered == \A c \in RefreshCallers : <>(Call(c).pc = "done")
=============================================================================
