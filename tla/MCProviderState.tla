--------------------------- MODULE MCProviderState ---------------------------
(***************************************************************************)
(* What lies on either side of a provider exchange: the durable state of   *)
(* the Grok providers (accounts and their workers, the Build continuity    *)
(* stores, the device authorization poller), and the attempts that reach a *)
(* provider with the events they leave behind.  The parts share no state:  *)
(* a behaviour is one of a single part while the others keep their initial *)
(* state.                                                                  *)
(***************************************************************************)
EXTENDS GrokAccounts, GrokBuildState, AttemptDriver, TLC

CONSTANTS r1, r2

VARIABLES
    part,
    toEmit      \* the events the environment still has to emit

\* A request with two attempts on HTTP endpoints beside one with a native one.
TwoRoutes == r1 :> <<"codex", "chat">> @@ r2 :> <<"kiro">>
Buffered == [r \in DriverRequests |-> "buffered"]

\* Two usage events of one request, an identifier the log cannot hold, and a
\* diagnostic beside an ordinary event.
Emissions ==
    {[kind |-> "request", id |-> "q1", payload |-> "a", valid |-> TRUE],
     [kind |-> "usage", id |-> "q1", payload |-> "a", valid |-> TRUE],
     [kind |-> "usage", id |-> "q1", payload |-> "b", valid |-> TRUE],
     [kind |-> "health", id |-> "h1", payload |-> "a", valid |-> FALSE],
     [kind |-> "diagnostic", id |-> "d1", payload |-> "a", valid |-> TRUE]}

Init ==
    /\ part \in {"accounts", "snapshots", "affinity", "owners", "replay", "device",
                 "events", "attempts"}
    /\ AcctInit /\ BuildInit /\ DeviceInit /\ PipelineInit /\ DriverInit
    /\ toEmit = IF part = "events" THEN Emissions ELSE {}

BuildPart ==
    \/ part \in {"affinity", "owners", "replay"} /\ BuildTick
    \/ \E s \in Stores :
           \/ part = "snapshots" /\ SnapshotNext(s)
           \/ part = "affinity" /\ AffinityNext(s)
           \/ part = "owners" /\ OwnerNext(s)
           \/ part = "replay" /\ ReplayNext(s)

Emit(e) ==
    /\ served = "up"
    /\ try_emit(e)
    /\ toEmit' = toEmit \ {e}

EventsPart ==
    \/ part = "events" /\ WriterNext /\ UNCHANGED <<driverVars, toEmit>>
    \/ part = "events" /\ (\E e \in toEmit : Emit(e)) /\ UNCHANGED driverVars
    \/ part = "attempts" /\ (DriverNext \/ WriterWork) /\ UNCHANGED toEmit

Next ==
    /\ \/ /\ \/ part = "accounts" /\ AcctNext /\ UNCHANGED <<buildVars, deviceVars>>
             \/ BuildPart /\ UNCHANGED <<acctVars, deviceVars>>
             \/ part = "device" /\ DeviceNext /\ UNCHANGED <<acctVars, buildVars>>
          /\ UNCHANGED <<pipelineVars, driverVars, toEmit>>
       \/ EventsPart /\ UNCHANGED <<acctVars, buildVars, deviceVars>>
    /\ UNCHANGED part

Spec ==
    Init /\ [][Next]_<<acctVars, buildVars, deviceVars, pipelineVars, driverVars, toEmit, part>>

Symmetry == Permutations(Identities) \cup Permutations(Passes)
==============================================================================
