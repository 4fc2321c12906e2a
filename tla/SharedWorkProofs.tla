-------------------------- MODULE SharedWorkProofs --------------------------
(***************************************************************************)
(* For any number of callers, processes and hops: the discovery flights of *)
(* the catalog scheduler are single, the credential refreshes of several   *)
(* processes are sound, and a call to an upstream stays within its policy  *)
(* and its deadlines.                                                      *)
(***************************************************************************)
EXTENDS Integers, SharedFlights, UpstreamHttp, TLAPS

TaskState == [target : Targets, pc : {"calling", "returned", "removed", "published"}]

(* The registry and the tasks agree: a registered flight is one that has   *)
(* not been removed, and every task that still runs is registered.         *)
FlightInv ==
    /\ task \in Seq(TaskState)
    /\ inFlight \in [Targets -> Nat]
    /\ \A t \in Targets : inFlight[t] # 0 =>
          /\ inFlight[t] \in Flights
          /\ task[inFlight[t]].target = t
          /\ task[inFlight[t]].pc \in {"calling", "returned"}
    /\ \A f \in Flights :
          task[f].pc \in {"calling", "returned"} => inFlight[task[f].target] = f

LEMMA FlightInvInit == FlightInit => FlightInv
BY DEF FlightInit, FlightInv, Flights

LEMMA FlightInvStep == FlightInv /\ [FlightNext]_flightVars => FlightInv'
<1> SUFFICES ASSUME FlightInv, [FlightNext]_flightVars PROVE FlightInv'
  OBVIOUS
<1> USE DEF Flights
<1>0. /\ task \in Seq(TaskState) /\ Len(task) \in Nat /\ DOMAIN task = 1 .. Len(task)
      /\ \A f \in Flights : task[f].target \in Targets
  <2>1. \A f \in Flights : task[f] \in TaskState
    BY DEF FlightInv
  <2> QED
    BY <2>1 DEF FlightInv, TaskState
<1>1. ASSUME NEW c \in Callers, NEW t \in Targets, Synchronize(c, t) PROVE FlightInv'
  <2>1. CASE inFlight[t] # 0
    BY <1>1, <2>1 DEF Synchronize, FlightInv
  <2>2. CASE inFlight[t] = 0
    <3> DEFINE new == [target |-> t, pc |-> "calling"]
               n == Len(task) + 1
    <3>1. task' = Append(task, new) /\ inFlight' = [inFlight EXCEPT ![t] = n]
      BY <1>1, <2>2 DEF Synchronize
    <3>2. new \in TaskState
      BY DEF TaskState
    <3>3. /\ task' \in Seq(TaskState) /\ Len(task') = n /\ DOMAIN task' = 1 .. n
          /\ task'[n] = new /\ \A i \in 1 .. Len(task) : task'[i] = task[i]
      BY <1>0, <3>1, <3>2
    <3>4. \A f \in Flights : task[f].pc \in {"calling", "returned"} => task[f].target # t
      BY <1>0, <2>2 DEF FlightInv
    <3> QED
      BY <1>0, <3>1, <3>3, <3>4 DEF FlightInv
  <2> QED
    BY <2>1, <2>2
<1>2. ASSUME NEW c \in Callers, Answered(c) \/ CallerLeaves(c) PROVE FlightInv'
  BY <1>2 DEF Answered, CallerLeaves, FlightInv
<1>3. ASSUME NEW f \in Flights, NEW pc \in {"returned", "removed", "published"},
             task' = Moved(f, pc)
      PROVE  /\ task' \in Seq(TaskState) /\ DOMAIN task' = DOMAIN task
             /\ \A g \in Flights : /\ task'[g].target = task[g].target
                                   /\ task'[g].pc = IF g = f THEN pc ELSE task[g].pc
  <2>1. task[f] \in TaskState
    BY <1>0
  <2>2. [task[f] EXCEPT !.pc = pc] \in TaskState
    BY <2>1 DEF TaskState
  <2>3. task' = [task EXCEPT ![f] = [task[f] EXCEPT !.pc = pc]]
    BY <1>3 DEF Moved
  <2> QED
    BY <1>0, <2>1, <2>2, <2>3 DEF TaskState
<1>4. ASSUME NEW f \in Flights, SourceReturns(f) PROVE FlightInv'
  <2>1. task[f].pc = "calling" /\ task' = Moved(f, "returned") /\ UNCHANGED inFlight
    BY <1>4 DEF SourceReturns
  <2>2. /\ task' \in Seq(TaskState) /\ DOMAIN task' = DOMAIN task
        /\ \A g \in Flights : /\ task'[g].target = task[g].target
                              /\ task'[g].pc = IF g = f THEN "returned" ELSE task[g].pc
    BY <1>3, <2>1
  <2>11. ASSUME NEW t \in Targets, inFlight'[t] # 0
         PROVE  /\ inFlight'[t] \in DOMAIN task'
                /\ task'[inFlight'[t]].target = t
                /\ task'[inFlight'[t]].pc \in {"calling", "returned"}
    BY <1>0, <2>1, <2>2, <2>11 DEF FlightInv
  <2>12. ASSUME NEW g \in DOMAIN task', task'[g].pc \in {"calling", "returned"}
         PROVE  inFlight'[task'[g].target] = g
    BY <1>0, <2>1, <2>2, <2>12, SMTT(20) DEF FlightInv
  <2> QED
    BY <1>0, <2>1, <2>2, <2>11, <2>12 DEF FlightInv
<1>5. ASSUME NEW f \in Flights, Finishes(f) PROVE FlightInv'
  <2>1. CASE task[f].pc = "returned"
    <3>1. /\ inFlight' = [t \in Targets |-> IF inFlight[t] = f THEN 0 ELSE inFlight[t]]
          /\ task' = Moved(f, "removed")
      BY <1>5, <2>1 DEF Finishes
    <3>2. /\ task' \in Seq(TaskState) /\ DOMAIN task' = DOMAIN task
          /\ \A g \in Flights : /\ task'[g].target = task[g].target
                                /\ task'[g].pc = IF g = f THEN "removed" ELSE task[g].pc
      BY <1>3, <3>1
    <3>11. ASSUME NEW t \in Targets, inFlight'[t] # 0
           PROVE  /\ inFlight'[t] \in DOMAIN task'
                  /\ task'[inFlight'[t]].target = t
                  /\ task'[inFlight'[t]].pc \in {"calling", "returned"}
      BY <1>0, <2>1, <3>1, <3>2, <3>11 DEF FlightInv
    <3>12. ASSUME NEW g \in DOMAIN task', task'[g].pc \in {"calling", "returned"}
           PROVE  inFlight'[task'[g].target] = g
      <4>1. g \in Flights /\ g # f /\ task[g].pc \in {"calling", "returned"}
        BY <3>2, <3>12
      <4>2. inFlight[task[g].target] = g
        BY <4>1 DEF FlightInv
      <4> QED
        BY <1>0, <3>1, <3>2, <4>1, <4>2
    <3>13. inFlight' \in [Targets -> Nat]
      BY <3>1 DEF FlightInv
    <3> QED
      BY <3>2, <3>11, <3>12, <3>13, Zenon DEF FlightInv
  <2>2. CASE task[f].pc = "removed"
    <3>1. UNCHANGED inFlight /\ task' = Moved(f, "published")
      BY <1>5, <2>2 DEF Finishes
    <3>2. /\ task' \in Seq(TaskState) /\ DOMAIN task' = DOMAIN task
          /\ \A g \in Flights : /\ task'[g].target = task[g].target
                                /\ task'[g].pc = IF g = f THEN "published" ELSE task[g].pc
      BY <1>3, <3>1
    <3>11. ASSUME NEW t \in Targets, inFlight'[t] # 0
           PROVE  /\ inFlight'[t] \in DOMAIN task'
                  /\ task'[inFlight'[t]].target = t
                  /\ task'[inFlight'[t]].pc \in {"calling", "returned"}
      BY <1>0, <2>2, <3>1, <3>2, <3>11 DEF FlightInv
    <3>12. ASSUME NEW g \in DOMAIN task', task'[g].pc \in {"calling", "returned"}
           PROVE  inFlight'[task'[g].target] = g
      BY <1>0, <2>2, <3>1, <3>2, <3>12 DEF FlightInv
    <3> QED
      BY <1>0, <2>2, <3>1, <3>2, <3>11, <3>12 DEF FlightInv
  <2> QED
    BY <1>5, <2>1, <2>2 DEF Finishes
<1>6. CASE UNCHANGED flightVars
  BY <1>6 DEF flightVars, FlightInv
<1> QED
  BY <1>1, <1>2, <1>4, <1>5, <1>6 DEF FlightNext

(* For any callers and targets: one discovery runs per target, and what a  *)
(* caller of synchronize can join is one whose result nobody has seen.     *)
THEOREM FlightsAreSingle == FlightSpec => []SingleFlight
<1>1. FlightInv => SingleFlight
  BY DEF FlightInv, SingleFlight, Flights
<1>2. FlightSpec => FlightInit /\ [][FlightNext]_flightVars
  BY DEF FlightSpec
<1> QED
  BY <1>1, <1>2, FlightInvInit, FlightInvStep, PTL

-----------------------------------------------------------------------------
Version == [rev : Int, expires : Int]

Leaders == {"refresh", "swap", "superseded", "publish"}
Settled == {"publish", "done"}

Outcomes ==
    {"none", "current", "refreshed", "superseded", "persistence_error", "leader_error",
     "timed_out", "oauth_error", "concurrent_change"}

CallState ==
    [pc : {"enter", "wait", "reload"} \cup Leaders \cup Settled, now : Nat, seen : Nat,
     answer : Outcomes, version : Version]

(* What one call knows of the durable row: a credential it holds was       *)
(* stored, and is the stored one while the revision has not moved on.      *)
CallInv(q, row) ==
    /\ q \in CallState
    /\ q.pc \notin Settled => q.answer = "none"
    /\ q.version # NoVersion =>
          /\ q.version.rev <= row.rev
          /\ q.version.rev = row.rev => q.version = row
    /\ q.pc \in Settled /\ q.version # NoVersion => ~IsExpired(q.version, q.now)
    /\ q.answer = "refreshed" => q.version # NoVersion

SlotState == [refreshing : BOOLEAN, generation : Nat, error : BOOLEAN]

(* The flag of a slot stands for the one leader of its process.            *)
RefreshInv ==
    /\ stored \in [rev : Nat, expires : Nat]
    /\ slots \in [Processes -> SlotState]
    /\ DOMAIN refreshes = RefreshCallers
    /\ \A c \in RefreshCallers : CallInv(refreshes[c], stored)
    /\ \A c \in RefreshCallers :
          refreshes[c].pc \in Leaders => slots[ProcessOf[c]].refreshing
    /\ \A c, d \in RefreshCallers :
          c # d /\ refreshes[c].pc \in Leaders /\ refreshes[d].pc \in Leaders =>
              ProcessOf[c] # ProcessOf[d]
    /\ \A c, d \in RefreshCallers :
          c # d /\ refreshes[c].answer = "refreshed" /\ refreshes[d].answer = "refreshed" =>
              refreshes[c].version.rev # refreshes[d].version.rev

LEMMA VersionTypes ==
    /\ NoVersion \in Version
    /\ \A v \in [rev : Nat, expires : Nat] : v \in Version /\ v # NoVersion
BY DEF Version, NoVersion

LEMMA RefreshInvInit == RefreshInit => RefreshInv
<1> SUFFICES ASSUME RefreshInit PROVE RefreshInv
  OBVIOUS
<1>1. ASSUME NEW c \in RefreshCallers
      PROVE  /\ CallInv(refreshes[c], stored)
             /\ refreshes[c].pc \notin Leaders /\ refreshes[c].answer # "refreshed"
  <2>1. refreshes[c] \in [pc : {"enter"}, now : 0 .. MaxExpiry - 1, seen : {0},
                          answer : {"none"}, version : {NoVersion}]
    BY DEF RefreshInit
  <2>2. /\ refreshes[c].pc = "enter" /\ refreshes[c].answer = "none"
        /\ refreshes[c].version = NoVersion
    BY <2>1
  <2>3. refreshes[c] \in CallState
    <3>1. 0 .. MaxExpiry - 1 \subseteq Nat
      BY RefreshConstants
    <3> QED
      BY <2>1, <3>1, VersionTypes DEF CallState, Outcomes
  <2> QED
    BY <2>2, <2>3 DEF CallInv, Leaders, Settled
<1> QED
  BY <1>1 DEF RefreshInit, RefreshInv, SlotState

(* A call that moves on by itself, without becoming a leader or storing a  *)
(* credential.                                                             *)
LEMMA CallMoves ==
    ASSUME RefreshInv, NEW c \in RefreshCallers, NEW n, CallInv(n, stored),
           UNCHANGED <<stored, slots>>, refreshes' = [refreshes EXCEPT ![c] = n],
           n.pc \in Leaders => refreshes[c].pc \in Leaders,
           n.answer # "refreshed"
    PROVE  RefreshInv'
BY DEF RefreshInv

LEMMA GotoMoves ==
    ASSUME RefreshInv, NEW c \in RefreshCallers, NEW pc, Goto(c, pc)
    PROVE  refreshes' = [refreshes EXCEPT ![c] = [refreshes[c] EXCEPT !.pc = pc]]
BY DEF RefreshInv, Goto

(* An answer without a credential, or with the stored one if unexpired.    *)
LEMMA AnswerKeepsInv ==
    ASSUME RefreshInv, NEW c \in RefreshCallers, NEW pc \in Settled,
           NEW tag \in Outcomes \ {"refreshed"},
           NEW version \in {NoVersion, stored},
           version = stored => ~IsExpired(stored, refreshes[c].now)
    PROVE  CallInv([refreshes[c] EXCEPT !.pc = pc, !.answer = tag, !.version = version],
                   stored)
<1> DEFINE q == refreshes[c]
           n == [q EXCEPT !.pc = pc, !.answer = tag, !.version = version]
<1>1. q \in CallState /\ version \in Version /\ stored \in [rev : Nat, expires : Nat]
  BY VersionTypes DEF RefreshInv, CallInv
<1>2. n \in CallState
  BY <1>1 DEF CallState, Settled
<1>3. n.pc = pc /\ n.answer = tag /\ n.version = version /\ n.now = q.now
  BY <1>1 DEF CallState
<1> QED
  BY <1>1, <1>2, <1>3 DEF CallInv

LEMMA GotoKeepsInv ==
    ASSUME RefreshInv, NEW c \in RefreshCallers, refreshes[c].pc \notin Settled,
           NEW pc \in {"enter", "wait", "reload", "swap", "superseded"}
    PROVE  /\ CallInv([refreshes[c] EXCEPT !.pc = pc], stored)
           /\ [refreshes[c] EXCEPT !.pc = pc].answer # "refreshed"
           /\ [refreshes[c] EXCEPT !.pc = pc].pc = pc
BY DEF RefreshInv, CallInv, CallState, Settled, Leaders

LEMMA RefreshInvStep == RefreshInv /\ [RefreshNext]_refreshVars => RefreshInv'
<1> SUFFICES ASSUME RefreshInv, [RefreshNext]_refreshVars PROVE RefreshInv'
  OBVIOUS
<1>0. /\ stored \in [rev : Nat, expires : Nat] /\ slots \in [Processes -> SlotState]
      /\ \A c \in RefreshCallers : refreshes[c] \in CallState /\ ProcessOf[c] \in Processes
  BY RefreshConstants DEF RefreshInv, CallInv
<1>ret. ASSUME NEW c \in RefreshCallers, NEW tag \in Outcomes \ {"refreshed"},
               NEW version \in {NoVersion, stored},
               version = stored => ~IsExpired(stored, refreshes[c].now),
               NEW pc \in Settled, pc \in Leaders => refreshes[c].pc \in Leaders,
               UNCHANGED <<stored, slots>>,
               refreshes' = [refreshes EXCEPT ![c] =
                   [refreshes[c] EXCEPT !.pc = pc, !.answer = tag, !.version = version]]
        PROVE  RefreshInv'
  <2> DEFINE n == [refreshes[c] EXCEPT !.pc = pc, !.answer = tag, !.version = version]
  <2>1. CallInv(n, stored)
    BY <1>ret, AnswerKeepsInv
  <2>2. n.answer = tag /\ n.pc = pc
    BY <1>0 DEF CallState
  <2> QED
    BY <1>ret, <2>1, <2>2, CallMoves
<1>err. ASSUME NEW c \in RefreshCallers, NEW tag \in Outcomes \ {"refreshed"},
               UNCHANGED <<stored, slots>>,
               \/ Return(c, tag, NoVersion)
               \/ FinishRefresh(c, tag, NoVersion) /\ refreshes[c].pc \in Leaders
        PROVE  RefreshInv'
  <2>1. NoVersion # stored
    BY <1>0, VersionTypes
  <2>2. CASE Return(c, tag, NoVersion)
    <3>1. refreshes' = [refreshes EXCEPT ![c] = [refreshes[c] EXCEPT
              !.pc = "done", !.answer = tag, !.version = NoVersion]]
      BY <2>2 DEF Return, RefreshInv
    <3>2. "done" \in Settled /\ "done" \notin Leaders
      BY DEF Settled, Leaders
    <3> QED
      BY <1>err, <1>ret, <2>1, <3>1, <3>2
  <2>3. CASE FinishRefresh(c, tag, NoVersion) /\ refreshes[c].pc \in Leaders
    <3>1. refreshes' = [refreshes EXCEPT ![c] = [refreshes[c] EXCEPT
              !.pc = "publish", !.answer = tag, !.version = NoVersion]]
      BY <2>3 DEF FinishRefresh, RefreshInv
    <3>2. "publish" \in Settled
      BY DEF Settled
    <3> QED
      BY <1>err, <1>ret, <2>1, <2>3, <3>1, <3>2
  <2> QED
    BY <1>err, <2>2, <2>3
<1>ok. ASSUME NEW c \in RefreshCallers, NEW tag \in Outcomes \ {"refreshed"},
              UNCHANGED <<stored, slots>>, ~IsExpired(stored, refreshes[c].now),
              \/ Return(c, tag, stored)
              \/ FinishRefresh(c, tag, stored) /\ refreshes[c].pc \in Leaders
       PROVE  RefreshInv'
  <2>1. CASE Return(c, tag, stored)
    <3>1. refreshes' = [refreshes EXCEPT ![c] = [refreshes[c] EXCEPT
              !.pc = "done", !.answer = tag, !.version = stored]]
      BY <2>1 DEF Return, RefreshInv
    <3>2. "done" \in Settled /\ "done" \notin Leaders
      BY DEF Settled, Leaders
    <3> QED
      BY <1>ok, <1>ret, <3>1, <3>2
  <2>2. CASE FinishRefresh(c, tag, stored) /\ refreshes[c].pc \in Leaders
    <3>1. refreshes' = [refreshes EXCEPT ![c] = [refreshes[c] EXCEPT
              !.pc = "publish", !.answer = tag, !.version = stored]]
      BY <2>2 DEF FinishRefresh, RefreshInv
    <3>2. "publish" \in Settled
      BY DEF Settled
    <3> QED
      BY <1>ok, <1>ret, <2>2, <3>1, <3>2
  <2> QED
    BY <1>ok, <2>1, <2>2
<1>goto. ASSUME NEW c \in RefreshCallers, refreshes[c].pc \notin Settled,
                NEW pc \in {"enter", "wait", "reload", "swap", "superseded"},
                pc \in Leaders => refreshes[c].pc \in Leaders,
                UNCHANGED <<stored, slots>>, Goto(c, pc)
         PROVE  RefreshInv'
  <2>1. refreshes' = [refreshes EXCEPT ![c] = [refreshes[c] EXCEPT !.pc = pc]]
    BY <1>goto, GotoMoves
  <2> QED
    BY <1>goto, <2>1, GotoKeepsInv, CallMoves
<1>1. ASSUME NEW c \in RefreshCallers, Elect(c) PROVE RefreshInv'
  <2>0. refreshes[c].pc = "enter" /\ UNCHANGED stored
    BY <1>1 DEF Elect, Call
  <2>1. CASE Slot(c).refreshing
    <3> DEFINE n == [refreshes[c] EXCEPT !.pc = "wait", !.seen = Slot(c).generation]
    <3>1. refreshes' = [refreshes EXCEPT ![c] = n] /\ UNCHANGED slots
      BY <1>1, <2>1 DEF Elect, RefreshInv
    <3>2. n \in CallState /\ n.pc = "wait" /\ n.answer = refreshes[c].answer
          /\ n.version = refreshes[c].version
      BY <1>0 DEF CallState, Slot, SlotState
    <3>3. CallInv(n, stored) /\ n.answer = "none"
      BY <2>0, <3>2 DEF RefreshInv, CallInv, Settled
    <3> QED
      BY <2>0, <3>1, <3>2, <3>3, CallMoves DEF Leaders
  <2>2. CASE UNCHANGED slots /\ ~Slot(c).refreshing
    <3>1. \/ Return(c, "current", stored) /\ ~IsExpired(stored, refreshes[c].now)
          \/ Return(c, "persistence_error", NoVersion)
          \/ slots' = [slots EXCEPT ![ProcessOf[c]].refreshing = TRUE,
                                    ![ProcessOf[c]].error = FALSE]
      BY <1>1, <2>2 DEF Elect, Call
    <3>2. slots' # [slots EXCEPT ![ProcessOf[c]].refreshing = TRUE,
                                 ![ProcessOf[c]].error = FALSE]
      BY <1>0, <2>2 DEF Slot, SlotState
    <3>3. {"current", "persistence_error"} \subseteq Outcomes \ {"refreshed"}
      BY DEF Outcomes
    <3> QED
      BY <1>err, <1>ok, <2>0, <2>2, <3>1, <3>2, <3>3
  <2>3. CASE ~Slot(c).refreshing /\ ~UNCHANGED slots
    <3> DEFINE n == [refreshes[c] EXCEPT !.pc = "refresh", !.version = stored]
               s == [slots[ProcessOf[c]] EXCEPT !.refreshing = TRUE, !.error = FALSE]
    <3>1. /\ refreshes' = [refreshes EXCEPT ![c] = n]
          /\ slots' = [slots EXCEPT ![ProcessOf[c]] = s]
      BY <1>0, <1>1, <2>3 DEF Elect, RefreshInv
    <3>2. s \in SlotState /\ s.refreshing
      BY <1>0 DEF SlotState
    <3>3. n \in CallState /\ n.pc = "refresh" /\ n.answer = refreshes[c].answer
          /\ n.version = stored
      BY <1>0, VersionTypes DEF CallState, Leaders
    <3>4. CallInv(n, stored) /\ n.answer = "none"
      BY <1>0, <2>0, <3>3 DEF RefreshInv, CallInv, Settled
    <3>5. \A d \in RefreshCallers : refreshes[d].pc \in Leaders => ProcessOf[d] # ProcessOf[c]
      BY <2>3 DEF RefreshInv, Slot
    <3> QED
      BY <1>0, <2>0, <3>1, <3>2, <3>3, <3>4, <3>5 DEF RefreshInv
  <2> QED
    BY <2>1, <2>2, <2>3
<1>2. ASSUME NEW c \in RefreshCallers, Awake(c) \/ TimeOut(c) \/ Reload(c) PROVE RefreshInv'
  <2>1. refreshes[c].pc \notin Settled /\ UNCHANGED <<stored, slots>>
    BY <1>2 DEF Awake, TimeOut, Reload, Call, Settled
  <2>2. ASSUME NEW tag \in {"leader_error", "timed_out", "persistence_error"},
               Return(c, tag, NoVersion)
        PROVE  RefreshInv'
    BY <1>err, <2>1, <2>2 DEF Outcomes
  <2>3. CASE Goto(c, "reload") \/ Goto(c, "enter")
    BY <1>goto, <2>1, <2>3 DEF Leaders
  <2>4. CASE ~IsExpired(stored, Call(c).now) /\ Return(c, "current", stored)
    BY <1>ok, <2>1, <2>4 DEF Call, Outcomes
  <2> QED
    BY <1>2, <2>2, <2>3, <2>4 DEF Awake, TimeOut, Reload
<1>3. ASSUME NEW c \in RefreshCallers, Exchange(c) \/ Superseded(c) PROVE RefreshInv'
  <2>1. /\ refreshes[c].pc \notin Settled /\ refreshes[c].pc \in Leaders
        /\ UNCHANGED <<stored, slots>>
    BY <1>3 DEF Exchange, Superseded, Call, Settled, Leaders
  <2>2. CASE Goto(c, "swap")
    BY <1>goto, <2>1, <2>2
  <2>3. ASSUME NEW tag \in {"oauth_error", "concurrent_change", "persistence_error"},
               FinishRefresh(c, tag, NoVersion)
        PROVE  RefreshInv'
    BY <1>err, <2>1, <2>3 DEF Outcomes
  <2>4. CASE ~IsExpired(stored, Call(c).now) /\ FinishRefresh(c, "superseded", stored)
    BY <1>ok, <2>1, <2>4 DEF Call, Outcomes
  <2> QED
    BY <1>3, <2>2, <2>3, <2>4 DEF Exchange, Superseded
<1>4. ASSUME NEW c \in RefreshCallers, Swap(c) PROVE RefreshInv'
  <2>1. refreshes[c].pc = "swap" /\ UNCHANGED slots
    BY <1>4 DEF Swap, Call
  <2>2. CASE Goto(c, "superseded") /\ UNCHANGED stored
    BY <1>goto, <2>1, <2>2 DEF Settled, Leaders
  <2>3. CASE FinishRefresh(c, "persistence_error", NoVersion) /\ UNCHANGED stored
    BY <1>err, <2>1, <2>3 DEF Leaders, Outcomes
  <2>4. ASSUME NEW e \in Call(c).now + 1 .. MaxExpiry,
               stored' = [rev |-> stored.rev + 1, expires |-> e],
               FinishRefresh(c, "refreshed", stored')
        PROVE  RefreshInv'
    <3> DEFINE q == refreshes[c]
               row == [rev |-> stored.rev + 1, expires |-> e]
               n == [q EXCEPT !.pc = "publish", !.answer = "refreshed", !.version = row]
    <3>1. q \in CallState /\ q.now \in Nat /\ e \in Nat /\ e > q.now
      BY <1>0, <2>4, RefreshConstants DEF Call, CallState
    <3>2. row \in [rev : Nat, expires : Nat] /\ row \in Version /\ row # NoVersion
      BY <1>0, <3>1 DEF Version, NoVersion
    <3>3. n \in CallState /\ n.pc = "publish" /\ n.answer = "refreshed"
          /\ n.version = row /\ n.now = q.now
      <4>1. ASSUME NEW v \in Version,
                   NEW m, m = [q EXCEPT !.pc = "publish", !.answer = "refreshed",
                                        !.version = v]
            PROVE  /\ m \in CallState /\ m.pc = "publish" /\ m.answer = "refreshed"
                   /\ m.version = v /\ m.now = q.now
        BY <3>1, <4>1 DEF CallState, Settled, Outcomes
      <4>2. row \in Version
        BY <3>2
      <4> HIDE DEF row
      <4> QED
        BY <4>1, <4>2
    <3>4. CallInv(n, row)
      BY <3>1, <3>2, <3>3 DEF CallInv, IsExpired, Settled
    <3>5. refreshes' = [refreshes EXCEPT ![c] = n] /\ stored' = row
      BY <2>4 DEF FinishRefresh, RefreshInv
    <3>6. \A d \in RefreshCallers : CallInv(refreshes[d], row)
      BY <1>0, <3>2 DEF RefreshInv, CallInv, CallState, Version
    <3>7. \A d \in RefreshCallers :
            refreshes[d].answer = "refreshed" => refreshes[d].version.rev # row.rev
      BY <1>0 DEF RefreshInv, CallInv, CallState, Version
    <3> QED
      BY <2>1, <3>2, <3>3, <3>4, <3>5, <3>6, <3>7 DEF RefreshInv, Leaders
  <2> QED
    BY <1>4, <2>2, <2>3, <2>4 DEF Swap
<1>5. ASSUME NEW c \in RefreshCallers, Publish(c) PROVE RefreshInv'
  <2> DEFINE n == [refreshes[c] EXCEPT !.pc = "done"]
             s == [refreshing |-> FALSE, generation |-> slots[ProcessOf[c]].generation + 1,
                   error |-> refreshes[c].version = NoVersion]
  <2>1. /\ refreshes[c].pc = "publish" /\ UNCHANGED stored
        /\ slots' = [slots EXCEPT ![ProcessOf[c]] = s]
    BY <1>5 DEF Publish, Call
  <2>2. refreshes' = [refreshes EXCEPT ![c] = n]
    BY <1>5, GotoMoves DEF Publish
  <2>3. s \in SlotState
    BY <1>0 DEF SlotState
  <2>4. n \in CallState /\ n.pc = "done" /\ n.answer = refreshes[c].answer
        /\ n.version = refreshes[c].version /\ n.now = refreshes[c].now
    BY <1>0 DEF CallState, Settled
  <2>5. CallInv(n, stored)
    BY <2>1, <2>4 DEF RefreshInv, CallInv, Settled
  <2>6. \A d \in RefreshCallers :
          d # c /\ refreshes[d].pc \in Leaders => ProcessOf[d] # ProcessOf[c]
    BY <2>1 DEF RefreshInv, Leaders
  <2> QED
    BY <1>0, <2>1, <2>2, <2>3, <2>4, <2>5, <2>6 DEF RefreshInv, Leaders
<1>6. CASE UNCHANGED refreshVars
  BY <1>6 DEF refreshVars, RefreshInv
<1> QED
  BY <1>1, <1>2, <1>3, <1>4, <1>5, <1>6 DEF RefreshNext, RefreshStep

(* For any processes and calls: what a call returns was stored and is      *)
(* unexpired at its own time, a process never refreshes twice at a time,   *)
(* and two refreshes never store under one revision.                       *)
THEOREM RefreshesAreSound == RefreshSpec => []RefreshesSound
<1>1. RefreshInv => RefreshesSound
  <2> SUFFICES ASSUME RefreshInv PROVE RefreshesSound
    OBVIOUS
  <2>1. ASSUME NEW c \in RefreshCallers, Call(c).pc = "done", Call(c).version # NoVersion
        PROVE  /\ ~IsExpired(Call(c).version, Call(c).now)
               /\ Call(c).version.rev <= stored.rev
               /\ Call(c).version.rev = stored.rev => Call(c).version = stored
    BY <2>1 DEF RefreshInv, CallInv, Call, Settled
  <2>2. ASSUME NEW c \in RefreshCallers, NEW d \in RefreshCallers, c # d
        PROVE  /\ Leading(c) /\ Leading(d) => ProcessOf[c] # ProcessOf[d]
               /\ {Call(c).answer, Call(d).answer} = {"refreshed"} =>
                      Call(c).version.rev # Call(d).version.rev
    BY <2>2 DEF RefreshInv, Leading, Leaders, Call
  <2> QED
    BY <2>1, <2>2 DEF RefreshesSound
<1>2. RefreshSpec => RefreshInit /\ [][RefreshNext]_refreshVars
  BY DEF RefreshSpec
<1> QED
  BY <1>1, <1>2, RefreshInvInit, RefreshInvStep, PTL

-----------------------------------------------------------------------------
(* Calls to an upstream.                                                   *)

(* A longer common prefix contains every shorter one.                      *)
LEMMA MaskWeakens ==
    ASSUME NEW a \in Addresses, NEW b \in Addresses, NEW p \in 0 .. Width,
           NEW q \in 0 .. Width, q <= p, Mask(a, p) = Mask(b, p)
    PROVE  Mask(a, q) = Mask(b, q)
<1>1. ASSUME NEW i \in 1 .. Width, i <= q PROVE a[i] = b[i]
  <2>1. i <= p
    BY <1>1, HttpConstants
  <2>2. Mask(a, p)[i] = a[i] /\ Mask(b, p)[i] = b[i]
    BY <2>1 DEF Mask
  <2> QED
    BY <2>2
<1> QED
  BY <1>1 DEF Mask

LEMMA MaskIdempotent ==
    ASSUME NEW a \in Addresses, NEW p \in 0 .. Width
    PROVE  Mask(a, p) \in Addresses /\ Mask(Mask(a, p), p) = Mask(a, p)
BY DEF Mask, Addresses

(* What the policy's checks admit is what an operator means by it.         *)
LEMMA ValidatedIsReachable ==
    ASSUME NEW policy \in EgressPolicies, NEW a \in Addresses, ValidateAddress(policy, a)
    PROVE  Reachable(policy, a)
<1>1. ASSUME NEW c \in policy.cidrs
      PROVE  c[1] \in Addresses /\ c[2] \in 0 .. Width /\ Mask(c[1], c[2]) = c[1]
  BY HttpConstants, MaskIdempotent DEF EgressCidr
<1>2. ASSUME NEW c \in policy.cidrs, Contains(c, a) PROVE a \in Network(c)
  BY <1>1, <1>2 DEF Contains, Network
<1>3. ASSUME NEW net \in DefaultDenied, a \in Network(net) PROVE IsDefaultDenied(a)
  BY <1>3 DEF IsDefaultDenied, MatchesPrefix, Network
<1>4. ASSUME NEW c \in policy.cidrs, NEW net \in Exceptionable,
             c[2] >= net[2], MatchesPrefix(c[1], net)
      PROVE  Network(c) \subseteq Network(net)
  <2> SUFFICES ASSUME NEW x \in Network(c) PROVE x \in Network(net)
    OBVIOUS
  <2>1. net[1] \in Addresses /\ net[2] \in 0 .. Width
    BY HttpConstants
  <2>2. x \in Addresses /\ Mask(x, c[2]) = Mask(c[1], c[2])
    BY DEF Network
  <2>3. net[2] <= c[2]
    BY <1>1, <1>4, <2>1, HttpConstants
  <2>4. Mask(x, net[2]) = Mask(c[1], net[2])
    BY <1>1, <2>1, <2>2, <2>3, MaskWeakens
  <2> QED
    BY <1>4, <2>2, <2>4 DEF MatchesPrefix, Network
<1>5. ASSUME HasException(policy, a)
      PROVE  \E c \in policy.cidrs, net \in Exceptionable :
                 a \in Network(c) /\ Network(c) \subseteq Network(net)
  BY <1>2, <1>4, <1>5 DEF HasException, IsNarrowException
<1> QED
  BY <1>2, <1>3, <1>5 DEF ValidateAddress, Reachable

-----------------------------------------------------------------------------
AdmittedCall ==
    [phase : {"admitted"}, made : Nat, policy : EgressPolicies, url : Urls,
     addresses : SUBSET Addresses, profile : Profiles, followed : Nat]

ActiveCall ==
    [phase : {"connecting", "sent", "open", "reading"}, made : Nat,
     policy : EgressPolicies, url : Urls, profile : Profiles, followed : Nat,
     connected : Addresses, since : Nat, deadline : Nat, spent : Nat, read : BOOLEAN]

OverCall == [phase : {"none", "refused", "failed", "closed"}, made : Nat]

(* The target of an admitted or active call.                               *)
Confined(c) ==
    /\ c.url.host \in c.policy.hosts /\ c.url.port \in c.policy.ports
    /\ c.followed <= IF c.policy.redirect = "deny" THEN 0 ELSE c.policy.maxRedirects

(* The wait in progress, t after the call was sent.                        *)
Punctual(c, t) ==
    /\ c.deadline = c.profile.timeouts.total
    /\ c.since <= t
    /\ c.phase \in {"connecting", "sent"} =>
          /\ c.since = 0
          /\ t <= c.profile.timeouts.ttfb /\ t <= c.deadline
    /\ c.phase = "reading" =>
          /\ t <= c.deadline
          /\ t - c.since <= c.profile.timeouts.idle
          /\ c.profile.progress => c.spent < Progress

HttpInv ==
    /\ clock \in Nat
    /\ \A key \in DOMAIN pool : pool[key] = key[4]
    /\ \/ call \in OverCall
       \/ /\ call \in AdmittedCall
          /\ Confined(call)
          /\ \A a \in call.addresses : ValidateAddress(call.policy, a)
       \/ /\ call \in ActiveCall
          /\ Confined(call)
          /\ ValidateAddress(call.policy, call.connected)
          /\ Punctual(call, clock)

LEMMA HttpInvInit == HttpInit => HttpInv
BY DEF HttpInit, HttpInv, NoCall, OverCall

LEMMA PhaseTypes ==
    /\ \A c \in OverCall : c.phase \in {"none", "refused", "failed", "closed"} /\ c.made \in Nat
    /\ \A c \in AdmittedCall : c.phase = "admitted" /\ c.made \in Nat
    /\ \A c \in ActiveCall :
          c.phase \in {"connecting", "sent", "open", "reading"} /\ c.made \in Nat
BY DEF OverCall, AdmittedCall, ActiveCall

(* A call that is over may be of any length and count.                     *)
LEMMA OverKeepsInv ==
    ASSUME HttpInv, NEW phase \in {"refused", "failed", "closed"}, NEW n \in Nat,
           Over(phase, n), UNCHANGED <<clock, pool>>
    PROVE  HttpInv'
BY DEF HttpInv, Over, OverCall

LEMMA ResolvedTypes ==
    ASSUME NEW url \in Urls, NEW answer \in Answers
    PROVE  Resolved(url, answer) \in SUBSET Addresses
BY HttpConstants DEF Resolved

LEMMA AdmittingStep ==
    ASSUME HttpInv, NEW url \in Urls, NEW answer \in Answers,
           \/ \E policy \in EgressPolicies, p \in Profiles : Admit(policy, url, answer, p)
           \/ Redirect(url, answer)
    PROVE  HttpInv'
<1>1. ASSUME NEW policy \in EgressPolicies, NEW p \in Profiles, Admit(policy, url, answer, p)
      PROVE  HttpInv'
  <2>1. call.made \in Nat /\ UNCHANGED <<clock, pool>>
    BY <1>1, PhaseTypes DEF HttpInv, Admit
  <2>2. CASE Over("refused", call.made + 1)
    BY <2>1, <2>2, OverKeepsInv
  <2>3. CASE ~Over("refused", call.made + 1)
    <3> DEFINE n == [phase |-> "admitted", made |-> call.made + 1, policy |-> policy,
                     url |-> url, addresses |-> Resolved(url, answer),
                     profile |-> p, followed |-> 0]
    <3>1. AdmitUrl(policy, url, answer) /\ call' = n
      BY <1>1, <2>3 DEF Admit
    <3>2. n \in AdmittedCall
      BY <2>1, ResolvedTypes DEF AdmittedCall
    <3>3. Confined(n)
      BY <3>1, HttpConstants DEF Confined, AdmitUrl, ParseUrl
    <3>4. \A a \in n.addresses : ValidateAddress(n.policy, a)
      BY <3>1 DEF AdmitUrl
    <3> QED
      BY <2>1, <3>1, <3>2, <3>3, <3>4 DEF HttpInv
  <2> QED
    BY <2>2, <2>3
<1>2. CASE Redirect(url, answer)
  <2>0. call \in ActiveCall /\ UNCHANGED <<clock, pool>>
    BY <1>2, PhaseTypes DEF HttpInv, Redirect
  <2>1. /\ call \in ActiveCall /\ call.made \in Nat /\ call.followed \in Nat
        /\ UNCHANGED <<clock, pool>>
    BY <2>0 DEF ActiveCall
  <2>2. CASE Over("refused", call.made)
    BY <2>1, <2>2, OverKeepsInv
  <2>3. CASE ~Over("refused", call.made)
    <3> DEFINE n == [phase |-> "admitted", made |-> call.made, policy |-> call.policy,
                     url |-> url, addresses |-> Resolved(url, answer),
                     profile |-> call.profile, followed |-> call.followed + 1]
    <3>1. AdmitRedirect(call.policy, call.url, url, call.followed, answer) /\ call' = n
      BY <1>2, <2>3 DEF Redirect
    <3>2. n \in AdmittedCall
      BY <2>1, ResolvedTypes DEF AdmittedCall, ActiveCall
    <3>3. call.policy \in EgressPolicies /\ call.policy.maxRedirects \in Nat
      BY <2>1, HttpConstants DEF ActiveCall
    <3>4. Confined(n)
      <4>1. url.host \in call.policy.hosts /\ url.port \in call.policy.ports
        BY <3>1 DEF AdmitRedirect, AdmitUrl, ParseUrl
      <4>2. call.policy.redirect # "deny" /\ call.followed < call.policy.maxRedirects
        BY <3>1 DEF AdmitRedirect
      <4>3. call.followed + 1 <= call.policy.maxRedirects
        BY <2>1, <3>3, <4>2
      <4> QED
        BY <4>1, <4>2, <4>3 DEF Confined
    <3>5. \A a \in n.addresses : ValidateAddress(n.policy, a)
      BY <3>1 DEF AdmitRedirect, AdmitUrl
    <3> QED
      BY <2>1, <3>1, <3>2, <3>4, <3>5 DEF HttpInv
  <2> QED
    BY <2>2, <2>3
<1> QED
  BY <1>1, <1>2

(* The client is pinned to the addresses of this very call, whether it was *)
(* in the pool or not.                                                     *)
LEMMA SendStep == HttpInv /\ Send => HttpInv'
<1> SUFFICES ASSUME HttpInv, Send PROVE HttpInv'
  OBVIOUS
<1> DEFINE key == ClientPoolKey(call.url, call.addresses, call.profile)
<1>1. /\ call \in AdmittedCall /\ Confined(call)
      /\ \A a \in call.addresses : ValidateAddress(call.policy, a)
  <2>1. call.phase = "admitted"
    BY DEF Send
  <2> QED
    BY <2>1, PhaseTypes DEF HttpInv
<1>2. key[4] = call.addresses
  BY DEF ClientPoolKey
<1>3. /\ \A k \in DOMAIN pool' : pool'[k] = k[4]
      /\ key \in DOMAIN pool'
  BY <1>2 DEF Send, ClientFor, HttpInv
<1>4. PICK a \in pool'[key] :
        call' = [policy |-> call.policy, url |-> call.url,
                 profile |-> call.profile, made |-> call.made,
                 followed |-> call.followed,
                 phase |-> "connecting", connected |-> a, since |-> 0,
                 deadline |-> call.profile.timeouts.total,
                 spent |-> 0, read |-> FALSE]
  BY DEF Send
<1>5. a \in call.addresses /\ a \in Addresses /\ ValidateAddress(call.policy, a)
  BY <1>1, <1>2, <1>3, <1>4 DEF AdmittedCall
<1>6. /\ call.profile.timeouts.total \in Nat /\ call.profile.timeouts.ttfb \in Nat
      /\ call.profile \in Profiles
  BY <1>1, HttpConstants DEF AdmittedCall
<1>7. call' \in ActiveCall
  BY <1>1, <1>4, <1>5, <1>6 DEF AdmittedCall, ActiveCall
<1>8. Confined(call')
  BY <1>1, <1>4 DEF Confined
<1>9. Punctual(call', 0)
  BY <1>4, <1>6 DEF Punctual
<1>10. ValidateAddress(call'.policy, call'.connected)
  BY <1>4, <1>5
<1> QED
  BY <1>3, <1>7, <1>8, <1>9, <1>10 DEF HttpInv, Send

(* An active call keeps its target while it is read.                       *)
LEMMA ActiveMoves ==
    ASSUME HttpInv, call \in ActiveCall, call' \in ActiveCall, UNCHANGED <<clock, pool>>,
           call'.policy = call.policy, call'.url = call.url,
           call'.followed = call.followed, call'.connected = call.connected,
           Punctual(call', clock)
    PROVE  HttpInv'
<1>1. Confined(call) /\ ValidateAddress(call.policy, call.connected)
  BY PhaseTypes DEF HttpInv
<1>2. Confined(call')
  BY <1>1 DEF Confined
<1> QED
  BY <1>1, <1>2 DEF HttpInv

LEMMA ReadingStep ==
    ASSUME HttpInv,
           \/ Connected \/ Headers \/ NextChunk \/ Fail \/ Drop
           \/ \E kind \in {"progress", "keepalive", "end"} : Chunk(kind)
    PROVE  HttpInv'
<1>0. clock \in Nat /\ call.made \in Nat /\ UNCHANGED <<clock, pool>>
  BY PhaseTypes DEF HttpInv, Connected, Headers, NextChunk, Fail, Drop, Chunk
<1>over. ASSUME NEW phase \in {"failed", "closed"}, Over(phase, call.made) PROVE HttpInv'
  BY <1>0, <1>over, OverKeepsInv
<1>1. CASE Fail \/ Drop
  BY <1>1, <1>over DEF Fail, Drop
<1>act. ASSUME call.phase \in {"connecting", "sent", "open", "reading"}
        PROVE  /\ call \in ActiveCall /\ Punctual(call, clock)
               /\ call.profile \in Profiles /\ call.since \in Nat /\ call.deadline \in Nat
               /\ call.spent \in Nat
  BY <1>act, PhaseTypes DEF HttpInv, ActiveCall
<1>2. CASE Connected
  <2>1. call \in ActiveCall /\ Punctual(call, clock) /\ call.phase = "connecting"
    BY <1>2, <1>act DEF Connected
  <2>2. call' \in ActiveCall
    BY <1>2, <2>1 DEF Connected, ActiveCall
  <2>3. /\ call'.phase = "sent" /\ call'.policy = call.policy /\ call'.url = call.url
        /\ call'.followed = call.followed /\ call'.connected = call.connected
        /\ call'.deadline = call.deadline /\ call'.profile = call.profile
        /\ call'.since = call.since
    BY <1>2, <2>1 DEF Connected, ActiveCall
  <2>4. Punctual(call', clock)
    BY <2>1, <2>3 DEF Punctual
  <2> QED
    BY <1>0, <2>1, <2>2, <2>3, <2>4, ActiveMoves
<1>3. CASE Headers
  <2>1. call \in ActiveCall /\ Punctual(call, clock) /\ call.phase = "sent"
    BY <1>3, <1>act DEF Headers
  <2>2. call' \in ActiveCall
    BY <1>3, <2>1 DEF Headers, ActiveCall
  <2>3. /\ call'.phase = "open" /\ call'.policy = call.policy /\ call'.url = call.url
        /\ call'.followed = call.followed /\ call'.connected = call.connected
        /\ call'.deadline = call.deadline /\ call'.profile = call.profile
        /\ call'.since = call.since
    BY <1>3, <2>1 DEF Headers, ActiveCall
  <2>4. Punctual(call', clock)
    BY <2>1, <2>3 DEF Punctual
  <2> QED
    BY <1>0, <2>1, <2>2, <2>3, <2>4, ActiveMoves
<1>4. CASE NextChunk
  <2>1. /\ call \in ActiveCall /\ Punctual(call, clock) /\ call.phase = "open"
        /\ call.profile \in Profiles /\ call.deadline \in Nat
    BY <1>4, <1>act DEF NextChunk
  <2>2. CASE Over("failed", call.made)
    BY <2>2, <1>over
  <2>3. CASE ~Over("failed", call.made)
    <3>1. MayRead /\ Remaining > 0 /\ call' = [call EXCEPT !.phase = "reading", !.since = clock]
      BY <1>4, <2>3 DEF NextChunk
    <3>2. call' \in ActiveCall
      BY <1>0, <2>1, <3>1 DEF ActiveCall
    <3>3. /\ call'.phase = "reading" /\ call'.policy = call.policy /\ call'.url = call.url
          /\ call'.followed = call.followed /\ call'.connected = call.connected
          /\ call'.deadline = call.deadline /\ call'.profile = call.profile
          /\ call'.since = clock /\ call'.spent = call.spent
      BY <2>1, <3>1 DEF ActiveCall
    <3>4. clock <= call.deadline /\ call.profile.timeouts.idle \in Nat
      BY <1>0, <2>1, <3>1, HttpConstants DEF Remaining
    <3>5. Punctual(call', clock)
      BY <1>0, <2>1, <3>1, <3>3, <3>4 DEF Punctual, MayRead
    <3> QED
      BY <1>0, <2>1, <3>2, <3>3, <3>5, ActiveMoves
  <2> QED
    BY <2>2, <2>3
<1>5. ASSUME NEW kind \in {"progress", "keepalive", "end"}, Chunk(kind) PROVE HttpInv'
  <2>1. /\ call \in ActiveCall /\ Punctual(call, clock) /\ call.phase = "reading"
        /\ call.spent \in Nat /\ call.since \in Nat
    BY <1>5, <1>act DEF Chunk
  <2>2. CASE kind = "end"
    BY <1>5, <2>2, <1>over DEF Chunk
  <2>3. CASE kind # "end"
    <3> DEFINE v == IF kind = "progress" THEN 0 ELSE call.spent + clock - call.since
    <3>1. call' = [call EXCEPT !.phase = "open", !.read = TRUE, !.spent = v]
      BY <1>5, <2>3 DEF Chunk
    <3>2. v \in Nat
      BY <1>0, <2>1 DEF Punctual
    <3> HIDE DEF v
    <3>3. call' \in ActiveCall
      BY <2>1, <3>1, <3>2 DEF ActiveCall
    <3>4. /\ call'.phase = "open" /\ call'.policy = call.policy /\ call'.url = call.url
          /\ call'.followed = call.followed /\ call'.connected = call.connected
          /\ call'.deadline = call.deadline /\ call'.profile = call.profile
          /\ call'.since = call.since
      BY <2>1, <3>1 DEF ActiveCall
    <3>5. Punctual(call', clock)
      BY <2>1, <3>4 DEF Punctual
    <3> QED
      BY <1>0, <2>1, <3>3, <3>4, <3>5, ActiveMoves
  <2> QED
    BY <2>2, <2>3
<1> QED
  BY <1>1, <1>2, <1>3, <1>4, <1>5

(* Time goes on only inside the wait the profile allows.                   *)
LEMMA HttpClockStep == HttpInv /\ HttpTick => HttpInv'
<1> SUFFICES ASSUME HttpInv, HttpTick PROVE HttpInv'
  OBVIOUS
<1> DEFINE t == call.profile.timeouts
<1>1. /\ call \in ActiveCall /\ Confined(call) /\ Punctual(call, clock)
      /\ ValidateAddress(call.policy, call.connected) /\ clock \in Nat
  BY PhaseTypes DEF HttpInv, HttpTick, Waiting
<1>2. /\ t.connect \in Nat /\ t.ttfb \in Nat /\ t.idle \in Nat /\ t.total \in Nat
      /\ call.since \in Nat /\ call.deadline \in Nat /\ call.spent \in Nat
      /\ call.phase \in {"connecting", "sent", "open", "reading"}
  BY <1>1, HttpConstants DEF ActiveCall
<1>3. Punctual(call, clock + 1)
  <2>1. CASE call.phase \in {"connecting", "sent"}
    <3>1. clock - call.since < FirstByteBudget
      <4>1. clock - call.since < WaitLimit
        BY <2>1 DEF HttpTick
      <4>2. clock - call.since \in Int /\ FirstByteBudget \in Nat
        BY <1>1, <1>2 DEF FirstByteBudget
      <4>3. CASE call.phase = "connecting"
        BY <1>2, <4>1, <4>2, <4>3 DEF WaitLimit
      <4>4. CASE call.phase = "sent"
        BY <4>1, <4>4 DEF WaitLimit
      <4> QED
        BY <2>1, <4>3, <4>4
    <3> QED
      BY <1>1, <1>2, <2>1, <3>1 DEF Punctual, FirstByteBudget
  <2>2. CASE call.phase = "reading"
    <3>1. clock - call.since < ReadBudget
      BY <2>2 DEF HttpTick, WaitLimit
    <3> QED
      BY <1>1, <1>2, <2>2, <3>1 DEF Punctual, ReadBudget
  <2>3. CASE call.phase = "open"
    BY <1>1, <1>2, <2>3 DEF Punctual
  <2> QED
    BY <1>2, <2>1, <2>2, <2>3
<1> QED
  BY <1>1, <1>3 DEF HttpInv, HttpTick

LEMMA HttpInvStep == HttpInv /\ [HttpNext]_httpVars => HttpInv'
<1> SUFFICES ASSUME HttpInv, [HttpNext]_httpVars PROVE HttpInv'
  OBVIOUS
<1>1. ASSUME NEW key \in DOMAIN pool, Evict(key) PROVE HttpInv'
  BY <1>1 DEF Evict, HttpInv
<1>2. CASE UNCHANGED httpVars
  BY <1>2 DEF httpVars, HttpInv
<1> QED
  BY <1>1, <1>2, AdmittingStep, SendStep, ReadingStep, HttpClockStep DEF HttpNext

(* For any policies, URLs, DNS answers, profiles and timing: a call is     *)
(* connected only where its own policy lets an operator expect, also       *)
(* through a pooled client and after redirects, and no wait outlasts the   *)
(* timeout it is under.                                                    *)
THEOREM CallsAreConfined == HttpSpec => []CallsConfined
<1>1. HttpInv => CallsConfined
  <2> SUFFICES ASSUME HttpInv PROVE CallsConfined
    OBVIOUS
  <2>1. CASE call \in ActiveCall
    <3>1. /\ Confined(call) /\ Punctual(call, clock) /\ clock \in Nat
          /\ ValidateAddress(call.policy, call.connected)
      BY <2>1, PhaseTypes DEF HttpInv
    <3>2. /\ call.profile.timeouts.ttfb \in Nat /\ call.profile.timeouts.idle \in Nat
          /\ call.since \in Nat /\ call.spent \in Nat /\ call.deadline \in Nat
      BY <2>1, HttpConstants DEF ActiveCall
    <3>3. Reachable(call.policy, call.connected)
      BY <2>1, <3>1, ValidatedIsReachable DEF ActiveCall
    <3>4. Waiting => clock <= call.deadline
      BY <3>1 DEF Waiting, Punctual
    <3>5. call.phase \in {"connecting", "sent"} => clock <= call.profile.timeouts.ttfb
      BY <3>1 DEF Punctual
    <3>6. call.phase = "reading" /\ call.profile.progress =>
            call.spent + clock - call.since < Progress + call.profile.timeouts.idle
      BY <3>1, <3>2, HttpConstants DEF Punctual
    <3> QED
      BY <3>1, <3>3, <3>4, <3>5, <3>6 DEF CallsConfined, Confined
  <2>2. CASE call \notin ActiveCall
    BY <2>2, PhaseTypes DEF HttpInv, CallsConfined, Waiting
  <2> QED
    BY <2>1, <2>2
<1> QED
  BY <1>1, HttpInvInit, HttpInvStep, PTL DEF HttpSpec
=============================================================================
