---------------------- MODULE SnapshotPublicationProofs ----------------------
(***************************************************************************)
(* Proofs about SnapshotPublication.  What SQLite keeps, and that the id   *)
(* of the composed Snapshot decides its graph, holds for every set of      *)
(* processes; that the runtime follows the database is proved for one      *)
(* process, which is what the deployment runs.                             *)
(***************************************************************************)
EXTENDS SnapshotPublication, TLAPS

(* The durable invariant, inductive together with the type invariant. *)
DurableInv == PubTypeOK /\ AtMostOneActive /\ PredecessorArchived

------------------------------------------------------------------------------
(* The synthetic Snapshot, the absent one and every persisted one are      *)
(* Snapshots.                                                              *)
LEMMA SnapshotTypes ==
    /\ NoSnapshot \in Snapshots
    /\ BootstrapSnapshot \in Snapshots
    /\ \A v \in Versions, c \in Contents :
          /\ Snapshot(v, c) \in Snapshots
          /\ Snapshot(v, c).version = v
          /\ Snapshot(v, c).graph = c
    /\ NoSnapshot.version = NoVersion
    /\ BootstrapSnapshot.version = Bootstrap
    /\ IdleRequest \in RequestStates
  BY PublicationConstants
     DEF NoSnapshot, BootstrapSnapshot, Snapshot, Snapshots, IdleRequest,
         RequestStates

(* What activate_version leaves behind: the target is the only active      *)
(* Version, the former one is archived and named by the audit row.         *)
LEMMA ActivationEffect ==
    ASSUME PubTypeOK, AtMostOneActive, NEW v \in Versions,
           status[v] \in {"draft", "archived"}
    PROVE  /\ Activated(v) \in [Versions -> Statuses]
           /\ Recorded(v) \in [Versions -> Versions \cup {NoVersion, NoEvent}]
           /\ \A w \in Versions : Activated(v)[w] = "active" <=> w = v
           /\ \A w \in Active : Recorded(v)[v] = w /\ Activated(v)[w] = "archived"
           /\ Active = {} => Recorded(v)[v] = NoVersion
  <1>1. status \in [Versions -> Statuses]
    BY DEF PubTypeOK
  <1>2. replaced \in [Versions -> Versions \cup {NoVersion, NoEvent}]
    BY DEF PubTypeOK
  <1>3. Active \subseteq Versions /\ v \notin Active
    BY <1>1 DEF Active
  <1>4. Active # {} => \A w \in Active : (CHOOSE u \in Active : TRUE) = w
    BY DEF AtMostOneActive
  <1>5. Activated(v) \in [Versions -> Statuses]
    BY <1>1 DEF Activated, Statuses
  <1>6. \A w \in Versions : Activated(v)[w] = "active" <=> w = v
    BY <1>1 DEF Activated, Statuses
  <1>7. Recorded(v) \in [Versions -> Versions \cup {NoVersion, NoEvent}]
    <2>1. CASE Active = {}
      BY <2>1, <1>2 DEF Recorded
    <2>2. CASE Active # {}
      <3>1. PICK w \in Active : TRUE
        BY <2>2
      <3>2. (CHOOSE u \in Active : TRUE) = w
        BY <3>1, <1>4
      <3> QED BY <2>2, <3>2, <1>2, <1>3 DEF Recorded
    <2> QED BY <2>1, <2>2
  <1>8. \A w \in Active : Recorded(v)[v] = w /\ Activated(v)[w] = "archived"
    <2> SUFFICES ASSUME NEW w \in Active
                 PROVE  Recorded(v)[v] = w /\ Activated(v)[w] = "archived"
      OBVIOUS
    <2>1. (CHOOSE u \in Active : TRUE) = w
      BY <1>4
    <2>2. Recorded(v)[v] = w
      BY <2>1, <1>2 DEF Recorded
    <2>3. w \in Versions /\ w # v /\ status[w] = "active"
      BY <1>3 DEF Active
    <2>4. Activated(v)[w] = "archived"
      BY <2>3 DEF Activated
    <2> QED BY <2>2, <2>4
  <1>9. Active = {} => Recorded(v)[v] = NoVersion
    BY <1>2 DEF Recorded
  <1> QED BY <1>5, <1>6, <1>7, <1>8, <1>9
------------------------------------------------------------------------------
(* Init and every step keep the durable invariant.                         *)

LEMMA DurableInit == PubInit => DurableInv
  <1> SUFFICES ASSUME PubInit PROVE DurableInv
    OBVIOUS
  <1> USE PublicationConstants, SnapshotTypes
  <1>1. Active = {}
    BY DEF PubInit, Active
  <1>2. PubTypeOK
    BY DEF PubInit, PubTypeOK, Statuses
  <1> QED BY <1>1, <1>2 DEF DurableInv, AtMostOneActive, PredecessorArchived

(* A step that leaves the rows alone keeps what depends on them only. *)
LEMMA DurableFrame ==
    ASSUME DurableInv, status' = status, replaced' = replaced, PubTypeOK'
    PROVE  DurableInv'
  BY DEF DurableInv, AtMostOneActive, PredecessorArchived, Active

LEMMA DurableStep == DurableInv /\ [PubNext]_vars => DurableInv'
  <1> SUFFICES ASSUME DurableInv, [PubNext]_vars PROVE DurableInv'
    OBVIOUS
  <1> USE PublicationConstants, SnapshotTypes
  <1>t. PubTypeOK
    BY DEF DurableInv
  <1>a. Active \subseteq Versions
    BY DEF Active
  <1>b. \A p \in Procs : AfterBootstrap(p) \in {"composing", "idle"}
    BY DEF AfterBootstrap
  <1>1. ASSUME NEW p \in Procs, BootstrapCurrent(p) PROVE DurableInv'
    <2>1. CASE Active = {}
      <3>a. PICK next \in {"composing", "idle"} :
                pc' = [pc EXCEPT ![p] = next]
        BY <1>1, <2>1, <1>b DEF BootstrapCurrent
      <3>b. /\ current' = [current EXCEPT ![p] = BootstrapSnapshot]
            /\ UNCHANGED <<durable, op, previous, composed, request>>
        BY <1>1, <2>1 DEF BootstrapCurrent
      <3>c. \A q \in Procs :
                /\ pc'[q] \in {"checked", "reserved", "activated"}
                      => op'[q].version \in Versions
                /\ pc'[q] = "bootstrapping" => current'[q].version \in Versions
        BY <3>a, <3>b, <1>t DEF PubTypeOK
      <3>1. PubTypeOK'
        BY <3>a, <3>b, <3>c, <1>t DEF PubTypeOK, durable
      <3> QED BY <3>1, <1>1, DurableFrame DEF BootstrapCurrent, durable
    <2>2. CASE Active # {}
      <3>1. PICK v \in Active :
                /\ current' = [current EXCEPT ![p] = Snapshot(v, content[v])]
                /\ pc' = [pc EXCEPT ![p] = "bootstrapping"]
        BY <1>1, <2>2 DEF BootstrapCurrent
      <3>2. v \in Versions /\ content[v] \in Contents
        BY <1>a, <1>t DEF PubTypeOK
      <3>3. PubTypeOK'
        BY <1>1, <3>1, <3>2, <1>t DEF BootstrapCurrent, PubTypeOK, durable
      <3> QED BY <3>3, <1>1, DurableFrame DEF BootstrapCurrent, durable
    <2> QED BY <2>1, <2>2
  <1>2. ASSUME NEW p \in Procs, BootstrapPrevious(p) PROVE DurableInv'
    <2>1. previous' \in [Procs -> Snapshots]
      <3>1. CASE UNCHANGED previous
        BY <3>1, <1>t DEF PubTypeOK
      <3>2. CASE previous' # previous
        <4>1. PICK w \in Versions :
                  previous' = [previous EXCEPT ![p] = Snapshot(w, content[w])]
          BY <1>2, <3>2 DEF BootstrapPrevious
        <4>2. content[w] \in Contents
          BY <1>t DEF PubTypeOK
        <4> QED BY <4>1, <4>2, <1>t DEF PubTypeOK
      <3> QED BY <3>1, <3>2
    <2>a. PICK next \in {"composing", "idle"} : pc' = [pc EXCEPT ![p] = next]
      BY <1>2, <1>b DEF BootstrapPrevious
    <2>b. UNCHANGED <<durable, op, current, composed, request>>
      BY <1>2 DEF BootstrapPrevious
    <2>c. \A q \in Procs :
              /\ pc'[q] \in {"checked", "reserved", "activated"}
                    => op'[q].version \in Versions
              /\ pc'[q] = "bootstrapping" => current'[q].version \in Versions
      BY <2>a, <2>b, <1>t DEF PubTypeOK
    <2>2. PubTypeOK'
      BY <2>1, <2>a, <2>b, <2>c, <1>t DEF PubTypeOK, durable
    <2> QED BY <2>2, <1>2, DurableFrame DEF BootstrapPrevious, durable
  <1>3. ASSUME NEW p \in Procs, Stop(p) PROVE DurableInv'
    <2>1. composed' \in Snapshots /\ request' \in [Requests -> RequestStates]
      BY <1>3, <1>t DEF Stop, PubTypeOK
    <2>2. PubTypeOK'
      BY <1>3, <2>1, <1>t DEF Stop, PubTypeOK, durable
    <2> QED BY <2>2, <1>3, DurableFrame DEF Stop, durable
  <1>4. ASSUME NEW p \in Procs, PreparePublish(p) PROVE DurableInv'
    <2>1. op[p].version \in Versions
      BY <1>4, <1>t DEF PreparePublish, PubTypeOK
    <2>2. content[op[p].version] \in Contents
      BY <2>1, <1>t DEF PubTypeOK
    <2>3. PubTypeOK'
      BY <1>4, <2>1, <2>2, <1>t DEF PreparePublish, PubTypeOK, durable
    <2> QED BY <2>3, <1>4, DurableFrame DEF PreparePublish, durable
  <1>5. ASSUME NEW p \in Procs, PrepareRollback(p) PROVE DurableInv'
    <2>1. PubTypeOK'
      BY <1>5, <1>t DEF PrepareRollback, PubTypeOK, durable
    <2> QED BY <2>1, <1>5, DurableFrame DEF PrepareRollback, durable
  <1>6. ASSUME NEW p \in Procs, Activate(p) PROVE DurableInv'
    <2>1. PICK v \in Versions : v = op[p].version
      BY <1>6, <1>t DEF Activate, PubTypeOK
    <2>2. /\ status[v] \in {"draft", "archived"}
          /\ status' = Activated(v)
          /\ replaced' = Recorded(v)
          /\ pc' = [pc EXCEPT ![p] = "activated"]
          /\ UNCHANGED <<revision, content, op, current, previous, composed,
                         request>>
      BY <1>6, <2>1 DEF Activate
    <2>3. /\ Activated(v) \in [Versions -> Statuses]
          /\ Recorded(v) \in [Versions -> Versions \cup {NoVersion, NoEvent}]
          /\ \A w \in Versions : Activated(v)[w] = "active" <=> w = v
          /\ \A w \in Active :
                Recorded(v)[v] = w /\ Activated(v)[w] = "archived"
          /\ Active = {} => Recorded(v)[v] = NoVersion
      BY <2>2, <1>t, ActivationEffect DEF DurableInv
    <2>4. PubTypeOK'
      BY <1>6, <2>1, <2>2, <2>3, <1>t DEF PubTypeOK, Activate
    <2>5. \A w \in Versions : status'[w] = "active" <=> w = v
      BY <2>2, <2>3
    <2>6. Active' = {v}
      BY <2>5 DEF Active
    <2>7. /\ replaced'[v] \in Versions \cup {NoVersion}
          /\ replaced'[v] \in Versions => status'[replaced'[v]] = "archived"
      BY <2>2, <2>3, <1>a
    <2> QED BY <2>4, <2>6, <2>7
            DEF DurableInv, AtMostOneActive, PredecessorArchived
  <1>7. ASSUME NEW p \in Procs, Refuse(p) PROVE DurableInv'
    <2>1. PubTypeOK'
      BY <1>7, <1>t DEF Refuse, PubTypeOK, durable
    <2> QED BY <2>1, <1>7, DurableFrame DEF Refuse, durable
  <1>8. ASSUME NEW p \in Procs, Commit(p) PROVE DurableInv'
    <2>1. PubTypeOK'
      BY <1>8, <1>t DEF Commit, PubTypeOK, durable
    <2> QED BY <2>1, <1>8, DurableFrame DEF Commit, durable
  <1>9. ASSUME NEW p \in Procs, NEW v \in Versions, Create(p, v)
        PROVE DurableInv'
    <2>1. PubTypeOK'
      BY <1>9, <1>t DEF Create, PubTypeOK, memory, Statuses
    <2>2. \A w \in Versions : status'[w] = "active" <=> status[w] = "active"
      BY <1>9, <1>t DEF Create, PubTypeOK
    <2>3. \A w \in Versions : status[w] = "archived" => status'[w] = "archived"
      BY <1>9, <1>t DEF Create, PubTypeOK
    <2>4. Active' = Active
      BY <2>2 DEF Active
    <2>5. replaced' = replaced
      BY <1>9 DEF Create
    <2> QED BY <2>1, <2>3, <2>4, <2>5
            DEF DurableInv, AtMostOneActive, PredecessorArchived
  <1>10. ASSUME NEW p \in Procs, NEW v \in Versions, BeginPublish(p, v)
         PROVE DurableInv'
    <2>1. PubTypeOK'
      BY <1>10, <1>t DEF BeginPublish, PubTypeOK, durable
    <2> QED BY <2>1, <1>10, DurableFrame DEF BeginPublish, durable
  <1>11. ASSUME Compose PROVE DurableInv'
    <2>1. composed' \in Snapshots
      BY <1>11, <1>t, <1>a DEF Compose, PubTypeOK
    <2>2. PubTypeOK'
      BY <1>11, <2>1, <1>t DEF Compose, PubTypeOK, durable
    <2> QED BY <2>2, <1>11, DurableFrame DEF Compose, durable
  <1>12. ASSUME NEW v \in Versions, NEW c \in Contents, Edit(v, c)
         PROVE DurableInv'
    <2>1. revision' \in [Versions -> 0 .. MaxRevision]
      BY <1>12, <1>t DEF Edit, PubTypeOK
    <2>2. PubTypeOK'
      BY <1>12, <2>1, <1>t DEF Edit, PubTypeOK, memory
    <2> QED BY <2>2, <1>12, DurableFrame DEF Edit
  <1>13. ASSUME NEW r \in Requests,
                Authenticate(r) \/ Execute(r) \/ Finish(r)
         PROVE DurableInv'
    <2>a. current[Server] \in Snapshots
      BY <1>t DEF PubTypeOK
    <2>b. request \in [Requests -> RequestStates]
      BY <1>t DEF PubTypeOK
    <2>1. request' \in [Requests -> RequestStates]
      <3>1. CASE Authenticate(r)
        BY <2>a, <2>b, <3>1 DEF Authenticate, RequestStates
      <3>2. CASE Execute(r)
        <4>1. PICK at \in {"executed", "stale"} :
                  request' = [request EXCEPT ![r].at = at]
          BY <3>2 DEF Execute
        <4> QED BY <4>1, <2>b DEF RequestStates
      <3>3. CASE Finish(r)
        BY <2>b, <3>3 DEF Finish
      <3> QED BY <1>13, <3>1, <3>2, <3>3
    <2>2. UNCHANGED <<durable, memory>>
      BY <1>13 DEF Authenticate, Execute, Finish
    <2>3. PubTypeOK'
      BY <2>1, <2>2, <1>t DEF PubTypeOK, durable, memory
    <2> QED BY <2>2, <2>3, DurableFrame DEF durable
  <1>14. CASE UNCHANGED vars
    <2>1. PubTypeOK'
      BY <1>14, <1>t DEF PubTypeOK, vars, durable, memory
    <2> QED BY <2>1, <1>14, DurableFrame DEF vars, durable
  <1> QED
    BY <1>1, <1>2, <1>3, <1>4, <1>5, <1>6, <1>7, <1>8, <1>9, <1>10, <1>11,
       <1>12, <1>13, <1>14 DEF PubNext

(* Rows, registries, reservations and requests stay well typed, and no     *)
(* operation is ever about the synthetic Snapshot.                         *)
THEOREM PublicationTypeCorrect == PubSpec => []PubTypeOK
  <1>1. PubSpec => []DurableInv
    BY DurableInit, DurableStep, PTL DEF PubSpec
  <1>2. DurableInv => PubTypeOK
    BY DEF DurableInv
  <1> QED BY <1>1, <1>2, PTL

(* activate_version keeps at most one Version active for any number of     *)
(* processes that publish, roll back and stop.                             *)
THEOREM OneActiveVersion == PubSpec => []AtMostOneActive
  <1>1. PubSpec => []DurableInv
    BY DurableInit, DurableStep, PTL DEF PubSpec
  <1>2. DurableInv => AtMostOneActive
    BY DEF DurableInv
  <1> QED BY <1>1, <1>2, PTL

(* load_rollback_predecessor never finds its audit evidence malformed.     *)
THEOREM RollbackEvidenceSound == PubSpec => []PredecessorArchived
  <1>1. PubSpec => []DurableInv
    BY DurableInit, DurableStep, PTL DEF PubSpec
  <1>2. DurableInv => PredecessorArchived
    BY DEF DurableInv
  <1> QED BY <1>1, <1>2, PTL

(* Whatever processes share the database and wherever they stop, what a     *)
(* restart finds is one Version to serve, or none, and evidence it can use. *)
THEOREM ActivationsAreSound == PubSpec => []ActivationsSound
  <1>1. AtMostOneActive /\ PredecessorArchived => ActivationsSound
    BY DEF ActivationsSound
  <1> QED BY <1>1, OneActiveVersion, RollbackEvidenceSound, PTL

(* What one step leaves of a published row. *)
RowKept(v) ==
    status[v] \in {"active", "archived"} =>
        /\ content'[v] = content[v]
        /\ revision'[v] = revision[v]
        /\ status'[v] \in {"active", "archived"}

(* A step that leaves the rows alone leaves the published ones alone. *)
LEMMA RowsFrame ==
    ASSUME UNCHANGED <<status, content, revision>> PROVE \A v \in Versions : RowKept(v)
  BY DEF RowKept

LEMMA ImmutableStep ==
    DurableInv /\ [PubNext]_vars => \A v \in Versions : RowKept(v)
  <1> SUFFICES ASSUME DurableInv, [PubNext]_vars PROVE \A v \in Versions : RowKept(v)
    OBVIOUS
  <1>t. PubTypeOK
    BY DEF DurableInv
  <1>1. ASSUME NEW p \in Procs,
               \/ BootstrapCurrent(p) \/ BootstrapPrevious(p) \/ Stop(p)
               \/ PreparePublish(p) \/ PrepareRollback(p) \/ Refuse(p) \/ Commit(p)
               \/ \E v \in Versions : BeginPublish(p, v)
        PROVE  \A v \in Versions : RowKept(v)
    <2>1. UNCHANGED durable
      BY <1>1 DEF BootstrapCurrent, BootstrapPrevious, Stop, PreparePublish,
                  PrepareRollback, Refuse, Commit, BeginPublish
    <2> QED BY <2>1, RowsFrame DEF durable
  <1>2. ASSUME NEW p \in Procs, Activate(p) PROVE \A v \in Versions : RowKept(v)
    <2>1. PICK u \in Versions : u = op[p].version
      BY <1>2, <1>t DEF Activate, PubTypeOK
    <2>2. status' = Activated(u) /\ UNCHANGED <<revision, content>>
      BY <1>2, <2>1 DEF Activate
    <2> QED BY <2>2 DEF RowKept, Activated
  <1>3. ASSUME NEW p \in Procs, NEW u \in Versions, Create(p, u)
        PROVE  \A v \in Versions : RowKept(v)
    BY <1>3, <1>t DEF Create, RowKept, PubTypeOK
  <1>4. ASSUME NEW u \in Versions, NEW c \in Contents, Edit(u, c)
        PROVE  \A v \in Versions : RowKept(v)
    BY <1>4, <1>t DEF Edit, RowKept, PubTypeOK
  <1>5. ASSUME Compose \/ \E r \in Requests : Authenticate(r) \/ Execute(r) \/ Finish(r)
        PROVE  \A v \in Versions : RowKept(v)
    <2>1. UNCHANGED durable
      BY <1>5 DEF Compose, Authenticate, Execute, Finish
    <2> QED BY <2>1, RowsFrame DEF durable
  <1>6. CASE UNCHANGED vars
    BY <1>6, RowsFrame DEF vars, durable
  <1> QED BY <1>1, <1>2, <1>3, <1>4, <1>5, <1>6 DEF PubNext

(* Once published, a Version's graph and revision never change again,      *)
(* whichever process edits, publishes or rolls back: the draft-only guard  *)
(* of mutate_draft_configuration and the status rules of activate_version. *)
THEOREM PublicationIsFinal == PubSpec => PublishedIsImmutable
  <1>1. PubSpec => []DurableInv
    BY DurableInit, DurableStep, PTL DEF PubSpec
  <1>2. DurableInv /\ [PubNext]_vars =>
          [\A v \in Versions :
             status[v] \in {"active", "archived"} =>
               /\ content'[v] = content[v]
               /\ revision'[v] = revision[v]
               /\ status'[v] \in {"active", "archived"}]_vars
    BY ImmutableStep DEF RowKept
  <1> QED BY <1>1, <1>2, PTL DEF PubSpec, PublishedIsImmutable

------------------------------------------------------------------------------
(* One process on the database.                                            *)

RegistryMatches ==
    IF Active = {}
    THEN current[Server] = BootstrapSnapshot
    ELSE \A v \in Active : current[Server] = Snapshot(v, content[v])

SlotMatches ==
    \A v \in Active :
        IF replaced[v] \in Versions
        THEN previous[Server] = Snapshot(replaced[v], content[replaced[v]])
        ELSE previous[Server] \in {NoSnapshot, BootstrapSnapshot}

(* The operation in hand carries the stored graph of its Version. *)
OperationIsStored ==
    op[Server] = Snapshot(op[Server].version, content[op[Server].version])

(* Between the SQLite commit and the ArcSwap commit the registry still     *)
(* shows the Version the audit row names as replaced.                      *)
RegistryOneBehind ==
    LET old == replaced[op[Server].version] IN
    /\ status[op[Server].version] = "active"
    /\ IF old \in Versions
       THEN current[Server] = Snapshot(old, content[old])
       ELSE current[Server] = BootstrapSnapshot

SoleInv ==
    /\ DurableInv
    /\ pc[Server] \in {"down", "bootstrapping"} => previous[Server] = NoSnapshot
    /\ pc[Server] = "bootstrapping" => RegistryMatches
    /\ pc[Server] \in {"composing", "idle", "checked", "reserved"}
          => RegistryMatches /\ SlotMatches
    /\ pc[Server] \in {"reserved", "activated"} => OperationIsStored
    /\ pc[Server] = "activated" => RegistryOneBehind

LEMMA SoleInit == PubInit => SoleInv
  <1> SUFFICES ASSUME PubInit PROVE SoleInv
    OBVIOUS
  <1>1. DurableInv
    BY DurableInit
  <1>2. pc[Server] = "down" /\ previous[Server] = NoSnapshot
    BY PublicationConstants DEF PubInit
  <1> QED BY <1>1, <1>2 DEF SoleInv

(* Where a step leaves rows and registry alone, the two matches carry over *)
(* from any state in which they were established.                          *)
LEMMA SoleFrame ==
    ASSUME UNCHANGED <<durable, current, previous>>
    PROVE  /\ RegistryMatches' = RegistryMatches
           /\ SlotMatches' = SlotMatches
  BY DEF RegistryMatches, SlotMatches, Active, durable

LEMMA SoleStep ==
    ASSUME Procs = {Server}, SoleInv, [PubNext]_vars
    PROVE  SoleInv'
  <1> USE PublicationConstants, SnapshotTypes
  <1>d. DurableInv /\ DurableInv'
    BY DurableStep DEF SoleInv
  <1>t. PubTypeOK /\ PubTypeOK'
    BY <1>d DEF DurableInv
  <1>a. Active \subseteq Versions
    BY DEF Active
  <1>s. /\ pc \in [Procs -> {"down", "bootstrapping", "composing", "idle",
                            "checked", "reserved", "activated"}]
        /\ op \in [Procs -> Snapshots]
        /\ current \in [Procs -> Snapshots]
        /\ previous \in [Procs -> Snapshots]
    BY <1>t DEF PubTypeOK
  <1>1. CASE BootstrapCurrent(Server)
    <2>1. /\ pc[Server] = "down" /\ previous[Server] = NoSnapshot
          /\ UNCHANGED <<durable, previous>>
      BY <1>1 DEF BootstrapCurrent, SoleInv
    <2>2. Active' = Active
      BY <2>1 DEF Active, durable
    <2>3. CASE Active = {}
      <3>1. pc'[Server] = "composing" /\ current'[Server] = BootstrapSnapshot
        BY <1>1, <2>3, <1>s DEF BootstrapCurrent, AfterBootstrap
      <3>2. RegistryMatches' /\ SlotMatches'
        BY <3>1, <2>2, <2>3 DEF RegistryMatches, SlotMatches
      <3> QED BY <1>d, <3>1, <3>2 DEF SoleInv
    <2>4. CASE Active # {}
      <3>1. PICK v \in Active :
                /\ current' = [current EXCEPT ![Server] = Snapshot(v, content[v])]
                /\ pc' = [pc EXCEPT ![Server] = "bootstrapping"]
        BY <1>1, <2>4 DEF BootstrapCurrent
      <3>2. \A w \in Active : w = v
        BY <1>d DEF DurableInv, AtMostOneActive
      <3>3. pc'[Server] = "bootstrapping" /\ previous'[Server] = NoSnapshot
        BY <3>1, <2>1, <1>s
      <3>4. current'[Server] = Snapshot(v, content[v])
        BY <3>1, <1>s
      <3>5. RegistryMatches'
        BY <3>4, <3>2, <2>1, <2>2, <2>4 DEF RegistryMatches, durable
      <3> QED BY <1>d, <3>3, <3>5 DEF SoleInv
    <2> QED BY <2>3, <2>4
  <1>2. CASE BootstrapPrevious(Server)
    <2>1. /\ pc[Server] = "bootstrapping" /\ previous[Server] = NoSnapshot
          /\ RegistryMatches
      BY <1>2 DEF BootstrapPrevious, SoleInv
    <2>2. UNCHANGED <<durable, current>> /\ pc'[Server] = "composing"
      BY <1>2, <1>s DEF BootstrapPrevious, AfterBootstrap
    <2>3. Active' = Active
      BY <2>2 DEF Active, durable
    <2>4. RegistryMatches'
      BY <2>1, <2>2, <2>3 DEF RegistryMatches, durable
    <2>5. \A v \in Active : current[Server].version = v
      BY <2>1, <1>a, <1>t DEF RegistryMatches, PubTypeOK
    <2>6. ASSUME NEW v \in Active
          PROVE  IF replaced[v] \in Versions
                 THEN previous'[Server] =
                          Snapshot(replaced[v], content[replaced[v]])
                 ELSE previous'[Server] \in {NoSnapshot, BootstrapSnapshot}
      <3>1. current[Server].version = v
        BY <2>5
      <3>2. CASE replaced[v] \in Versions
        <4>1. previous' = [previous EXCEPT
                  ![Server] = Snapshot(replaced[v], content[replaced[v]])]
          BY <1>2, <3>1, <3>2 DEF BootstrapPrevious
        <4> QED BY <4>1, <3>2, <1>s
      <3>3. CASE replaced[v] \notin Versions
        <4>1. previous' = previous
          BY <1>2, <3>1, <3>3 DEF BootstrapPrevious
        <4> QED BY <4>1, <3>3, <2>1
      <3> QED BY <3>2, <3>3
    <2>7. SlotMatches'
      BY <2>2, <2>3, <2>6 DEF SlotMatches, durable
    <2> QED BY <1>d, <2>2, <2>4, <2>7 DEF SoleInv
  <1>3. CASE Stop(Server)
    <2>1. pc'[Server] = "down" /\ previous'[Server] = NoSnapshot
      BY <1>3, <1>s DEF Stop
    <2> QED BY <1>d, <2>1 DEF SoleInv
  <1>4. CASE PreparePublish(Server)
    <2>1. PICK v \in Versions : v = op[Server].version
      BY <1>4, <1>t DEF PreparePublish, PubTypeOK
    <2>2. /\ pc[Server] = "checked" /\ pc'[Server] = "reserved"
          /\ op'[Server] = Snapshot(v, content[v])
          /\ UNCHANGED <<durable, current, previous>>
      BY <1>4, <2>1, <1>s DEF PreparePublish
    <2>3. RegistryMatches' /\ SlotMatches'
      BY <2>2, SoleFrame DEF SoleInv
    <2>4. content[v] \in Contents /\ content' = content
      BY <2>2, <1>t DEF PubTypeOK, durable
    <2>5. OperationIsStored'
      BY <2>2, <2>4 DEF OperationIsStored
    <2> QED BY <1>d, <2>2, <2>3, <2>5 DEF SoleInv
  <1>5. CASE PrepareRollback(Server)
    <2>1. /\ pc[Server] = "idle" /\ pc'[Server] = "reserved"
          /\ op'[Server] = previous[Server]
          /\ previous[Server].version \in Versions
          /\ Active # {}
          /\ UNCHANGED <<durable, current, previous>>
      BY <1>5, <1>s DEF PrepareRollback
    <2>2. RegistryMatches' /\ SlotMatches'
      BY <2>1, SoleFrame DEF SoleInv
    <2>3. PICK v \in Active : TRUE
      BY <2>1
    <2>4. SlotMatches
      BY <2>1 DEF SoleInv
    <2>5. replaced[v] \in Versions
      BY <2>1, <2>4 DEF SlotMatches
    <2>6. previous[Server] = Snapshot(replaced[v], content[replaced[v]])
      BY <2>4, <2>5 DEF SlotMatches
    <2>7. content[replaced[v]] \in Contents /\ content' = content
      BY <2>1, <2>5, <1>t DEF PubTypeOK, durable
    <2>8. op'[Server].version = replaced[v]
      BY <2>1, <2>5, <2>6, <2>7
    <2>9. OperationIsStored'
      BY <2>1, <2>6, <2>7, <2>8 DEF OperationIsStored
    <2> QED BY <1>d, <2>1, <2>2, <2>9 DEF SoleInv
  <1>6. CASE Activate(Server)
    <2>1. PICK v \in Versions : v = op[Server].version
      BY <1>6, <1>t DEF Activate, PubTypeOK
    <2>2. /\ pc[Server] = "reserved" /\ pc'[Server] = "activated"
          /\ status[v] \in {"draft", "archived"}
          /\ status' = Activated(v)
          /\ replaced' = Recorded(v)
          /\ UNCHANGED <<content, op, current, previous>>
      BY <1>6, <2>1, <1>s DEF Activate
    <2>3. RegistryMatches /\ OperationIsStored
      BY <2>2 DEF SoleInv
    <2>4. /\ \A w \in Versions : Activated(v)[w] = "active" <=> w = v
          /\ \A w \in Active : Recorded(v)[v] = w
          /\ Active = {} => Recorded(v)[v] = NoVersion
      BY <2>2, <1>t, <1>d, ActivationEffect DEF DurableInv
    <2>5. OperationIsStored'
      BY <2>2, <2>3 DEF OperationIsStored
    <2>6. IF replaced'[v] \in Versions
          THEN current[Server] = Snapshot(replaced'[v], content[replaced'[v]])
          ELSE current[Server] = BootstrapSnapshot
      <3>1. CASE Active = {}
        BY <3>1, <2>2, <2>3, <2>4 DEF RegistryMatches
      <3>2. CASE Active # {}
        <4>1. PICK w \in Active : TRUE
          BY <3>2
        <4>2. replaced'[v] = w /\ w \in Versions
          BY <4>1, <2>2, <2>4, <1>a
        <4>3. current[Server] = Snapshot(w, content[w])
          BY <4>1, <3>2, <2>3 DEF RegistryMatches
        <4> QED BY <4>2, <4>3
      <3> QED BY <3>1, <3>2
    <2>7. status'[v] = "active"
      BY <2>2, <2>4
    <2>8. RegistryOneBehind'
      BY <2>1, <2>2, <2>6, <2>7 DEF RegistryOneBehind
    <2> QED BY <1>d, <2>2, <2>5, <2>8 DEF SoleInv
  <1>7. CASE Refuse(Server)
    <2>1. /\ pc[Server] \in {"checked", "reserved"} /\ pc'[Server] = "idle"
          /\ UNCHANGED <<durable, current, previous>>
      BY <1>7, <1>s DEF Refuse
    <2>2. RegistryMatches' /\ SlotMatches'
      BY <2>1, SoleFrame DEF SoleInv
    <2> QED BY <1>d, <2>1, <2>2 DEF SoleInv
  <1>8. CASE Commit(Server)
    <2>1. PICK v \in Versions : v = op[Server].version
      BY <1>8, <1>t DEF Commit, PubTypeOK
    <2>2. /\ pc[Server] = "activated" /\ pc'[Server] = "idle"
          /\ current'[Server] = op[Server]
          /\ previous'[Server] = current[Server]
          /\ UNCHANGED durable
      BY <1>8, <1>s DEF Commit
    <2>3. OperationIsStored /\ RegistryOneBehind
      BY <2>2 DEF SoleInv
    <2>4. Active' = Active /\ v \in Active
      BY <2>1, <2>2, <2>3 DEF Active, durable, RegistryOneBehind
    <2>5. \A w \in Active : w = v
      BY <2>4, <1>d DEF DurableInv, AtMostOneActive
    <2>6. RegistryMatches'
      BY <2>1, <2>2, <2>3, <2>4, <2>5
         DEF RegistryMatches, OperationIsStored, durable
    <2>7. SlotMatches'
      BY <2>1, <2>2, <2>3, <2>4, <2>5
         DEF SlotMatches, RegistryOneBehind, durable
    <2> QED BY <1>d, <2>2, <2>6, <2>7 DEF SoleInv
  <1>9. ASSUME NEW v \in Versions, Create(Server, v) PROVE SoleInv'
    <2>1. /\ pc[Server] = "idle" /\ status[v] = "absent"
          /\ status' = [status EXCEPT ![v] = "draft"]
          /\ UNCHANGED <<content, replaced, pc, op, current, previous>>
      BY <1>9 DEF Create, memory
    <2>2. Active' = Active
      BY <2>1, <1>t DEF Active, PubTypeOK
    <2>3. RegistryMatches' /\ SlotMatches'
      BY <2>1, <2>2 DEF SoleInv, RegistryMatches, SlotMatches
    <2> QED BY <1>d, <2>1, <2>3 DEF SoleInv
  <1>10. ASSUME NEW v \in Versions, BeginPublish(Server, v) PROVE SoleInv'
    <2>1. /\ pc[Server] = "idle" /\ pc'[Server] = "checked"
          /\ UNCHANGED <<durable, current, previous>>
      BY <1>10, <1>s DEF BeginPublish
    <2>2. RegistryMatches' /\ SlotMatches'
      BY <2>1, SoleFrame DEF SoleInv
    <2> QED BY <1>d, <2>1, <2>2 DEF SoleInv
  <1>11. CASE Compose
    <2>1. /\ pc[Server] = "composing" /\ pc'[Server] = "idle"
          /\ UNCHANGED <<durable, current, previous>>
      BY <1>11, <1>s DEF Compose
    <2>2. RegistryMatches' /\ SlotMatches'
      BY <2>1, SoleFrame DEF SoleInv
    <2> QED BY <1>d, <2>1, <2>2 DEF SoleInv
  <1>12. ASSUME NEW v \in Versions, NEW c \in Contents, Edit(v, c)
         PROVE  SoleInv'
    <2>1. /\ pc[Server] = "idle" /\ status[v] = "draft"
          /\ content' = [content EXCEPT ![v] = c]
          /\ UNCHANGED <<status, replaced, pc, op, current, previous>>
      BY <1>12 DEF Edit, memory
    <2>2. Active' = Active
      BY <2>1 DEF Active
    <2>3. \A w \in Versions : w # v => content'[w] = content[w]
      BY <2>1, <1>t DEF PubTypeOK
    <2>4. v \notin Active
      BY <2>1 DEF Active
    <2>5. RegistryMatches'
      BY <2>1, <2>2, <2>3, <2>4, <1>a DEF SoleInv, RegistryMatches
    <2>6. \A w \in Active : replaced[w] # v
      BY <2>1, <1>d DEF DurableInv, PredecessorArchived
    <2>7. SlotMatches
      BY <2>1 DEF SoleInv
    <2>8. \A w \in Active : replaced[w] \in Versions =>
                               content'[replaced[w]] = content[replaced[w]]
      BY <2>3, <2>6
    <2>9. SlotMatches'
      BY <2>1, <2>2, <2>7, <2>8 DEF SlotMatches, Snapshot
    <2> QED BY <1>d, <2>1, <2>5, <2>9 DEF SoleInv
  <1>13. ASSUME UNCHANGED <<durable, memory>> PROVE SoleInv'
    <2>1. UNCHANGED <<durable, pc, op, current, previous>>
      BY <1>13 DEF memory
    <2>2. RegistryMatches' = RegistryMatches /\ SlotMatches' = SlotMatches
      BY <2>1, SoleFrame
    <2>3. /\ OperationIsStored' = OperationIsStored
          /\ RegistryOneBehind' = RegistryOneBehind
      BY <2>1 DEF OperationIsStored, RegistryOneBehind, durable
    <2> QED BY <1>d, <2>1, <2>2, <2>3 DEF SoleInv
  <1>14. \A r \in Requests : Authenticate(r) \/ Execute(r) \/ Finish(r)
                               => UNCHANGED <<durable, memory>>
    BY DEF Authenticate, Execute, Finish
  <1>15. UNCHANGED vars => UNCHANGED <<durable, memory>>
    BY DEF vars
  <1> QED
    BY <1>1, <1>2, <1>3, <1>4, <1>5, <1>6, <1>7, <1>8, <1>9, <1>10, <1>11,
       <1>12, <1>13, <1>14, <1>15 DEF PubNext

(* A gateway alone on its database serves exactly the graph SQLite holds   *)
(* for the active Version, across publications, rollbacks, edits, refusals *)
(* and stops at any step (snapshot_publisher.rs, publish and rollback).    *)
THEOREM SoleRuntimeFollowsDurable ==
    ASSUME Procs = {Server}
    PROVE  PubSpec => []RuntimeFollowsDurable
  <1>1. SoleInv /\ [PubNext]_vars => SoleInv'
    BY SoleStep
  <1>2. PubSpec => []SoleInv
    BY <1>1, SoleInit, PTL DEF PubSpec
  <1>3. SoleInv => RuntimeFollowsDurable
    BY DEF SoleInv, RuntimeFollowsDurable, RegistryMatches, Running
  <1> QED BY <1>2, <1>3, PTL

(* And its in-memory rollback slot is the one load_rollback_predecessor    *)
(* would rebuild: a restart neither loses nor changes the rollback target. *)
THEOREM SoleRollbackSlotDurable ==
    ASSUME Procs = {Server}
    PROVE  PubSpec => []RollbackSlotDurable
  <1>1. SoleInv /\ [PubNext]_vars => SoleInv'
    BY SoleStep
  <1>2. PubSpec => []SoleInv
    BY <1>1, SoleInit, PTL DEF PubSpec
  <1>3. SoleInv => RollbackSlotDurable
    BY DEF SoleInv, RollbackSlotDurable, SlotMatches, Running
  <1> QED BY <1>2, <1>3, PTL

------------------------------------------------------------------------------
(* The serving process beside any others.                                  *)

(* A Snapshot of a persisted Version was published and is what is stored.  *)
(* The rows are arguments, to compare a Snapshot with later rows.          *)
Stored(s, statuses, contents) ==
    s.version \in Versions =>
        /\ statuses[s.version] \in {"active", "archived"}
        /\ s.graph = contents[s.version]

(* Every Snapshot the serving process keeps is a stored one, its operation *)
(* included once the compiler saw it: nobody else edits drafts.            *)
ServerInv ==
    /\ Stored(current[Server], status, content)
    /\ Stored(previous[Server], status, content)
    /\ Stored(composed, status, content)
    /\ composed.version # Bootstrap
    /\ pc[Server] # "down" => current[Server].version # NoVersion
    /\ pc[Server] \in {"reserved", "activated"}
          => op[Server].graph = content[op[Server].version]
    /\ pc[Server] = "activated" => Stored(op[Server], status, content)

LEMMA StoredStays ==
    ASSUME \A v \in Versions : RowKept(v), NEW s, Stored(s, status, content)
    PROVE  Stored(s, status', content')
  BY DEF RowKept, Stored

LEMMA NotPersisted ==
    ASSUME NEW statuses, NEW contents
    PROVE  /\ Stored(NoSnapshot, statuses, contents)
           /\ Stored(BootstrapSnapshot, statuses, contents)
  BY SnapshotTypes, PublicationConstants DEF Stored

LEMMA ServerInit == PubInit => ServerInv
  <1> SUFFICES ASSUME PubInit PROVE ServerInv
    OBVIOUS
  <1>1. /\ pc[Server] = "down" /\ current[Server] = NoSnapshot
        /\ previous[Server] = NoSnapshot /\ composed = NoSnapshot
    BY PublicationConstants DEF PubInit
  <1>2. composed.version # Bootstrap
    BY <1>1, SnapshotTypes, PublicationConstants
  <1> QED BY <1>1, <1>2, NotPersisted DEF ServerInv

(* A step that leaves the server's memory and every graph alone: another   *)
(* process's, a request's, or the creation of a draft.                     *)
LEMMA ServerUntouched ==
    ASSUME ServerInv, \A v \in Versions : RowKept(v),
           UNCHANGED <<content, composed>>,
           pc'[Server] = pc[Server], op'[Server] = op[Server],
           current'[Server] = current[Server], previous'[Server] = previous[Server]
    PROVE  ServerInv'
  <1>1. /\ Stored(current[Server], status', content')
        /\ Stored(previous[Server], status', content')
        /\ Stored(composed, status', content')
    BY StoredStays DEF ServerInv
  <1>2. pc[Server] = "activated" => Stored(op[Server], status', content')
    BY StoredStays DEF ServerInv
  <1> QED BY <1>1, <1>2 DEF ServerInv

LEMMA OthersLeaveServer ==
    ASSUME DurableInv, ServerInv, \A v \in Versions : RowKept(v),
           NEW p \in Procs \ {Server},
           \/ BootstrapCurrent(p) \/ BootstrapPrevious(p) \/ Stop(p)
           \/ PreparePublish(p) \/ PrepareRollback(p)
           \/ Activate(p) \/ Refuse(p) \/ Commit(p)
           \/ \E v \in Versions : Create(p, v) \/ BeginPublish(p, v)
    PROVE  ServerInv'
  <1>t. PubTypeOK
    BY DEF DurableInv
  <1>1. UNCHANGED <<content, composed>>
    BY DEF BootstrapCurrent, BootstrapPrevious, Stop, PreparePublish, PrepareRollback,
           Activate, Refuse, Commit, Create, BeginPublish, durable, memory
  <1>2. pc'[Server] = pc[Server]
    BY <1>t, PublicationConstants
       DEF BootstrapCurrent, BootstrapPrevious, Stop, PreparePublish, PrepareRollback,
           Activate, Refuse, Commit, Create, BeginPublish, memory, PubTypeOK
  <1>3. op'[Server] = op[Server]
    BY <1>t, PublicationConstants
       DEF BootstrapCurrent, BootstrapPrevious, Stop, PreparePublish, PrepareRollback,
           Activate, Refuse, Commit, Create, BeginPublish, memory, PubTypeOK
  <1>4. current'[Server] = current[Server]
    BY <1>t, PublicationConstants
       DEF BootstrapCurrent, BootstrapPrevious, Stop, PreparePublish, PrepareRollback,
           Activate, Refuse, Commit, Create, BeginPublish, memory, PubTypeOK
  <1>5. previous'[Server] = previous[Server]
    BY <1>t, PublicationConstants
       DEF BootstrapCurrent, BootstrapPrevious, Stop, PreparePublish, PrepareRollback,
           Activate, Refuse, Commit, Create, BeginPublish, memory, PubTypeOK
  <1> QED BY <1>1, <1>2, <1>3, <1>4, <1>5, ServerUntouched

LEMMA ServerStep == DurableInv /\ ServerInv /\ [PubNext]_vars => ServerInv'
  <1> SUFFICES ASSUME DurableInv, ServerInv, [PubNext]_vars PROVE ServerInv'
    OBVIOUS
  <1>t. PubTypeOK /\ AtMostOneActive
    BY DEF DurableInv
  <1>r. \A v \in Versions : RowKept(v)
    BY ImmutableStep
  <1>s. Server \in Procs
    BY PublicationConstants
  <1>k. /\ Stored(current[Server], status', content')
        /\ Stored(previous[Server], status', content')
        /\ Stored(composed, status', content')
    BY <1>r, StoredStays DEF ServerInv
  <1>1. CASE BootstrapCurrent(Server)
    <2>1. /\ UNCHANGED <<durable, op, previous, composed>>
          /\ pc'[Server] \in {"composing", "bootstrapping"}
      BY <1>1, <1>s, <1>t DEF BootstrapCurrent, AfterBootstrap, PubTypeOK
    <2>2. \/ current'[Server] = BootstrapSnapshot
          \/ \E v \in Active : current'[Server] = Snapshot(v, content[v])
      BY <1>1, <1>s, <1>t DEF BootstrapCurrent, PubTypeOK
    <2>3. ASSUME NEW v \in Active
          PROVE  /\ Stored(Snapshot(v, content[v]), status, content)
                 /\ Snapshot(v, content[v]).version # NoVersion
      <3>1. v \in Versions /\ status[v] = "active" /\ content[v] \in Contents
        BY <1>t DEF Active, PubTypeOK
      <3> QED BY <3>1, SnapshotTypes, PublicationConstants DEF Stored
    <2>4. BootstrapSnapshot.version # NoVersion
      BY SnapshotTypes, PublicationConstants
    <2>5. Stored(current'[Server], status', content') /\ current'[Server].version # NoVersion
      BY <2>1, <2>2, <2>3, <2>4, NotPersisted DEF durable
    <2> QED BY <1>k, <2>1, <2>5 DEF ServerInv
  <1>2. CASE BootstrapPrevious(Server)
    <2>1. /\ UNCHANGED <<durable, op, current, composed>>
          /\ pc[Server] = "bootstrapping" /\ pc'[Server] = "composing"
      BY <1>2, <1>s, <1>t DEF BootstrapPrevious, AfterBootstrap, PubTypeOK
    <2>2. \/ previous' = previous
          \/ \E v \in Versions : /\ status[v] = "archived"
                                 /\ previous'[Server] = Snapshot(v, content[v])
      BY <1>2, <1>s, <1>t DEF BootstrapPrevious, PubTypeOK
    <2>3. ASSUME NEW v \in Versions, status[v] = "archived"
          PROVE  Stored(Snapshot(v, content[v]), status, content)
      <3>1. content[v] \in Contents
        BY <1>t DEF PubTypeOK
      <3> QED BY <2>3, <3>1, SnapshotTypes DEF Stored
    <2>4. Stored(previous'[Server], status', content')
      BY <1>k, <2>1, <2>2, <2>3 DEF durable
    <2> QED BY <1>k, <2>1, <2>4 DEF ServerInv
  <1>3. CASE Stop(Server)
    <2>1. /\ pc'[Server] = "down" /\ current'[Server] = NoSnapshot
          /\ previous'[Server] = NoSnapshot /\ composed' = NoSnapshot
      BY <1>3, <1>s, <1>t DEF Stop, PubTypeOK
    <2>2. composed'.version # Bootstrap
      BY <2>1, SnapshotTypes, PublicationConstants
    <2> QED BY <2>1, <2>2, NotPersisted DEF ServerInv
  <1>4. CASE PreparePublish(Server) \/ PrepareRollback(Server)
    <2>1. /\ UNCHANGED <<durable, current, previous, composed>>
          /\ pc[Server] # "down" /\ pc'[Server] = "reserved"
      BY <1>4, <1>s, <1>t DEF PreparePublish, PrepareRollback, PubTypeOK
    <2>2. \/ \E v \in Versions : op'[Server] = Snapshot(v, content[v])
          \/ previous[Server].version \in Versions /\ op'[Server] = previous[Server]
      BY <1>4, <1>s, <1>t DEF PreparePublish, PrepareRollback, PubTypeOK
    <2>3. op'[Server].graph = content[op'[Server].version]
      BY <2>2, <1>t, SnapshotTypes DEF ServerInv, Stored, PubTypeOK
    <2> QED BY <1>k, <2>1, <2>3 DEF ServerInv, durable
  <1>5. CASE Activate(Server)
    <2>1. PICK v \in Versions : v = op[Server].version
      BY <1>5, <1>s, <1>t DEF Activate, PubTypeOK
    <2>2. /\ UNCHANGED <<content, op, current, previous, composed>>
          /\ pc[Server] = "reserved" /\ pc'[Server] = "activated"
          /\ status' = Activated(v)
      BY <1>5, <1>s, <1>t, <2>1 DEF Activate, PubTypeOK
    <2>3. Stored(op[Server], status', content')
      BY <2>1, <2>2 DEF ServerInv, Stored, Activated
    <2> QED BY <1>k, <2>2, <2>3 DEF ServerInv
  <1>6. CASE Refuse(Server) \/ \E v \in Versions : BeginPublish(Server, v)
    <2>1. /\ UNCHANGED <<durable, current, previous, composed>>
          /\ pc[Server] # "down" /\ pc'[Server] \in {"idle", "checked"}
      BY <1>6, <1>s, <1>t DEF Refuse, BeginPublish, PubTypeOK
    <2> QED BY <1>k, <2>1 DEF ServerInv
  <1>7. CASE Commit(Server)
    <2>1. /\ UNCHANGED <<durable, composed>>
          /\ pc[Server] = "activated" /\ pc'[Server] = "idle"
          /\ current'[Server] = op[Server] /\ previous'[Server] = current[Server]
      BY <1>7, <1>s, <1>t DEF Commit, PubTypeOK
    <2>2. Stored(op[Server], status', content')
      BY <2>1 DEF ServerInv, durable
    <2>3. op[Server].version # NoVersion
      BY <2>1, <1>s, <1>t, PublicationConstants DEF PubTypeOK
    <2> QED BY <1>k, <2>1, <2>2, <2>3 DEF ServerInv
  <1>8. ASSUME NEW v \in Versions, Create(Server, v) PROVE ServerInv'
    BY <1>8, <1>r, ServerUntouched DEF Create, memory
  <1>9. CASE Compose
    <2>1. /\ UNCHANGED <<durable, op, current, previous>>
          /\ pc[Server] = "composing" /\ pc'[Server] = "idle"
      BY <1>9, <1>s, <1>t DEF Compose, PubTypeOK
    <2>2. composed' = NoSnapshot \/ \E v \in Active : composed' = Snapshot(v, content[v])
      BY <1>9 DEF Compose
    <2>3. ASSUME NEW v \in Active
          PROVE  /\ Stored(Snapshot(v, content[v]), status, content)
                 /\ Snapshot(v, content[v]).version # Bootstrap
      <3>1. v \in Versions /\ status[v] = "active" /\ content[v] \in Contents
        BY <1>t DEF Active, PubTypeOK
      <3> QED BY <3>1, SnapshotTypes, PublicationConstants DEF Stored
    <2>4. NoSnapshot.version # Bootstrap
      BY SnapshotTypes, PublicationConstants
    <2>5. Stored(composed', status', content') /\ composed'.version # Bootstrap
      BY <2>1, <2>2, <2>3, <2>4, NotPersisted DEF durable
    <2> QED BY <1>k, <2>1, <2>5 DEF ServerInv
  <1>10. ASSUME NEW v \in Versions, NEW c \in Contents, Edit(v, c)
         PROVE  ServerInv'
    <2>1. pc[Server] = "idle" /\ UNCHANGED <<pc, op, current, previous, composed>>
      BY <1>10 DEF Edit, memory
    <2> QED BY <1>k, <2>1 DEF ServerInv
  <1>11. ASSUME UNCHANGED <<durable, memory>> PROVE ServerInv'
    BY <1>11, <1>r, ServerUntouched DEF durable, memory
  <1>12. \A r \in Requests : Authenticate(r) \/ Execute(r) \/ Finish(r)
                               => UNCHANGED <<durable, memory>>
    BY DEF Authenticate, Execute, Finish
  <1>13. UNCHANGED vars => UNCHANGED <<durable, memory>>
    BY DEF vars
  <1>14. ASSUME NEW p \in Procs \ {Server},
                \/ BootstrapCurrent(p) \/ BootstrapPrevious(p) \/ Stop(p)
                \/ PreparePublish(p) \/ PrepareRollback(p)
                \/ Activate(p) \/ Refuse(p) \/ Commit(p)
                \/ \E v \in Versions : Create(p, v) \/ BeginPublish(p, v)
         PROVE  ServerInv'
    BY <1>14, <1>r, OthersLeaveServer
  <1> QED
    BY <1>1, <1>2, <1>3, <1>4, <1>5, <1>6, <1>7, <1>8, <1>9, <1>10, <1>11, <1>12,
       <1>13, <1>14 DEF PubNext

(* Whatever other processes publish or roll back meanwhile, a registry     *)
(* that shows the composed id shows the composed graph: the id comparison  *)
(* of snapshot_is_current (runtime.rs) never admits a request to another.  *)
THEOREM CurrentIdDecides == PubSpec => []CurrentIdMeansGraph
  <1>1. PubSpec => []DurableInv
    BY DurableInit, DurableStep, PTL DEF PubSpec
  <1>2. PubSpec => []ServerInv
    BY <1>1, ServerInit, ServerStep, PTL DEF PubSpec
  <1>3. DurableInv /\ ServerInv => CurrentIdMeansGraph
    <2> SUFFICES ASSUME DurableInv, ServerInv, Running(Server),
                        current[Server].version = composed.version
                 PROVE  current[Server] = composed
      BY DEF CurrentIdMeansGraph
    <2>1. current[Server] \in Snapshots /\ composed \in Snapshots
      BY PublicationConstants DEF DurableInv, PubTypeOK
    <2>2. composed.version \in Versions
      BY <2>1 DEF ServerInv, Running, Snapshots
    <2>3. current[Server].graph = composed.graph
      BY <2>2 DEF ServerInv, Stored
    <2> QED BY <2>1, <2>3 DEF Snapshots
  <1> QED BY <1>1, <1>2, <1>3, PTL
==============================================================================
