------------------------- MODULE SnapshotPublication -------------------------
(***************************************************************************)
(* Configuration publication: the Config Versions in SQLite, the           *)
(* RouteSnapshotRegistry of every process that opened the database, and    *)
(* the data plane of the serving process.                                  *)
(*                                                                         *)
(* A publication spans two stores.  It loads and compiles a Version,       *)
(* reserves the registry, activates the Version in one SQLite transaction, *)
(* and only then swaps the compiled Snapshot into memory.  The process may *)
(* stop between any two of these steps, and a `gateway admin` process may  *)
(* run its own lifecycle operation against the same database meanwhile.    *)
(* Inside one process lifecycle operations and draft edits never overlap:  *)
(* the management server has one worker and its handlers do not yield.     *)
(* The data plane runs beside them on a thread of its own.                 *)
(*                                                                         *)
(* Of the append-only audit table only what the rollback predecessor is    *)
(* read from is kept: for each Version, the Version replaced by its latest *)
(* publication or rollback.  A Version's graph is an opaque content.       *)
(***************************************************************************)
EXTENDS Naturals

CONSTANTS
    Versions,     \* ConfigVersionIds
    Contents,     \* configuration graphs
    Empty,        \* the graph of a fresh draft
    Procs,        \* processes that open the control database
    Server,       \* the one that serves: it edits drafts and has a data plane
    Compiles,     \* Compiles[p]: the graphs p's compiler evidence admits
    Composes,     \* the graphs a data plane can be composed from
    Requests,     \* in-flight data-plane requests
    MaxRevision,  \* bound on a draft's revision
    Bootstrap,    \* SYNTHETIC_BOOTSTRAP_VERSION
    NoVersion,    \* None of an optional Version
    NoEvent       \* no publication or rollback was ever recorded

ASSUME PublicationConstants ==
    /\ Empty \in Contents
    /\ Server \in Procs
    /\ Compiles \in [Procs -> SUBSET Contents]
    /\ Composes \subseteq Contents
    /\ MaxRevision \in Nat
    /\ Bootstrap \notin Versions
    /\ NoVersion \notin Versions \cup {Bootstrap}
    /\ NoEvent \notin Versions \cup {NoVersion}

VARIABLES
    status,    \* config_versions.status, "absent" when there is no row
    revision,  \* config_versions.revision
    content,   \* the graph rows of the Version
    replaced,  \* latest publish or rollback event: the Version it replaced
    pc,        \* where each process stands
    op,        \* the Snapshot an operation of the process is about
    current,   \* RouteSnapshotRegistry.current
    previous,  \* SnapshotPublicationState.previous
    composed,  \* what the data plane was composed from at start
    request    \* the data plane's requests

durable == <<status, revision, content, replaced>>
memory == <<pc, op, current, previous, composed>>
vars == <<durable, memory, request>>

Statuses == {"absent", "draft", "active", "archived"}

Snapshot(v, c) == [version |-> v, graph |-> c]

NoSnapshot == Snapshot(NoVersion, Empty)

BootstrapSnapshot == Snapshot(Bootstrap, Empty)

Snapshots ==
    [version : Versions \cup {Bootstrap, NoVersion}, graph : Contents]

IdleRequest == [at |-> "idle", pinned |-> NoSnapshot]

RequestStates ==
    [at : {"idle", "pinned", "executed", "stale"}, pinned : Snapshots]

(* The query "status = active"; activation keeps the answer unique. *)
Active == {v \in Versions : status[v] = "active"}

Running(p) == pc[p] \in {"idle", "checked", "reserved", "activated"}

PubInit ==
    /\ status = [v \in Versions |-> "absent"]
    /\ revision = [v \in Versions |-> 0]
    /\ content = [v \in Versions |-> Empty]
    /\ replaced = [v \in Versions |-> NoEvent]
    /\ pc = [p \in Procs |-> "down"]
    /\ op = [p \in Procs |-> NoSnapshot]
    /\ current = [p \in Procs |-> NoSnapshot]
    /\ previous = [p \in Procs |-> NoSnapshot]
    /\ composed = NoSnapshot
    /\ request = [r \in Requests |-> IdleRequest]

------------------------------------------------------------------------------
(* Start and stop of a process.                                            *)

(* The composition root of the serving process follows the bootstrap. *)
AfterBootstrap(p) == IF p = Server THEN "composing" ELSE "idle"

(* load_active_configuration and the compilation of what it returns. *)
BootstrapCurrent(p) ==
    /\ pc[p] = "down"
    /\ IF Active = {}
       THEN /\ current' = [current EXCEPT ![p] = BootstrapSnapshot]
            /\ pc' = [pc EXCEPT ![p] = AfterBootstrap(p)]
       ELSE \E v \in Active :
                /\ content[v] \in Compiles[p]
                /\ current' = [current EXCEPT ![p] = Snapshot(v, content[v])]
                /\ pc' = [pc EXCEPT ![p] = "bootstrapping"]
    /\ UNCHANGED <<durable, op, previous, composed, request>>

(* load_rollback_predecessor and the compilation of what it returns. *)
BootstrapPrevious(p) ==
    LET predecessor == replaced[current[p].version] IN
    /\ pc[p] = "bootstrapping"
    /\ \/ /\ predecessor \notin Versions
          /\ UNCHANGED previous
       \/ /\ predecessor \in Versions
          /\ status[predecessor] = "archived"
          /\ content[predecessor] \in Compiles[p]
          /\ predecessor # current[p].version
          /\ previous' = [previous EXCEPT
                 ![p] = Snapshot(predecessor, content[predecessor])]
    /\ pc' = [pc EXCEPT ![p] = AfterBootstrap(p)]
    /\ UNCHANGED <<durable, op, current, composed, request>>

(* Fault: the composition trusts the id it read without comparing it with  *)
(* the registry's.                                                         *)
ComposeUnchecked ==
    /\ pc[Server] = "composing"
    /\ composed' = IF Active = {}
                   THEN NoSnapshot
                   ELSE LET v == CHOOSE w \in Active : TRUE
                        IN  Snapshot(current[Server].version, content[v])
    /\ pc' = [pc EXCEPT ![Server] = "idle"]
    /\ UNCHANGED <<durable, op, current, previous, request>>

(* The data plane reads the active Version again, requires a complete      *)
(* graph of the Version the registry shows, and pins its id.               *)
Compose ==
    /\ pc[Server] = "composing"
    /\ IF Active = {}
       THEN composed' = NoSnapshot
       ELSE \E v \in Active :
                /\ content[v] \in Composes
                /\ v = current[Server].version
                /\ composed' = Snapshot(v, content[v])
    /\ pc' = [pc EXCEPT ![Server] = "idle"]
    /\ UNCHANGED <<durable, op, current, previous, request>>

(* A bootstrap or composition error, an exit or a crash: memory is lost.   *)
Stop(p) ==
    /\ pc[p] # "down"
    /\ pc' = [pc EXCEPT ![p] = "down"]
    /\ op' = [op EXCEPT ![p] = NoSnapshot]
    /\ current' = [current EXCEPT ![p] = NoSnapshot]
    /\ previous' = [previous EXCEPT ![p] = NoSnapshot]
    /\ IF p = Server
       THEN /\ composed' = NoSnapshot
            /\ request' = [r \in Requests |-> IdleRequest]
       ELSE UNCHANGED <<composed, request>>
    /\ UNCHANGED durable

------------------------------------------------------------------------------
(* Drafts.                                                                 *)

(* create_empty_configuration: the row, its empty graph, config_created. *)
Create(p, v) ==
    /\ pc[p] = "idle"
    /\ status[v] = "absent"
    /\ status' = [status EXCEPT ![v] = "draft"]
    /\ UNCHANGED <<revision, content, replaced, memory, request>>

(* mutate_draft_configuration: the revision bump and the graph change. *)
Edit(v, c) ==
    /\ pc[Server] = "idle"
    /\ status[v] = "draft"
    /\ revision[v] < MaxRevision
    /\ revision' = [revision EXCEPT ![v] = @ + 1]
    /\ content' = [content EXCEPT ![v] = c]
    /\ UNCHANGED <<status, replaced, memory, request>>

------------------------------------------------------------------------------
(* Publication and rollback.                                               *)

(* The HTTP facade admits a draft at the declared revision; the local CLI  *)
(* goes straight to the publisher, which also takes archived Versions.     *)
BeginPublish(p, v) ==
    /\ pc[p] = "idle"
    /\ p = Server => status[v] = "draft"
    /\ status[v] # "absent"
    /\ pc' = [pc EXCEPT ![p] = "checked"]
    /\ op' = [op EXCEPT ![p] = Snapshot(v, Empty)]
    /\ UNCHANGED <<durable, current, previous, composed, request>>

(* load_configuration, compiled_snapshot, prepare_publication. *)
PreparePublish(p) ==
    LET v == op[p].version IN
    /\ pc[p] = "checked"
    /\ content[v] \in Compiles[p]
    /\ v # current[p].version
    /\ op' = [op EXCEPT ![p] = Snapshot(v, content[v])]
    /\ pc' = [pc EXCEPT ![p] = "reserved"]
    /\ UNCHANGED <<durable, current, previous, composed, request>>

(* prepare_rollback: the retained Snapshot, never the synthetic one. *)
PrepareRollback(p) ==
    /\ pc[p] = "idle"
    /\ p = Server => Active # {}
    /\ previous[p].version \in Versions
    /\ previous[p].version # current[p].version
    /\ op' = [op EXCEPT ![p] = previous[p]]
    /\ pc' = [pc EXCEPT ![p] = "reserved"]
    /\ UNCHANGED <<durable, current, previous, composed, request>>

(* The status rows once v is the active Version. *)
Activated(v) ==
    [w \in Versions |-> IF w = v THEN "active"
                        ELSE IF status[w] = "active" THEN "archived"
                        ELSE status[w]]

(* The audit row of the activation names the Version that was active. *)
Recorded(v) ==
    [replaced EXCEPT
        ![v] = IF Active = {} THEN NoVersion ELSE CHOOSE w \in Active : TRUE]

(* Fault: the audit row is left out of the transaction. *)
ActivateUnaudited(p) ==
    LET v == op[p].version IN
    /\ pc[p] = "reserved"
    /\ status[v] \in {"draft", "archived"}
    /\ status' = Activated(v)
    /\ pc' = [pc EXCEPT ![p] = "activated"]
    /\ UNCHANGED <<revision, content, replaced, op, current, previous,
                   composed, request>>

(* activate_version_with_audit: one immediate SQLite transaction. *)
Activate(p) ==
    LET v == op[p].version IN
    /\ pc[p] = "reserved"
    /\ status[v] \in {"draft", "archived"}
    /\ status' = Activated(v)
    /\ replaced' = Recorded(v)
    /\ pc' = [pc EXCEPT ![p] = "activated"]
    /\ UNCHANGED <<revision, content, op, current, previous, composed, request>>

(* Any error before the commit (no such Version, a graph that does not     *)
(* compile, the same Version, already active, a SQLite failure) drops the  *)
(* reservation.                                                            *)
Refuse(p) ==
    /\ pc[p] \in {"checked", "reserved"}
    /\ pc' = [pc EXCEPT ![p] = "idle"]
    /\ op' = [op EXCEPT ![p] = NoSnapshot]
    /\ UNCHANGED <<durable, current, previous, composed, request>>

(* Fault: the rollback slot is left as it was. *)
CommitKeepsPrevious(p) ==
    /\ pc[p] = "activated"
    /\ current' = [current EXCEPT ![p] = op[p]]
    /\ pc' = [pc EXCEPT ![p] = "idle"]
    /\ op' = [op EXCEPT ![p] = NoSnapshot]
    /\ UNCHANGED <<durable, previous, composed, request>>

(* PreparedSnapshotPublication::commit. *)
Commit(p) ==
    /\ pc[p] = "activated"
    /\ current' = [current EXCEPT ![p] = op[p]]
    /\ previous' = [previous EXCEPT ![p] = current[p]]
    /\ pc' = [pc EXCEPT ![p] = "idle"]
    /\ op' = [op EXCEPT ![p] = NoSnapshot]
    /\ UNCHANGED <<durable, composed, request>>

------------------------------------------------------------------------------
(* Requests on the data-plane thread.                                      *)

(* authenticate_pinned: an empty graph, the synthetic one included, knows  *)
(* no Client Key.                                                          *)
Authenticate(r) ==
    /\ Running(Server)
    /\ request[r].at = "idle"
    /\ current[Server].graph # Empty
    /\ request' = [request EXCEPT
           ![r] = [at |-> "pinned", pinned |-> current[Server]]]
    /\ UNCHANGED <<durable, memory>>

(* execute_routed, after the body was read: snapshot_is_current looks at   *)
(* the registry again.  Without a composed Version there is no executor.   *)
Execute(r) ==
    /\ Running(Server)
    /\ request[r].at = "pinned"
    /\ request' = [request EXCEPT
           ![r].at = IF current[Server].version = composed.version
                     THEN "executed" ELSE "stale"]
    /\ UNCHANGED <<durable, memory>>

(* The response is delivered or the request failed. *)
Finish(r) ==
    /\ request[r].at \in {"pinned", "executed", "stale"}
    /\ request' = [request EXCEPT ![r] = IdleRequest]
    /\ UNCHANGED <<durable, memory>>

PubNext ==
    \/ \E p \in Procs :
          \/ BootstrapCurrent(p) \/ BootstrapPrevious(p) \/ Stop(p)
          \/ PreparePublish(p) \/ PrepareRollback(p)
          \/ Activate(p) \/ Refuse(p) \/ Commit(p)
          \/ \E v \in Versions : Create(p, v) \/ BeginPublish(p, v)
    \/ Compose
    \/ \E v \in Versions, c \in Contents : Edit(v, c)
    \/ \E r \in Requests : Authenticate(r) \/ Execute(r) \/ Finish(r)

PubSpec == PubInit /\ [][PubNext]_vars

------------------------------------------------------------------------------
(* Every row, registry and request is well typed, and an operation is      *)
(* always about a persisted Version: rollback never targets the synthetic  *)
(* Snapshot of a process that started without an active Version.           *)
PubTypeOK ==
    /\ status \in [Versions -> Statuses]
    /\ revision \in [Versions -> 0 .. MaxRevision]
    /\ content \in [Versions -> Contents]
    /\ replaced \in [Versions -> Versions \cup {NoVersion, NoEvent}]
    /\ pc \in [Procs -> {"down", "bootstrapping", "composing", "idle",
                         "checked", "reserved", "activated"}]
    /\ op \in [Procs -> Snapshots]
    /\ current \in [Procs -> Snapshots]
    /\ previous \in [Procs -> Snapshots]
    /\ composed \in Snapshots
    /\ request \in [Requests -> RequestStates]
    /\ \A p \in Procs :
          /\ pc[p] \in {"checked", "reserved", "activated"}
                => op[p].version \in Versions
          /\ pc[p] = "bootstrapping" => current[p].version \in Versions

(* activate_version keeps at most one Version active, whichever processes  *)
(* publish and roll back at once and wherever they stop.                   *)
AtMostOneActive == \A v, w \in Active : v = w

(* The Version that the latest activation of the active Version replaced   *)
(* is archived, so load_rollback_predecessor never finds the evidence      *)
(* malformed and a restart keeps its rollback target.                      *)
PredecessorArchived ==
    \A v \in Active :
        /\ replaced[v] \in Versions \cup {NoVersion}
        /\ replaced[v] \in Versions => status[replaced[v]] = "archived"

(* Activations leave the database restartable, whichever processes share   *)
(* it: one Version to serve at most, with an archived predecessor to roll  *)
(* back to or none.                                                        *)
ActivationsSound == AtMostOneActive /\ PredecessorArchived

(* With one process on the database, the Snapshot requests see is the      *)
(* active Version's stored graph whenever no activation waits for its      *)
(* ArcSwap commit, also after a stop between the two.                      *)
RuntimeFollowsDurable ==
    Running(Server) /\ pc[Server] # "activated" =>
        IF Active = {}
        THEN current[Server] = BootstrapSnapshot
        ELSE \A v \in Active : current[Server] = Snapshot(v, content[v])

(* With one process on the database, the rollback slot in memory is the    *)
(* one a restart would rebuild from the audit evidence.                    *)
RollbackSlotDurable ==
    Running(Server) /\ pc[Server] # "activated" =>
        \A v \in Active :
            IF replaced[v] \in Versions
            THEN previous[Server] = Snapshot(replaced[v], content[replaced[v]])
            ELSE previous[Server] \in {NoSnapshot, BootstrapSnapshot}

(* The graph of every Version that is or was active passed the compiler of *)
(* a process: what was validated is what is published, so the next         *)
(* bootstrap compiles.                                                     *)
PublishedWasCompiled ==
    \A v \in Versions :
        status[v] \in {"active", "archived"}
            => \E p \in Procs : content[v] \in Compiles[p]

(* A registry that shows the composed id also shows the composed graph:    *)
(* the id comparison in snapshot_is_current is as good as comparing the    *)
(* graphs, however the registry came back to that id.                      *)
CurrentIdMeansGraph ==
    Running(Server) /\ current[Server].version = composed.version
        => current[Server] = composed

(* One request never mixes Snapshot Versions: it runs on the composition   *)
(* of the Version it was authenticated and resolved against.               *)
RequestUsesOneVersion ==
    \A r \in Requests :
        request[r].at = "executed"
            => request[r].pinned.version = composed.version

(* Once published, a Version's graph and revision never change again.      *)
PublishedIsImmutable ==
    [][\A v \in Versions :
           status[v] \in {"active", "archived"} =>
               /\ content'[v] = content[v]
               /\ revision'[v] = revision[v]
               /\ status'[v] \in {"active", "archived"}]_vars
==============================================================================
