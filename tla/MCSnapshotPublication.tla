------------------------ MODULE MCSnapshotPublication ------------------------
(***************************************************************************)
(* Instances of SnapshotPublication.  The serving process compiles every   *)
(* graph but the broken one; the local CLI has empty compiler evidence and *)
(* compiles only the empty graph.  The serving process is either alone on  *)
(* its database, or shares it with the CLI; "shared" leaves out the broken *)
(* graph and gives drafts one edit, to keep three Versions tractable,      *)
(* "racing" is the same without these bounds, for two Versions.            *)
(***************************************************************************)
EXTENDS SnapshotPublication, TLC

CONSTANTS Routed, Broken, Cli, Deployments

VARIABLE deployment

ServerAndCli == (Server :> {Empty, Routed}) @@ (Cli :> {Empty})

DeployedInit == PubInit /\ deployment \in Deployments

DeployedNext ==
    /\ PubNext
    /\ deployment = "alone" => pc'[Cli] = "down"
    /\ deployment = "shared" =>
           \A v \in Versions : revision'[v] <= 1 /\ content'[v] # Broken
    /\ UNCHANGED deployment

DeployedSpec == DeployedInit /\ [][DeployedNext]_<<vars, deployment>>

Symmetric == Permutations(Versions)

(* With one process on the database, the Snapshot requests see is the      *)
(* active Version's stored graph whenever no activation waits for its      *)
(* ArcSwap commit, also after a stop between the two; the rollback slot in *)
(* memory is the one a restart would rebuild; and every graph that is or   *)
(* was active passed the compiler, so the next bootstrap compiles.         *)
AloneConsistent ==
    deployment = "alone" =>
        RuntimeFollowsDurable /\ RollbackSlotDurable /\ PublishedWasCompiled
==============================================================================
