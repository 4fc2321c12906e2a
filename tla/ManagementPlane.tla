-------------------------- MODULE ManagementPlane ---------------------------
(***************************************************************************)
(* The resource operations of the management plane: ManagementMutation-    *)
(* Service over the SQLite repository.  Every change of a draft is one     *)
(* transaction that requires the draft status and the revision the caller  *)
(* expects, changes the rows, appends an audit event and takes the next    *)
(* revision.  A published Version changes only by the rotation of an OAuth *)
(* credential.  What a caller read last is kept as `view`: the rows and    *)
(* the revision its ETag shows.                                            *)
(*                                                                         *)
(* The management server has one worker and no handler yields, so every    *)
(* operation is one step.  A refused operation changes nothing.            *)
(***************************************************************************)
EXTENDS ConfigCompiler

CONSTANTS Versions, Scopes, NoRead

VARIABLES
    scope,     \* which tables this behaviour edits, and how often
    versions,  \* config_versions with the rows and audit events of each
    view       \* what the observed client read last

serviceVars == <<scope, versions, view>>

Graph(v) == versions[v].graph

Absent ==
    [status |-> "absent", revision |-> 0, audits |-> 0, notes |-> 0,
     graph |-> EmptyGraph]

ServiceInit ==
    /\ scope \in Scopes
    /\ versions = [v \in Versions |-> Absent]
    /\ view = NoRead

------------------------------------------------------------------------------
(* Fault: a transaction that leaves the revision of the draft as it is     *)
(* when rows disappear.                                                    *)
MutateDraftDeleteQuietly(v, expected, stored) ==
    /\ versions[v].status = "draft"
    /\ versions[v].revision = expected
    /\ expected < scope.edits
    /\ stored.ok
    /\ versions' = [versions EXCEPT
           ![v].graph = stored.graph,
           ![v].revision = IF \E t \in Tables :
                                  Ids(Graph(v)[t]) \ Ids(stored.graph[t]) # {}
                           THEN @ ELSE @ + 1,
           ![v].audits = @ + 1]
    /\ UNCHANGED <<scope, view>>

(* mutate_draft_configuration: require_and_bump_draft_revision, the        *)
(* statement, the audit event, commit.                                     *)
MutateDraft(v, expected, stored) ==
    /\ versions[v].status = "draft"
    /\ versions[v].revision = expected
    /\ expected < scope.edits
    /\ stored.ok
    /\ versions' = [versions EXCEPT ![v].graph = stored.graph,
                                    ![v].revision = @ + 1,
                                    ![v].audits = @ + 1]
    /\ UNCHANGED <<scope, view>>

(* A read answers with the rows and the revision of the same transaction. *)
Answer(v, table, by, key) ==
    /\ versions[v].status # "absent"
    /\ table \in scope.reads
    /\ view' = [version |-> v, revision |-> versions[v].revision,
                table |-> table, by |-> by, key |-> key,
                rows |-> {r \in Graph(v)[table] :
                             CASE by = "all" -> TRUE
                               [] by = "id" -> r.id = key
                               [] by = "parent" -> r.id[1] = key}]
    /\ UNCHANGED <<scope, versions>>

ListRows(v, table) == Answer(v, table, "all", NoRead)

GetRow(v, table, id) == Has(Graph(v)[table], id) /\ Answer(v, table, "id", id)

------------------------------------------------------------------------------
(* One definition per operation of the service.                            *)

list_egress_policies(v) == ListRows(v, "policies")
get_egress_policy(v, id) == GetRow(v, "policies", id)
create_egress_policy(v, n, row) ==
    MutateDraft(v, n, insert_egress_policy(Graph(v), row))
service_update_egress_policy(v, n, row) ==
    MutateDraft(v, n, update_egress_policy(Graph(v), row))
service_delete_egress_policy(v, n, id) ==
    MutateDraft(v, n, delete_egress_policy(Graph(v), id))

list_upstreams(v) == ListRows(v, "upstreams")
get_upstream(v, id) == GetRow(v, "upstreams", id)
create_upstream(v, n, row) == MutateDraft(v, n, insert_upstream(Graph(v), row))
service_update_upstream(v, n, row) ==
    MutateDraft(v, n, update_upstream(Graph(v), row))
service_delete_upstream(v, n, id) ==
    MutateDraft(v, n, delete_upstream(Graph(v), id))

get_endpoint(v, id) == GetRow(v, "endpoints", id)
create_endpoint(v, n, row) == MutateDraft(v, n, insert_endpoint(Graph(v), row))
service_update_endpoint(v, n, row) ==
    MutateDraft(v, n, update_endpoint(Graph(v), row))
service_delete_endpoint(v, n, id) ==
    MutateDraft(v, n, delete_endpoint(Graph(v), id))

get_credential(v, id) == GetRow(v, "credentials", id)
create_credential(v, n, row) ==
    MutateDraft(v, n, insert_credential(Graph(v), [row EXCEPT !.revision = 0]))

(* The Upstream is kept and the credential's own revision counts up. *)
service_update_credential(v, n, row) ==
    \E c \in Graph(v).credentials :
        /\ c.id = row.id
        /\ MutateDraft(v, n, update_credential(Graph(v),
               [row EXCEPT !.upstream = c.upstream, !.revision = c.revision + 1]))
service_delete_credential(v, n, id) ==
    MutateDraft(v, n, delete_credential(Graph(v), id))

(* rotate_active_credential: the credential's revision is compared, the    *)
(* Version's is neither compared nor changed.                              *)
rotate_active_credential(v, c, revision) ==
    /\ versions[v].status = "active"
    /\ c.revision = revision
    /\ versions' = [versions EXCEPT
           ![v].graph.credentials = (@ \ {c}) \cup
               {[c EXCEPT !.status = "active", !.revision = @ + 1]},
           ![v].notes = @ + 1]
    /\ UNCHANGED <<scope, view>>

persist_oauth_credential_if_revision(v, n, id, revision) ==
    \E c \in Graph(v).credentials :
        /\ c.id = id /\ c.revision = revision
        /\ revision < scope.edits
        /\ IF versions[v].status = "active"
           THEN rotate_active_credential(v, c, revision)
           ELSE MutateDraft(v, n, update_credential(Graph(v),
                    [c EXCEPT !.status = "active", !.revision = @ + 1]))

list_endpoint_credential_bindings(v, id) ==
    Has(Graph(v).endpoints, id) /\ Answer(v, "bindings", "parent", id)
create_endpoint_credential_binding(v, n, row) ==
    MutateDraft(v, n, insert_binding(Graph(v), row))

list_public_models(v) == ListRows(v, "models")
get_public_model(v, id) == GetRow(v, "models", id)
create_public_model(v, n, row) ==
    MutateDraft(v, n, insert_public_model(Graph(v), row))
service_update_public_model(v, n, row) ==
    MutateDraft(v, n, update_public_model(Graph(v), row))
service_delete_public_model(v, n, id) ==
    MutateDraft(v, n, delete_public_model(Graph(v), id))

create_model_alias(v, n, row) ==
    MutateDraft(v, n, insert_model_alias(Graph(v), row))

get_model_route(v, id) == GetRow(v, "routes", id)
create_model_route(v, n, row) ==
    MutateDraft(v, n, insert_model_route(Graph(v), row))
service_update_model_route(v, n, row) ==
    MutateDraft(v, n, update_model_route(Graph(v), row))
service_delete_model_route(v, n, id) ==
    MutateDraft(v, n, delete_model_route(Graph(v), id))
create_route_candidate(v, n, row) ==
    MutateDraft(v, n, insert_route_candidate(Graph(v), row))

list_access_groups(v) == ListRows(v, "groups")
get_access_group(v, id) == GetRow(v, "groups", id)
create_access_group(v, n, row) ==
    MutateDraft(v, n, insert_access_group(Graph(v), row))
service_update_access_group(v, n, row) ==
    MutateDraft(v, n, update_access_group(Graph(v), row))
service_delete_access_group(v, n, id) ==
    MutateDraft(v, n, delete_access_group(Graph(v), id))
list_access_group_routes(v, id) ==
    Has(Graph(v).groups, id) /\ Answer(v, "grants", "parent", id)
create_access_group_route(v, n, row) ==
    MutateDraft(v, n, insert_access_group_route(Graph(v), row))

list_client_keys(v) == ListRows(v, "keys")
get_client_key(v, id) == GetRow(v, "keys", id)
issue_client_key(v, n, row) ==
    MutateDraft(v, n, insert_client_key(Graph(v), row))
service_update_client_key(v, n, row) ==
    MutateDraft(v, n, update_client_key_metadata(Graph(v), row))
service_revoke_client_key(v, n, id) ==
    MutateDraft(v, n, revoke_client_key(Graph(v), id))

(* An audit event alone, whatever the status of the Version. *)
record_resource_action(v) ==
    /\ versions[v].status # "absent"
    /\ versions[v].notes < scope.notes
    /\ versions' = [versions EXCEPT ![v].notes = @ + 1]
    /\ UNCHANGED <<scope, view>>

(* An audit event of a draft, which takes a revision. *)
record_draft_resource_action(v, n) == MutateDraft(v, n, Stored(TRUE, Graph(v)))

------------------------------------------------------------------------------
(* The lifecycle operations a resource client meets.  The compiled         *)
(* Snapshot and the rollback are the subject of SnapshotPublication.       *)

create_empty_configuration(v) ==
    /\ versions[v].status = "absent"
    /\ v \in scope.versions
    /\ versions' = [versions EXCEPT ![v].status = "draft"]
    /\ UNCHANGED <<scope, view>>

publish(v, n) ==
    /\ versions[v].status = "draft"
    /\ versions[v].revision = n
    /\ CompileErrors(Graph(v)) = {}
    /\ versions' = [w \in Versions |->
           IF w = v THEN [versions[w] EXCEPT !.status = "active"]
           ELSE IF versions[w].status = "active"
           THEN [versions[w] EXCEPT !.status = "archived"]
           ELSE versions[w]]
    /\ UNCHANGED <<scope, view>>

-----------------------------------------------------------------------------
(***************************************************************************)
(* The HTTP handlers of the management resources.  A handler checks its    *)
(* headers (the Config Version and, for a write, the expected revision),   *)
(* the body, and that the body names the resource of the path; then it     *)
(* calls the service.  The bodies clients send are the rows of             *)
(* scope.bodies, valid or not.                                             *)
(***************************************************************************)

CONSTANTS MaxRedirects, MaxAttempts, MaxWeight  \* the limits of the handlers

Body(table) == scope.bodies[table]

PathIds(table) == Ids(scope.bodies[table])

(* Any expected revision: If-Match may be stale. *)
Expected(v) == {versions[v].revision} \cup
    (IF versions[v].revision > 0 THEN {versions[v].revision - 1} ELSE {})

------------------------------------------------------------------------------
(* The validation of a body.                                               *)

egress_policy(p) ==
    Range(p.schemes) \subseteq {"https"} /\ p.redirects \in 0..MaxRedirects

endpoint(e) == e.scheme = "https"

(* A client may say "revoked" of a credential; it is stored as disabled. *)
credential_input(c) == c.status \in {"active", "disabled", "revoked"}

StoredCredential(c) ==
    [c EXCEPT !.status = IF @ = "active" THEN "active" ELSE "disabled"]

model_route(r) == r.attempts \in 1..MaxAttempts

route_candidate(c) == c.weight \in 1..MaxWeight /\ c.priority >= 0

client_key_parts(k) == k.status \in {"active", "disabled", "revoked"}

------------------------------------------------------------------------------
ListEgressPolicies(v) == list_egress_policies(v)
GetEgressPolicy(v, id) == get_egress_policy(v, id)
CreateEgressPolicy(v, n, p) == egress_policy(p) /\ create_egress_policy(v, n, p)
UpdateEgressPolicy(v, n, p) ==
    egress_policy(p) /\ service_update_egress_policy(v, n, p)
DeleteEgressPolicy(v, n, id) == service_delete_egress_policy(v, n, id)

ListUpstreams(v) == list_upstreams(v)
GetUpstream(v, id) == get_upstream(v, id)
CreateUpstream(v, n, u) == create_upstream(v, n, u)
UpdateUpstream(v, n, u) == service_update_upstream(v, n, u)
DeleteUpstream(v, n, id) == service_delete_upstream(v, n, id)

GetEndpoint(v, id) == get_endpoint(v, id)
CreateEndpoint(v, n, e) == endpoint(e) /\ create_endpoint(v, n, e)

(* The path names no Upstream: the stored Endpoint's is taken. *)
UpdateEndpoint(v, n, e) ==
    \E stored \in Graph(v).endpoints :
        /\ stored.id = e.id
        /\ endpoint(e)
        /\ service_update_endpoint(v, n, [e EXCEPT !.upstream = stored.upstream])
DeleteEndpoint(v, n, id) == service_delete_endpoint(v, n, id)

(* require_endpoint_at_revision, the workflow, then the draft's record. *)
ApplyCatalogDiscovery(v, n, id) ==
    /\ Has(Graph(v).endpoints, id)
    /\ record_draft_resource_action(v, n)

GetCredential(v, id) == get_credential(v, id)
CreateCredential(v, n, c) ==
    credential_input(c) /\ create_credential(v, n, StoredCredential(c))
UpdateCredential(v, n, c) ==
    credential_input(c) /\ service_update_credential(v, n, StoredCredential(c))
DeleteCredential(v, n, id) == service_delete_credential(v, n, id)

(* The answer of the token endpoint is stored if the credential is still   *)
(* at the revision it was opened at.                                       *)
RefreshCredentialOauth(v, n, id) ==
    \E c \in Graph(v).credentials :
        /\ c.id = id
        /\ persist_oauth_credential_if_revision(v, n, id, c.revision)

ExportCredential(v, id) ==
    Has(Graph(v).credentials, id) /\ record_resource_action(v)

ListEndpointCredentialBindings(v, id) == list_endpoint_credential_bindings(v, id)

(* The binding's Upstream is the Endpoint's, and must be the credential's. *)
CreateEndpointCredentialBinding(v, n, b) ==
    \E e \in Graph(v).endpoints, c \in Graph(v).credentials :
        /\ e.id = b.endpoint /\ c.id = b.credential
        /\ e.upstream = c.upstream
        /\ create_endpoint_credential_binding(v, n,
               [b EXCEPT !.upstream = e.upstream])

ListPublicModels(v) == list_public_models(v)
GetPublicModel(v, id) == get_public_model(v, id)
CreatePublicModel(v, n, m) == create_public_model(v, n, m)
UpdatePublicModel(v, n, m) == service_update_public_model(v, n, m)
DeletePublicModel(v, n, id) == service_delete_public_model(v, n, id)
CreateModelAlias(v, n, a) == create_model_alias(v, n, a)

GetModelRoute(v, id) == get_model_route(v, id)
CreateModelRoute(v, n, r) == model_route(r) /\ create_model_route(v, n, r)
UpdateModelRoute(v, n, r) ==
    \E stored \in Graph(v).routes :
        /\ stored.id = r.id
        /\ model_route(r)
        /\ service_update_model_route(v, n, [r EXCEPT !.model = stored.model])
DeleteModelRoute(v, n, id) == service_delete_model_route(v, n, id)
CreateRouteCandidate(v, n, c) ==
    route_candidate(c) /\ create_route_candidate(v, n, c)

ListAccessGroups(v) == list_access_groups(v)
GetAccessGroup(v, id) == get_access_group(v, id)
CreateAccessGroup(v, n, g) == create_access_group(v, n, g)
UpdateAccessGroup(v, n, g) == service_update_access_group(v, n, g)
DeleteAccessGroup(v, n, id) == service_delete_access_group(v, n, id)
ListAccessGroupRoutes(v, id) == list_access_group_routes(v, id)
CreateAccessGroupRoute(v, n, g) == create_access_group_route(v, n, g)

ListClientKeys(v) == list_client_keys(v)
GetClientKey(v, id) == get_client_key(v, id)
IssueClientKey(v, n, k) == client_key_parts(k) /\ issue_client_key(v, n, k)
UpdateClientKey(v, n, k) ==
    client_key_parts(k) /\ service_update_client_key(v, n, k)
RevokeClientKey(v, n, id) == service_revoke_client_key(v, n, id)

(* The runtime is asked first, the audit event is written after it. *)
RequestQuotaRecovery(v, e, c) ==
    /\ Has(Graph(v).endpoints, e) /\ Has(Graph(v).credentials, c)
    /\ record_resource_action(v)

------------------------------------------------------------------------------
Lists(v) ==
    \/ ListEgressPolicies(v) \/ ListUpstreams(v) \/ ListPublicModels(v)
    \/ ListAccessGroups(v) \/ ListClientKeys(v)

Gets(v) ==
    \/ \E id \in PathIds("policies") : GetEgressPolicy(v, id)
    \/ \E id \in PathIds("upstreams") : GetUpstream(v, id)
    \/ \E id \in PathIds("endpoints") :
           GetEndpoint(v, id) \/ ListEndpointCredentialBindings(v, id)
    \/ \E id \in PathIds("credentials") : GetCredential(v, id)
    \/ \E id \in PathIds("models") : GetPublicModel(v, id)
    \/ \E id \in PathIds("routes") : GetModelRoute(v, id)
    \/ \E id \in PathIds("groups") :
           GetAccessGroup(v, id) \/ ListAccessGroupRoutes(v, id)
    \/ \E id \in PathIds("keys") : GetClientKey(v, id)

Creates(v, n) ==
    \/ \E p \in Body("policies") : CreateEgressPolicy(v, n, p)
    \/ \E u \in Body("upstreams") : CreateUpstream(v, n, u)
    \/ \E e \in Body("endpoints") : CreateEndpoint(v, n, e)
    \/ \E c \in Body("credentials") : CreateCredential(v, n, c)
    \/ \E b \in Body("bindings") : CreateEndpointCredentialBinding(v, n, b)
    \/ \E m \in Body("models") : CreatePublicModel(v, n, m)
    \/ \E a \in Body("aliases") : CreateModelAlias(v, n, a)
    \/ \E r \in Body("routes") : CreateModelRoute(v, n, r)
    \/ \E c \in Body("candidates") : CreateRouteCandidate(v, n, c)
    \/ \E g \in Body("groups") : CreateAccessGroup(v, n, g)
    \/ \E g \in Body("grants") : CreateAccessGroupRoute(v, n, g)
    \/ \E k \in Body("keys") : IssueClientKey(v, n, k)

Updates(v, n) ==
    \/ \E p \in Body("policies") : UpdateEgressPolicy(v, n, p)
    \/ \E u \in Body("upstreams") : UpdateUpstream(v, n, u)
    \/ \E e \in Body("endpoints") : UpdateEndpoint(v, n, e)
    \/ \E c \in Body("credentials") : UpdateCredential(v, n, c)
    \/ \E m \in Body("models") : UpdatePublicModel(v, n, m)
    \/ \E r \in Body("routes") : UpdateModelRoute(v, n, r)
    \/ \E g \in Body("groups") : UpdateAccessGroup(v, n, g)
    \/ \E k \in Body("keys") : UpdateClientKey(v, n, k)
    \/ \E id \in PathIds("credentials") : RefreshCredentialOauth(v, n, id)
    \/ \E id \in PathIds("endpoints") : ApplyCatalogDiscovery(v, n, id)

Deletes(v, n) ==
    \/ \E id \in PathIds("policies") : DeleteEgressPolicy(v, n, id)
    \/ \E id \in PathIds("upstreams") : DeleteUpstream(v, n, id)
    \/ \E id \in PathIds("endpoints") : DeleteEndpoint(v, n, id)
    \/ \E id \in PathIds("credentials") : DeleteCredential(v, n, id)
    \/ \E id \in PathIds("models") : DeletePublicModel(v, n, id)
    \/ \E id \in PathIds("routes") : DeleteModelRoute(v, n, id)
    \/ \E id \in PathIds("groups") : DeleteAccessGroup(v, n, id)
    \/ \E id \in PathIds("keys") : RevokeClientKey(v, n, id)

ManagementNext ==
    \E v \in Versions :
        \/ create_empty_configuration(v)
        \/ Lists(v)
        \/ Gets(v)
        \/ \E n \in Expected(v) :
               Creates(v, n) \/ Updates(v, n) \/ Deletes(v, n) \/ publish(v, n)
        \/ \E id \in PathIds("credentials") : ExportCredential(v, id)
        \/ \E e \in PathIds("endpoints"), c \in PathIds("credentials") :
               RequestQuotaRecovery(v, e, c)

ManagementSpec == ServiceInit /\ [][ManagementNext]_serviceVars

------------------------------------------------------------------------------
(* What an operator can get wrong in content, as opposed to references and *)
(* identities, which the tables keep.                                      *)
ContentErrors ==
    {"InvalidPolicyValue", "EnabledUpstreamMissingPolicy", "EndpointUrlRejected",
     "UnsupportedEndpointApiFormat", "DuplicateEndpointApiFormat",
     "InvalidPublicModelCapabilities", "AliasConflictsPublicModel",
     "InvalidCandidateCapabilities", "ActiveCandidateDisabledEndpoint",
     "ActiveCandidateDisabledUpstream", "MissingEndpointCapabilityProfile",
     "CandidateCapabilityEscalation", "CandidateCapabilityMismatch",
     "CatalogModelNotEligible", "MissingActiveCredentialBinding",
     "RouteHasNoHardEligibleCandidate", "AccessGroupRouteNotPublishable",
     "ActivePublicModelMissingRoute", "RouteScheduleTooLarge"}

(* Whatever sequence of edits and deletions led to a graph, a publication  *)
(* of it is refused only for what its rows say: no edit leaves a dangling  *)
(* reference, a repeated identity or an ownership mismatch behind that the *)
(* operator could not see or repair through the API.                       *)
OnlyContentRefused ==
    \A v \in Versions : CompileErrors(Graph(v)) \subseteq ContentErrors

(* A graph that compiles is served: the Endpoint of every compiled         *)
(* Candidate gets a Credential Pool with exactly the entries the Route     *)
(* compiler counted, except a Grok-native one, which has its account pool; *)
(* and the quick validation has no complaint about the compiled Routes.    *)
CompiledRoutesServe ==
    \A v \in Versions : CompileErrors(Graph(v)) = {} =>
        \A r \in Snapshot(Graph(v)).routes :
            /\ validate_model_route(Graph(v), r.id) = {}
            /\ \A c \in r.candidates :
                 LET e == Row(Graph(v).endpoints, c.endpoint)
                 IN  \/ NativePool(Row(Graph(v).upstreams, e.upstream), e)
                     \/ /\ PoolEntries(Graph(v), e) # {}
                        /\ Cardinality(PoolEntries(Graph(v), e))
                               = active_binding_count(Graph(v), e)

(* A publication that is accepted can be started: the next start of the    *)
(* process refuses it only for one of the demands that the composition     *)
(* makes and publication does not, never over a reference, an adapter that *)
(* does not serve its format, an egress policy or a Candidate that has no  *)
(* Endpoint or no credential (runtime.rs p12_adapter_id_serves: "an        *)
(* Endpoint this composition would refuse can never be published").        *)
PublishedRestarts ==
    \A v \in Versions : CompileErrors(Graph(v)) = {} =>
        RestartErrors({Graph(w) : w \in Versions}, Graph(v)) \subseteq NarrowerThanPublication

(* An ETag means what it says: while the Version still has the revision a  *)
(* client read, the rows it read are the stored ones, deletions by cascade *)
(* included.  The one exception is a credential of a published Version,    *)
(* which a rotation replaces under an unchanged revision.                  *)
EtagCurrent ==
    (view # NoRead /\ versions[view.version].revision = view.revision) =>
        \/ view.rows = {r \in Graph(view.version)[view.table] :
                           CASE view.by = "all" -> TRUE
                             [] view.by = "id" -> r.id = view.key
                             [] view.by = "parent" -> r.id[1] = view.key}
        \/ view.table = "credentials" /\ versions[view.version].status # "draft"

-----------------------------------------------------------------------------
(***************************************************************************)
(* Browser logins and token refreshes of the management plane.  A session  *)
(* is process-local and belongs to a credential id, whichever Version the  *)
(* request names; the tokens go to the credential of that Version, by a    *)
(* draft edit or by the rotation of the active Version.  The codes and     *)
(* verifiers of a session are its challenge.  Handlers run one at a time.  *)
(***************************************************************************)

CONSTANTS LoginVersions, SessionTtl, MaxLoginTime, MaxChallenge, MaxRevisions,
          NoSession

VARIABLES
    loginNow,
    session,     \* CodexOAuthManagementWorkflow.oauth of the credential
    challenges,  \* challenges handed out so far
    accounts,    \* the credential's row and its Version's status, by Version
    exchanged,   \* challenges whose code was redeemed, in order of redemption
    persisted    \* challenges whose tokens were stored

loginVars == <<loginNow, session, challenges, accounts, exchanged, persisted>>

LoginStates == {"Pending", "Complete", "Failed", "Cancelled", "Expired"}

LoginInit ==
    /\ loginNow = 0 /\ challenges = 0
    /\ session = NoSession
    /\ accounts = [v \in LoginVersions |->
                      [status |-> "draft", kind |-> "key", active |-> TRUE,
                       present |-> TRUE, revision |-> 0]]
    /\ exchanged = <<>> /\ persisted = {}

LoginTick ==
    /\ loginNow < MaxLoginTime
    /\ loginNow' = loginNow + 1
    /\ UNCHANGED <<session, challenges, accounts, exchanged, persisted>>

------------------------------------------------------------------------------
(* CodexOAuthSession: each operation gives the session it leaves.          *)

IsPending(s) == s # NoSession /\ s.state = "Pending"

Lapsed(s) == loginNow >= s.expires

(* view and fail spare a claimed session; ensure_pending does not. *)
View(s) ==
    IF IsPending(s) /\ ~s.claimed /\ Lapsed(s) THEN [s EXCEPT !.state = "Expired"] ELSE s

Fail(s) ==
    IF ~IsPending(s) THEN s
    ELSE [s EXCEPT !.state = IF ~s.claimed /\ Lapsed(s) THEN "Expired" ELSE "Failed"]

EnsurePending(s) ==
    IF IsPending(s) /\ Lapsed(s) THEN [s EXCEPT !.state = "Expired"] ELSE s

Cancel(s) ==
    IF IsPending(EnsurePending(s)) /\ ~s.claimed
    THEN [s EXCEPT !.state = "Cancelled"] ELSE EnsurePending(s)

ClaimCompletion(s) == [s EXCEPT !.claimed = TRUE]

Complete(s) ==
    IF IsPending(s) /\ s.claimed THEN [s EXCEPT !.state = "Complete"] ELSE s

------------------------------------------------------------------------------
(* start_oauth: a pending session is offered again. *)
StartLogin(v) ==
    /\ accounts[v].present
    /\ IF IsPending(View(session))
       THEN UNCHANGED <<session, challenges>>
       ELSE /\ challenges < MaxChallenge
            /\ challenges' = challenges + 1
            /\ session' = [state |-> "Pending", claimed |-> FALSE,
                           expires |-> loginNow + SessionTtl,
                           challenge |-> challenges + 1]
    /\ UNCHANGED <<loginNow, accounts, exchanged, persisted>>

LoginStatus(v) ==
    /\ accounts[v].present
    /\ session' = View(session)
    /\ UNCHANGED <<loginNow, challenges, accounts, exchanged, persisted>>

(* What the status handler answers: without a session, the stored account. *)
ReportedStatus(v) ==
    IF session = NoSession
    THEN IF accounts[v].kind = "oauth" /\ accounts[v].active
         THEN "Complete" ELSE "Failed"
    ELSE View(session).state

CancelLogin(v) ==
    /\ accounts[v].present
    /\ session # NoSession
    /\ session' = Cancel(session)
    /\ UNCHANGED <<loginNow, challenges, accounts, exchanged, persisted>>

(* The provider answered with an error under the session's state. *)
RejectLogin(v, challenge) ==
    /\ accounts[v].present
    /\ session # NoSession /\ session.challenge = challenge
    /\ session' = Fail(session)
    /\ UNCHANGED <<loginNow, challenges, accounts, exchanged, persisted>>

Oauth(row) ==
    [row EXCEPT !.kind = "oauth", !.active = TRUE, !.revision = @ + 1]

(* persist_oauth_credential_if_revision: an archived Version is read-only. *)
Persistable(row) ==
    row.status \in {"draft", "active"} /\ row.revision < MaxRevisions

(* Fault: the answer of the store is not looked at.                        *)
FinalizeOptimistic(claimed, stored) == Complete(claimed)

(* finalize_oauth. *)
Finalize(claimed, stored) == IF stored THEN Complete(claimed) ELSE Fail(claimed)

(* A callback with the state of the session: claim, exchange, persist,     *)
(* finalize.  The exchange may fail, take until the session has lapsed and *)
(* still count.                                                            *)
CompleteLogin(v, challenge) ==
    /\ accounts[v].present
    /\ session # NoSession /\ session.challenge = challenge
    /\ UNCHANGED <<challenges, loginNow>>
    /\ LET claimed == ClaimCompletion(session)
           stored == Persistable(accounts[v])
       IN  \/ /\ ~IsPending(EnsurePending(session)) \/ session.claimed
              /\ session' = EnsurePending(session)
              /\ UNCHANGED <<accounts, exchanged, persisted>>
           \/ /\ IsPending(EnsurePending(session)) /\ ~session.claimed
              /\ exchanged' = Append(exchanged, challenge)
              /\ \/ /\ session' = Fail(claimed)
                    /\ UNCHANGED <<accounts, persisted>>
                 \/ /\ session' = Finalize(claimed, stored)
                    /\ accounts' = IF stored
                                   THEN [accounts EXCEPT ![v] = Oauth(@)]
                                   ELSE accounts
                    /\ persisted' = IF stored THEN persisted \cup {challenge}
                                    ELSE persisted

(* refresh_credential_oauth_claimed; a refused exchange changes nothing. *)
RefreshLogin(v) ==
    /\ accounts[v].present /\ accounts[v].kind = "oauth" /\ accounts[v].active
    /\ Persistable(accounts[v])
    /\ accounts' = [accounts EXCEPT ![v] = Oauth(@)]
    /\ UNCHANGED <<loginNow, session, challenges, exchanged, persisted>>

(* Draft edits and publications between the handlers. *)
EditAccount(v) ==
    /\ accounts[v].status = "draft" /\ accounts[v].present
    /\ accounts[v].revision < MaxRevisions
    /\ \/ accounts' = [accounts EXCEPT ![v].present = FALSE]
       \/ \E on \in BOOLEAN :
              accounts' = [accounts EXCEPT ![v].kind = "key", ![v].active = on,
                                           ![v].revision = @ + 1]
    /\ UNCHANGED <<loginNow, session, challenges, exchanged, persisted>>

PublishAccount(v) ==
    /\ accounts[v].status = "draft"
    /\ accounts' = [w \in LoginVersions |->
           IF w = v THEN [accounts[w] EXCEPT !.status = "active"]
           ELSE IF accounts[w].status = "active"
           THEN [accounts[w] EXCEPT !.status = "archived"] ELSE accounts[w]]
    /\ UNCHANGED <<loginNow, session, challenges, exchanged, persisted>>

(* A restart forgets the sessions. *)
LoginRestart ==
    /\ session # NoSession
    /\ session' = NoSession
    /\ UNCHANGED <<loginNow, challenges, accounts, exchanged, persisted>>

LoginNext ==
    \/ LoginTick
    \/ LoginRestart
    \/ \E v \in LoginVersions :
           \/ StartLogin(v) \/ LoginStatus(v) \/ CancelLogin(v)
           \/ RefreshLogin(v) \/ EditAccount(v) \/ PublishAccount(v)
           \/ \E challenge \in 1..challenges :
                  RejectLogin(v, challenge) \/ CompleteLogin(v, challenge)

LoginSpec == LoginInit /\ [][LoginNext]_loginVars

------------------------------------------------------------------------------
(* A login says what happened: it is complete exactly when its tokens were *)
(* stored, its code is redeemed at most once however often the callback    *)
(* arrives, and no handler leaves a session claimed and pending, which     *)
(* nothing but a restart could end.                                        *)
LoginTruthful ==
    /\ session # NoSession =>
          /\ session.state = "Complete" <=> session.challenge \in persisted
          /\ ~(session.state = "Pending" /\ session.claimed)
    /\ \A i, j \in DOMAIN exchanged : exchanged[i] = exchanged[j] => i = j
=============================================================================
