--------------------------- MODULE ConfigCompiler ---------------------------
(***************************************************************************)
(* What becomes of a graph when a Version is validated, published or       *)
(* composed: the Egress Policy compiler, the Route compiler, the immutable *)
(* RouteSnapshot built from its result, the Credential Pool compiler of    *)
(* the data plane, and the quick validation of one Route that the          *)
(* management API offers.  A compiler stops at its first error; here it is *)
(* the set of the errors its current phase would stop at.                  *)
(***************************************************************************)
EXTENDS ConfigStore

CONSTANTS
    Capabilities,  \* the SemanticCapability keys
    Profile,       \* EndpointCapabilityView: a function on some Endpoints
    Listed,        \* CatalogView: the hard-eligible <<Endpoint, model>> pairs
    ScheduleSlots  \* MAX_SCHEDULE_SLOTS_PER_PRIORITY_TIER

ASSUME CompilerConstants == ScheduleSlots \in Nat \ {0}

When(condition, code) == IF condition THEN {code} ELSE {}

SharesKey(rows, key(_)) == \E r, s \in rows : r.id # s.id /\ key(r) = key(s)

Distinct(seq) == Cardinality(Range(seq)) = Len(seq)

------------------------------------------------------------------------------
(* EgressPolicyCompiler.                                                   *)

compile_policy(p) ==
    When(\/ \E list \in {p.schemes, p.hosts, p.ports} :
                list = <<>> \/ ~Distinct(list)
         \/ p.redirects > 10, "InvalidPolicyValue")

(* The scheme, host and port of the URL are ones the policy allows. *)
validate_url_shape(p, e) ==
    /\ "https" \in Range(p.schemes)
    /\ e.host \in Range(p.hosts)
    /\ e.port \in Range(p.ports)

EgressCompile(graph) ==
    UNION {compile_policy(p) : p \in graph.policies}
    \cup When(SharesKey(graph.policies, Named), "DuplicatePolicyName")
    \cup UNION {IF u.policy # NoPolicy
                THEN When(~Has(graph.policies, u.policy),
                          "MissingReferencedPolicy")
                ELSE When(u.enabled, "EnabledUpstreamMissingPolicy")
                    : u \in graph.upstreams}
    \cup When(\E e \in graph.endpoints : ~Has(graph.upstreams, e.upstream),
              "MissingEndpointUpstream")
    \cup When(\E e \in graph.endpoints, u \in graph.upstreams, p \in graph.policies :
                 /\ e.enabled /\ u.enabled
                 /\ e.upstream = u.id /\ u.policy = p.id
                 /\ ~validate_url_shape(p, e),
              "EndpointUrlRejected")

------------------------------------------------------------------------------
(* RouteCompiler: first every table is indexed, and a broken reference or  *)
(* a repeated identity stops the compilation.                              *)

(* The wire formats and the adapters that may serve them. *)
AdapterIds(format) ==
    CASE format = "chat"      -> {"chat"}
      [] format = "responses" -> {"responses", "grok"}
      [] format = "messages"  -> {"messages", "kiro"}
      [] OTHER                -> {}

ServedFormat(e) == <<e.upstream, e.format>>

(* Fault: the adapter of an Endpoint is not compared with its format.      *)
IndexEndpointsAnyAdapter(graph) ==
    When(SharesKey(graph.endpoints, ServedFormat), "DuplicateEndpointApiFormat")

index_endpoints(graph) ==
    When(\E e \in graph.endpoints : ~Has(graph.upstreams, e.upstream),
         "MissingEndpointUpstream")
    \cup When(\E e \in graph.endpoints : e.adapter \notin AdapterIds(e.format),
              "UnsupportedEndpointApiFormat")
    \cup When(SharesKey(graph.endpoints, ServedFormat),
              "DuplicateEndpointApiFormat")

index_credentials(graph) ==
    When(\E c \in graph.credentials : ~Has(graph.upstreams, c.upstream),
         "MissingCredentialUpstream")

validate_bindings(graph) ==
    UNION {When(~Has(graph.endpoints, b.endpoint), "MissingBindingEndpoint")
           \cup When(~Has(graph.credentials, b.credential),
                     "MissingBindingCredential")
           \cup When(\/ \E e \in graph.endpoints :
                            e.id = b.endpoint /\ e.upstream # b.upstream
                     \/ \E c \in graph.credentials :
                            c.id = b.credential /\ c.upstream # b.upstream,
                     "BindingUpstreamMismatch") : b \in graph.bindings}

index_public_models(graph) ==
    When(SharesKey(graph.models, Named), "DuplicatePublicModelName")

parse_public_model_capabilities(graph) ==
    When(\E m \in graph.models :
             \/ ~(m.needs \subseteq Capabilities)
             \/ "parallel_tools" \in m.needs /\ "tools" \notin m.needs,
         "InvalidPublicModelCapabilities")

index_aliases(graph) ==
    When(\E a \in graph.aliases : ~Has(graph.models, a.model),
         "MissingAliasPublicModel")
    \cup When(\E a \in graph.aliases, m \in graph.models : a.id = m.name,
              "AliasConflictsPublicModel")

index_routes(graph) ==
    When(\E r \in graph.routes : ~Has(graph.models, r.model),
         "MissingRoutePublicModel")
    \cup When(SharesKey(graph.routes, Modelled), "DuplicateRouteForPublicModel")

parse_candidate_override(c) ==
    When(\/ ~(c.asserted \cup c.removed \subseteq Capabilities)
         \/ "parallel_tools" \in c.asserted /\ "tools" \in c.removed,
         "InvalidCandidateCapabilities")

index_candidates(graph) ==
    UNION {When(~Has(graph.routes, c.route), "MissingCandidateRoute")
           \cup When(~Has(graph.endpoints, c.endpoint),
                     "MissingCandidateEndpoint")
           \cup parse_candidate_override(c) : c \in graph.candidates}
    \cup When(SharesKey(graph.candidates, Target), "DuplicateCandidateTarget")

validate_access_group_routes(graph) ==
    UNION {When(~Has(graph.groups, g.group), "MissingAccessGroup")
           \cup When(~Has(graph.routes, g.route), "MissingAccessGroupRoute")
               : g \in graph.grants}

IndexErrors(graph) ==
    index_endpoints(graph) \cup index_credentials(graph)
    \cup validate_bindings(graph) \cup index_public_models(graph)
    \cup parse_public_model_capabilities(graph) \cup index_aliases(graph)
    \cup index_routes(graph) \cup index_candidates(graph)
    \cup validate_access_group_routes(graph)

------------------------------------------------------------------------------
(* Then the enabled Candidates of active Public Models are compiled.       *)

ModelOf(graph, route) == Row(graph.models, route.model)

(* An adapter that draws its credentials from a Grok account pool. *)
NativePool(u, e) == u.kind = "native" /\ e.adapter = "grok"

(* Fault: a disabled binding counts.                                       *)
ActiveBindingCountAll(graph, e) ==
    IF NativePool(Row(graph.upstreams, e.upstream), e) THEN 1
    ELSE Cardinality({b \in graph.bindings :
             /\ b.endpoint = e.id
             /\ Row(graph.credentials, b.credential).status = "active"})

active_binding_count(graph, e) ==
    IF NativePool(Row(graph.upstreams, e.upstream), e) THEN 1
    ELSE Cardinality({b \in graph.bindings :
             /\ b.endpoint = e.id /\ b.enabled
             /\ \E c \in graph.credentials :
                    /\ c.id = b.credential /\ c.status = "active"
                    /\ c.upstream = e.upstream})

candidate_has_active_public_model(graph, c) ==
    ModelOf(graph, Row(graph.routes, c.route)).active

ActiveCandidates(graph) ==
    {c \in graph.candidates :
        c.enabled /\ candidate_has_active_public_model(graph, c)}

active_candidate_target(graph, e) ==
    When(~e.enabled, "ActiveCandidateDisabledEndpoint")
    \cup When(~Row(graph.upstreams, e.upstream).enabled,
              "ActiveCandidateDisabledUpstream")

(* Without Tools there are no parallel Tools. *)
Without(set, removed) ==
    set \ (removed \cup IF "tools" \in removed THEN {"parallel_tools"} ELSE {})

effective_candidate_capabilities(graph, c) ==
    IF c.endpoint \notin DOMAIN Profile
    THEN {"MissingEndpointCapabilityProfile"}
    ELSE When(~(c.asserted \subseteq Profile[c.endpoint]),
              "CandidateCapabilityEscalation")
         \cup When(~(ModelOf(graph, Row(graph.routes, c.route)).needs
                         \subseteq Without(Profile[c.endpoint], c.removed)),
                   "CandidateCapabilityMismatch")

catalog_admission(c) ==
    When(<<c.endpoint, c.served>> \notin Listed /\ ~c.unlisted,
         "CatalogModelNotEligible")

compile_active_candidate(graph, c) ==
    active_candidate_target(graph, Row(graph.endpoints, c.endpoint))
    \cup effective_candidate_capabilities(graph, c)
    \cup catalog_admission(c)
    \cup When(active_binding_count(graph, Row(graph.endpoints, c.endpoint)) = 0,
              "MissingActiveCredentialBinding")

CompiledRoute(graph, r) ==
    [id |-> r.id, model |-> r.model,
     candidates |-> {c \in ActiveCandidates(graph) : c.route = r.id}]

compile_active_routes(graph) ==
    {CompiledRoute(graph, r) : r \in {s \in graph.routes : ModelOf(graph, s).active}}

CompiledGroup(graph, g) ==
    [id |-> g.id, name |-> g.name,
     routes |-> {k.route : k \in {h \in graph.grants : h.group = g.id /\ h.enabled}}]

compile_access_groups(graph) ==
    {CompiledGroup(graph, g) : g \in {h \in graph.groups : h.active}}

RouteErrors(graph, routes, groups) ==
    When(\E r \in routes : r.candidates = {}, "RouteHasNoHardEligibleCandidate")
    \cup When(\E g \in groups : ~(g.routes \subseteq Ids(routes)),
              "AccessGroupRouteNotPublishable")
    \cup When(\E m \in graph.models :
                  m.active /\ \A r \in graph.routes : r.model # m.id,
              "ActivePublicModelMissingRoute")

(* The phases in the order of the code; a later phase relies on the        *)
(* references an earlier one has checked.                                  *)
RouteCompile(graph) ==
    IF IndexErrors(graph) # {} THEN IndexErrors(graph)
    ELSE UNION {compile_active_candidate(graph, c) : c \in ActiveCandidates(graph)}
         \cup RouteErrors(graph, compile_active_routes(graph),
                          compile_access_groups(graph))

------------------------------------------------------------------------------
(* The immutable Snapshot built from a compiled graph.                     *)

snapshot_client_keys(graph, groups) ==
    {[id |-> k.id, group |-> k.group, status |-> k.status,
      routes |-> Row(groups, k.group).routes]
          : k \in {j \in graph.keys : Has(groups, j.group)}}

route_snapshot_from_compiled(graph, routes, groups) ==
    [models  |-> {m \in graph.models : m.active},
     aliases |-> {a \in graph.aliases : Row(graph.models, a.model).active},
     routes  |-> routes,
     groups  |-> groups,
     keys    |-> snapshot_client_keys(graph, groups)]

Snapshot(graph) ==
    route_snapshot_from_compiled(graph, compile_active_routes(graph),
                                 compile_access_groups(graph))

(* smooth_weighted_slots: one slot per unit of weight in a priority tier. *)
TierTooLarge(r, priority) ==
    MapThenSumSet(LAMBDA c : IF c.priority = priority THEN c.weight ELSE 0,
                  r.candidates) > ScheduleSlots

(* RouteSnapshot::try_new with build_routes. *)
BuildErrors(snapshot) ==
    When(SharesKey(snapshot.models, Named), "DuplicatePublicModelName")
    \cup When(\E r \in snapshot.routes : ~Has(snapshot.models, r.model),
              "RouteReferencesUnknownPublicModel")
    \cup When(\E r \in snapshot.routes : \E c \in r.candidates :
                  TierTooLarge(r, c.priority), "RouteScheduleTooLarge")
    \cup When(\E m \in snapshot.models :
                  ~\E r \in snapshot.routes : r.model = m.id,
              "PublicModelMissingRoute")
    \cup When(\E a \in snapshot.aliases : \E m \in snapshot.models : a.id = m.name,
              "AliasConflictsPublicModel")
    \cup When(\E a \in snapshot.aliases : ~Has(snapshot.models, a.model),
              "UnknownAliasPublicModel")
    \cup When(\E g \in snapshot.groups : ~(g.routes \subseteq Ids(snapshot.routes)),
              "AccessGroupReferencesUnknownRoute")
    \cup When(\E k \in snapshot.keys : ~Has(snapshot.groups, k.group),
              "ClientKeyReferencesUnknownAccessGroup")

(* compiled_snapshot: the error a publication of the graph is refused with. *)
CompileErrors(graph) ==
    IF EgressCompile(graph) # {} THEN EgressCompile(graph)
    ELSE IF RouteCompile(graph) # {} THEN RouteCompile(graph)
    ELSE BuildErrors(Snapshot(graph))

(* resolve_public_model_for_access_group: a name, then an alias, and only  *)
(* what an enabled grant of the group reaches.                             *)
resolve_public_model(snapshot, name) ==
    IF \E m \in snapshot.models : m.name = name
    THEN {m \in snapshot.models : m.name = name}
    ELSE {m \in snapshot.models :
             \E a \in snapshot.aliases : a.id = name /\ a.model = m.id}

resolve_for_access_group(snapshot, group, name) ==
    {m \in resolve_public_model(snapshot, name) :
        \E g \in snapshot.groups, r \in snapshot.routes :
            /\ g.id = group /\ r.model = m.id
            /\ r.id \in g.routes /\ r.candidates # {}}

------------------------------------------------------------------------------
(* CredentialPoolCompiler: the bindings that become entries of the pool of *)
(* an Endpoint.                                                            *)

PoolEntries(graph, e) ==
    {b \in graph.bindings :
        /\ b.endpoint = e.id /\ b.enabled /\ e.enabled
        /\ Row(graph.upstreams, e.upstream).enabled
        /\ \E c \in graph.credentials :
               /\ c.id = b.credential /\ c.status = "active"
               /\ Row(graph.upstreams, c.upstream).enabled}

------------------------------------------------------------------------------
(* ManagementMutationService::validate_model_route.                        *)

HasActiveBinding(graph, e) ==
    \E b \in graph.bindings, c \in graph.credentials :
        /\ b.endpoint = e.id /\ b.enabled
        /\ c.id = b.credential /\ c.status = "active"

validate_model_route(graph, id) ==
    LET enabled == {c \in graph.candidates : c.route = id /\ c.enabled}
        targets == {e \in graph.endpoints : \E c \in enabled : c.endpoint = e.id}
    IN  When(enabled = {}, "route_missing_active_candidate")
        \cup When(\E c \in enabled : ~Has(graph.endpoints, c.endpoint),
                  "route_candidate_endpoint_missing")
        \cup When(\E e \in targets : ~e.enabled,
                  "route_candidate_endpoint_disabled")
        \cup When(\E e \in targets :
                      /\ ~HasActiveBinding(graph, e)
                      /\ \A u \in graph.upstreams :
                             u.id = e.upstream => ~NativePool(u, e),
                  "route_candidate_missing_active_credential")

-----------------------------------------------------------------------------
(***************************************************************************)
(* What a start of the process does with the stored Versions: the route    *)
(* compiler it derives from all of them, the shape it demands of the       *)
(* active one, and the data plane it composes from it.  As in              *)
(* ConfigCompiler, a step that stops at its first error is the set of the  *)
(* errors it would stop at.  The kind of a credential, the concurrency of  *)
(* a binding and the limits of an Access Group are not part of a row here, *)
(* and neither are the checks on them.                                     *)
(***************************************************************************)

CONSTANTS
    AccountPools,      \* Grok-native Endpoints with an account to lease
    ProviderHost,      \* the one host of each adapter that has a fixed URL
    MaxRouteAttempts   \* P12_MAX_ROUTE_ATTEMPTS

------------------------------------------------------------------------------
(* deployment_route_compiler: the capabilities of every Endpoint of every  *)
(* stored Version, whatever its status.                                    *)

p12_adapter_capabilities(adapter) ==
    CASE adapter = "chat" -> {"tools", "parallel_tools", "json_schema", "streaming"}
      [] adapter \in {"responses", "messages"} ->
             {"tools", "parallel_tools", "reasoning", "json_schema", "streaming"}
      [] adapter \in {"grok", "kiro"} -> {"tools", "reasoning", "json_schema", "streaming"}

deployment_route_compiler(graphs) ==
    When(\E g, h \in graphs : \E e \in g.endpoints, f \in h.endpoints :
             e.id = f.id /\ e.adapter # f.adapter,
         "AdapterChangedBetweenVersions")

------------------------------------------------------------------------------
(* The four validators of the active Version.                              *)

is_native_grok_endpoint(e) == e.adapter = "grok"

validate_p12_required_resources(graph) ==
    LET native == \E e \in graph.endpoints : is_native_grok_endpoint(e)
        Required == Tables \ ({"aliases"} \cup IF native THEN {"credentials", "bindings"} ELSE {})
    IN  When(\E t \in Required : graph[t] = {}, "RequiredResources")

has_p12_https_only_egress_shape(p) ==
    p.schemes = <<"https">> /\ p.hosts # <<>> /\ p.ports # <<>> /\ p.redirects = 0

validate_endpoint_shape(e) ==
    When(~e.enabled, "DisabledEndpoint")
    \cup When(e.adapter \notin AdapterIds(e.format), "AdapterDoesNotServe")

validate_p12_network_shape(graph) ==
    When(\E p \in graph.policies : ~has_p12_https_only_egress_shape(p), "EgressShape")
    \cup When(\E u \in graph.upstreams : ~u.enabled, "DisabledUpstream")
    \cup When(\E u \in graph.upstreams : u.policy # NoPolicy /\ ~Has(graph.policies, u.policy),
              "DanglingPolicy")
    \cup When(\E u \in graph.upstreams : u.policy = NoPolicy, "UpstreamWithoutPolicy")
    \cup When(\E e \in graph.endpoints : ~Has(graph.upstreams, e.upstream), "DanglingUpstream")
    \cup UNION {validate_endpoint_shape(e) : e \in graph.endpoints}

validate_p12_credential_bindings(graph) ==
    When(\E c \in graph.credentials : c.status # "active", "InactiveCredential")
    \cup When(\E c \in graph.credentials : ~Has(graph.upstreams, c.upstream), "DanglingUpstream")
    \cup When(\E b \in graph.bindings : ~b.enabled, "DisabledBinding")
    \cup When(\E b \in graph.bindings :
                  \/ ~Has(graph.endpoints, b.endpoint) \/ ~Has(graph.credentials, b.credential)
                  \/ \E e \in graph.endpoints : e.id = b.endpoint /\ e.upstream # b.upstream
                  \/ \E c \in graph.credentials : c.id = b.credential /\ c.upstream # b.upstream,
              "BindingMismatch")

p12_candidate_override_is_admissible(adapter, c) ==
    /\ c.unlisted /\ c.asserted = {}
    /\ \/ c.removed = {}
       \/ c.removed = {"reasoning"} /\ adapter \in {"responses", "grok"}

validate_p12_route_access_shape(graph) ==
    When(\E m \in graph.models : ~m.active, "InactiveModel")
    \cup When(\E m \in graph.models : m.needs # {}, "ModelCapabilities")
    \cup When(\E r \in graph.routes : r.attempts \notin 1..MaxRouteAttempts, "RouteAttempts")
    \cup When(\E r \in graph.routes : ~Has(graph.models, r.model), "DanglingModel")
    \cup When(\E c \in graph.candidates : ~c.enabled, "DisabledCandidate")
    \cup When(\E c \in graph.candidates :
                  ~Has(graph.routes, c.route) \/ ~Has(graph.endpoints, c.endpoint),
              "DanglingCandidate")
    \cup When(\E c \in graph.candidates, e \in graph.endpoints :
                  e.id = c.endpoint /\ ~p12_candidate_override_is_admissible(e.adapter, c),
              "CandidateOverride")
    \cup When(\E g \in graph.groups : ~g.active, "InactiveGroup")
    \cup When(\E g \in graph.grants : ~Has(graph.groups, g.group) \/ ~Has(graph.routes, g.route),
              "DanglingGrant")
    \cup When(\E g \in graph.grants : ~g.enabled, "DisabledGrant")
    \cup When(\E k \in graph.keys : ~Has(graph.groups, k.group), "DanglingKey")
    \cup When(\E k \in graph.keys : k.status # "active", "InactiveKey")

------------------------------------------------------------------------------
(* P12RoutedResponsesExecutor::try_new after the validators.               *)

(* The adapters with a URL of their own are built only for that URL. *)
build_adapter(e) ==
    When(e.adapter \in DOMAIN ProviderHost /\ e.host # ProviderHost[e.adapter], "EndpointUrl")

endpoint_runtimes(graph, snapshot) ==
    When(\E r \in snapshot.routes : \E c \in r.candidates : ~Has(graph.endpoints, c.endpoint),
         "CandidateWithoutEndpoint")
    \cup When(\E e \in graph.endpoints : \E u \in graph.upstreams :
                  u.id = e.upstream /\ ~Has(graph.policies, u.policy),
              "EndpointWithoutPolicy")
    \cup UNION {build_adapter(e) : e \in graph.endpoints}

(* The account pool is compiled for the Endpoints whose adapter says so,   *)
(* whatever the kind of their Upstream.                                    *)
native_account_pools(graph) ==
    When(\E e \in graph.endpoints : is_native_grok_endpoint(e) /\ e.id \notin AccountPools,
         "NativeAccountPool")

(* A Candidate's Endpoint outside the account pools leases from the pool   *)
(* compiled of its bindings.                                               *)
CandidatePools(graph, snapshot) ==
    When(\E r \in snapshot.routes : \E c \in r.candidates : \E e \in graph.endpoints :
             /\ e.id = c.endpoint /\ ~is_native_grok_endpoint(e)
             /\ PoolEntries(graph, e) = {},
         "EmptyCredentialPool")

ShapeErrors(graph) ==
    validate_p12_required_resources(graph) \cup validate_p12_network_shape(graph)
    \cup validate_p12_credential_bindings(graph) \cup validate_p12_route_access_shape(graph)

ComposeErrors(graph) ==
    IF ShapeErrors(graph) # {} THEN ShapeErrors(graph)
    ELSE EgressCompile(graph) \cup native_account_pools(graph)
         \cup endpoint_runtimes(graph, Snapshot(graph))
         \cup CandidatePools(graph, Snapshot(graph))

(* build_application_state with an active Version. *)
RestartErrors(graphs, active) ==
    IF deployment_route_compiler(graphs) # {} THEN deployment_route_compiler(graphs)
    ELSE ComposeErrors(active)

------------------------------------------------------------------------------
(* What the composition demands beyond what a publication checks: rows     *)
(* that are switched off, tables left empty, capabilities and overrides it *)
(* does not support, a fixed URL, and an account to lease.                 *)
NarrowerThanPublication ==
    {"AdapterChangedBetweenVersions", "RequiredResources", "EgressShape",
     "DisabledUpstream", "UpstreamWithoutPolicy", "DisabledEndpoint",
     "InactiveCredential", "DisabledBinding", "InactiveModel", "ModelCapabilities",
     "RouteAttempts", "DisabledCandidate", "CandidateOverride", "InactiveGroup",
     "DisabledGrant", "InactiveKey", "EndpointUrl", "NativeAccountPool"}
=============================================================================
