----------------------------- MODULE ConfigStore -----------------------------
(***************************************************************************)
(* The resource tables of one Config Version and the statements that       *)
(* change them.  A graph is a record of tables; a table is a set of rows   *)
(* with an id.  Every statement is an operator that returns whether SQLite *)
(* accepts it and the graph it leaves: foreign keys, unique keys, the      *)
(* egress-policy triggers and ON DELETE CASCADE are those of the schema.   *)
(* A pair is the id of the two relations whose key is a pair.              *)
(***************************************************************************)
EXTENDS Naturals, FiniteSets, Sequences, SequencesExt

CONSTANT NoPolicy  \* a NULL upstreams.egress_policy_id

Tables ==
    {"policies", "upstreams", "endpoints", "credentials", "bindings", "models",
     "aliases", "routes", "candidates", "groups", "grants", "keys"}

EmptyGraph == [t \in Tables |-> {}]

Ids(rows) == {row.id : row \in rows}

Has(rows, id) == id \in Ids(rows)

Row(rows, id) == CHOOSE row \in rows : row.id = id

Stored(ok, graph) == [ok |-> ok, graph |-> graph]

(* No other row has the value that the schema keeps unique in the table. *)
Unique(rows, row, key(_)) == \A r \in rows : r.id = row.id \/ key(r) # key(row)

Insert(graph, table, row, legal) ==
    Stored(legal /\ ~Has(graph[table], row.id),
           [graph EXCEPT ![table] = @ \cup {row}])

Update(graph, table, row, legal) ==
    Stored(legal /\ Has(graph[table], row.id),
           [graph EXCEPT ![table] = {r \in @ : r.id # row.id} \cup {row}])

(* Fault: the schema forgets the cascade of the relations between rows.    *)
CascadeForgetful(graph) == graph

(* ON DELETE CASCADE, and the trigger that detaches Upstreams from a       *)
(* deleted Egress Policy, followed from the tables others refer to.        *)
Cascade(graph) ==
    LET upstreams ==
            {IF Has(graph.policies, u.policy)
             THEN u ELSE [u EXCEPT !.policy = NoPolicy] : u \in graph.upstreams}
        OfUpstream(rows) == {r \in rows : Has(upstreams, r.upstream)}
        OfModel(rows) == {r \in rows : Has(graph.models, r.model)}
        endpoints == OfUpstream(graph.endpoints)
        credentials == OfUpstream(graph.credentials)
        routes == OfModel(graph.routes)
    IN  [graph EXCEPT
            !.upstreams = upstreams,
            !.endpoints = endpoints,
            !.credentials = credentials,
            !.bindings = {b \in @ : /\ Has(endpoints, b.endpoint)
                                    /\ Has(credentials, b.credential)},
            !.aliases = OfModel(@),
            !.routes = routes,
            !.candidates = {c \in @ : /\ Has(routes, c.route)
                                      /\ Has(endpoints, c.endpoint)},
            !.grants = {g \in @ : /\ Has(graph.groups, g.group)
                                  /\ Has(routes, g.route)},
            !.keys = {k \in @ : Has(graph.groups, k.group)}]

Delete(graph, table, id) ==
    Stored(Has(graph[table], id),
           Cascade([graph EXCEPT ![table] = {r \in @ : r.id # id}]))

------------------------------------------------------------------------------
(* The statements of ControlPlaneTransaction, one operator each.           *)

Named(row) == row.name

PolicyExists(graph, u) == u.policy = NoPolicy \/ Has(graph.policies, u.policy)

OwnedBy(graph, row) == Has(graph.upstreams, row.upstream)

insert_egress_policy(graph, row) ==
    Insert(graph, "policies", row, Unique(graph.policies, row, Named))

update_egress_policy(graph, row) ==
    Update(graph, "policies", row, Unique(graph.policies, row, Named))

delete_egress_policy(graph, id) == Delete(graph, "policies", id)

insert_upstream(graph, row) ==
    Insert(graph, "upstreams", row,
           PolicyExists(graph, row) /\ Unique(graph.upstreams, row, Named))

update_upstream(graph, row) ==
    Update(graph, "upstreams", row,
           PolicyExists(graph, row) /\ Unique(graph.upstreams, row, Named))

delete_upstream(graph, id) == Delete(graph, "upstreams", id)

insert_endpoint(graph, row) ==
    Insert(graph, "endpoints", row, OwnedBy(graph, row))

(* The WHERE clause names the owner: an Endpoint never changes Upstream. *)
update_endpoint(graph, row) ==
    Update(graph, "endpoints", row,
           \E e \in graph.endpoints : e.id = row.id /\ e.upstream = row.upstream)

delete_endpoint(graph, id) == Delete(graph, "endpoints", id)

insert_credential(graph, row) ==
    Insert(graph, "credentials", row, OwnedBy(graph, row))

update_credential(graph, row) ==
    Update(graph, "credentials", row,
           \E c \in graph.credentials :
               c.id = row.id /\ c.upstream = row.upstream)

delete_credential(graph, id) == Delete(graph, "credentials", id)

(* Both foreign keys of a binding include its Upstream. *)
insert_binding(graph, row) ==
    Insert(graph, "bindings", row,
           /\ \E e \in graph.endpoints :
                  e.id = row.endpoint /\ e.upstream = row.upstream
           /\ \E c \in graph.credentials :
                  c.id = row.credential /\ c.upstream = row.upstream)

insert_public_model(graph, row) ==
    Insert(graph, "models", row, Unique(graph.models, row, Named))

update_public_model(graph, row) ==
    Update(graph, "models", row, Unique(graph.models, row, Named))

delete_public_model(graph, id) == Delete(graph, "models", id)

insert_model_alias(graph, row) ==
    Insert(graph, "aliases", row, Has(graph.models, row.model))

Modelled(row) == row.model

insert_model_route(graph, row) ==
    Insert(graph, "routes", row,
           /\ Has(graph.models, row.model)
           /\ Unique(graph.routes, row, Modelled))

update_model_route(graph, row) ==
    Update(graph, "routes", row,
           \E r \in graph.routes : r.id = row.id /\ r.model = row.model)

delete_model_route(graph, id) == Delete(graph, "routes", id)

Target(row) == <<row.route, row.endpoint, row.served>>

insert_route_candidate(graph, row) ==
    Insert(graph, "candidates", row,
           /\ Has(graph.routes, row.route)
           /\ Has(graph.endpoints, row.endpoint)
           /\ Unique(graph.candidates, row, Target))

insert_access_group(graph, row) ==
    Insert(graph, "groups", row, Unique(graph.groups, row, Named))

update_access_group(graph, row) ==
    Update(graph, "groups", row, Unique(graph.groups, row, Named))

delete_access_group(graph, id) == Delete(graph, "groups", id)

insert_access_group_route(graph, row) ==
    Insert(graph, "grants", row,
           Has(graph.groups, row.group) /\ Has(graph.routes, row.route))

insert_client_key(graph, row) ==
    Insert(graph, "keys", row, Has(graph.groups, row.group))

(* Neither prefix nor digest of a key ever changes. *)
update_client_key_metadata(graph, row) ==
    Update(graph, "keys", row, Has(graph.groups, row.group))

(* Status only; the row stays. *)
revoke_client_key(graph, id) ==
    Stored(Has(graph.keys, id),
           [graph EXCEPT !.keys =
               {IF k.id = id THEN [k EXCEPT !.status = "revoked"] ELSE k
                    : k \in @}])
=============================================================================
