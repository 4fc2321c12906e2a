---------------------------- MODULE MCManagement ----------------------------
(***************************************************************************)
(* Five small worlds of resources: the chain from an Egress Policy to the  *)
(* Candidates of a Route; the names and permissions of clients; two        *)
(* Upstreams whose Endpoints and credentials must not be mixed; the        *)
(* smallest graph a process can serve; and two Versions of a credential    *)
(* that is rotated after publication.  In a sixth one only the browser     *)
(* logins move.                                                            *)
(***************************************************************************)
EXTENDS ManagementPlane

None == [t \in Tables |-> {}]

Policy(hosts) ==
    [id |-> "p", name |-> "p", schemes |-> <<"https">>, hosts |-> hosts,
     ports |-> <<"443">>, redirects |-> 0]

Upstream(id, enabled, policy, kind) ==
    [id |-> id, name |-> id, enabled |-> enabled, policy |-> policy, kind |-> kind]

Endpoint(id, upstream, enabled, adapter) ==
    [id |-> id, upstream |-> upstream, enabled |-> enabled, scheme |-> "https",
     host |-> "a", port |-> "443", adapter |-> adapter, format |-> "responses"]

Credential(id, upstream, status) ==
    [id |-> id, upstream |-> upstream, status |-> status, revision |-> 0]

Binding(e, c, enabled) ==
    [id |-> <<e, c>>, endpoint |-> e, credential |-> c, upstream |-> NoRead,
     enabled |-> enabled]

Model(id, active, needs) ==
    [id |-> id, name |-> id, active |-> active, needs |-> needs]

Route(id, model, attempts) == [id |-> id, model |-> model, attempts |-> attempts]

Candidate(id, e, enabled, weight, asserted, removed, unlisted) ==
    [id |-> id, route |-> "r", endpoint |-> e, served |-> id, enabled |-> enabled,
     priority |-> 0, weight |-> weight, asserted |-> asserted,
     removed |-> removed, unlisted |-> unlisted]

Group(active) == [id |-> "g", name |-> "g", active |-> active]

Grant(enabled) ==
    [id |-> <<"g", "r">>, group |-> "g", route |-> "r", enabled |-> enabled]

Key(status) == [id |-> "k", group |-> "g", status |-> status]

ChainBodies == [None EXCEPT
    !.policies = {Policy(<<"a">>), Policy(<<"b">>)},
    !.upstreams = {Upstream("u", TRUE, "p", "plain"),
                   Upstream("u", FALSE, NoPolicy, "native")},
    !.endpoints = {Endpoint("e", "u", TRUE, "grok"),
                   Endpoint("e", "u", FALSE, "responses")},
    !.credentials = {Credential("c", "u", "active"), Credential("c", "u", "revoked")},
    !.bindings = {Binding("e", "c", TRUE), Binding("e", "c", FALSE)},
    !.models = {Model("m", TRUE, {"tools"})},
    !.routes = {Route("r", "m", 1)},
    !.candidates = {Candidate("x", "e", TRUE, 1, {}, {}, FALSE),
                    Candidate("x", "e", FALSE, 1, {}, {}, FALSE),
                    Candidate("y", "e", TRUE, 2, {"tools"}, {}, TRUE),
                    Candidate("z", "e", TRUE, 2, {}, {"tools"}, FALSE)}]

NameBodies == [None EXCEPT
    !.models = {Model("m", TRUE, {}), Model("m", FALSE, {}), Model("n", FALSE, {})},
    !.aliases = {[id |-> "n", model |-> "m"]},
    !.routes = {Route("r", "m", 1), Route("r", "n", 2)},
    !.groups = {Group(TRUE), Group(FALSE)},
    !.grants = {Grant(TRUE), Grant(FALSE)},
    !.keys = {Key("active"), Key("disabled")}]

OwnerBodies == [None EXCEPT
    !.policies = {Policy(<<"a">>), Policy(<<"a", "a">>)},
    !.upstreams = {Upstream("u", TRUE, "p", "plain"),
                   Upstream("w", FALSE, NoPolicy, "plain")},
    !.endpoints = {Endpoint("e", "u", TRUE, "responses"),
                   [Endpoint("f", "u", FALSE, "responses") EXCEPT !.scheme = "http"],
                   Endpoint("f", "w", TRUE, "chat")},
    !.credentials = {Credential("c", "u", "active"), Credential("c", "w", "active")},
    !.bindings = {Binding("e", "c", TRUE)}]

(* The smallest graph a process can serve from, with and without a binding. *)
StartBodies == [None EXCEPT
    !.policies = {Policy(<<"a">>)},
    !.upstreams = {Upstream("u", TRUE, "p", "native")},
    !.endpoints = {Endpoint("e", "u", TRUE, "grok"), Endpoint("e", "u", TRUE, "responses")},
    !.credentials = {Credential("c", "u", "active")},
    !.bindings = {Binding("e", "c", TRUE)},
    !.models = {Model("m", TRUE, {})},
    !.routes = {Route("r", "m", 1)},
    !.candidates = {Candidate("x", "e", TRUE, 1, {}, {}, TRUE)},
    !.groups = {Group(TRUE)},
    !.grants = {Grant(TRUE)},
    !.keys = {Key("active")}]

RotationBodies == [None EXCEPT
    !.upstreams = {Upstream("w", FALSE, NoPolicy, "plain")},
    !.credentials = {Credential("c", "w", "disabled")}]

Chain ==
    [bodies |-> ChainBodies, edits |-> 10, notes |-> 0, reads |-> {}, versions |-> {"v1"}]
Names ==
    [bodies |-> NameBodies, edits |-> 5, notes |-> 0,
     reads |-> {"models", "routes", "groups", "grants", "keys"}, versions |-> {"v1"}]
Owners ==
    [bodies |-> OwnerBodies, edits |-> 5, notes |-> 1,
     reads |-> {"policies", "upstreams", "endpoints", "credentials", "bindings"},
     versions |-> {"v1"}]
Start ==
    [bodies |-> StartBodies, edits |-> 11, notes |-> 0, reads |-> {}, versions |-> {"v1"}]
Rotation ==
    [bodies |-> RotationBodies, edits |-> 3, notes |-> 1, reads |-> {"credentials"},
     versions |-> {"v1", "v2"}]

Login == [bodies |-> None, edits |-> 0, notes |-> 0, reads |-> {}, versions |-> {}]

AllScopes == {Chain, Names, Owners, Start, Rotation, Login}
Profiles == [e \in {"e"} |-> {"tools"}]
Catalog == {<<"e", "x">>}
FixedHosts == [a \in {"grok", "kiro"} |-> IF a = "grok" THEN "a" ELSE "k"]

Init == ServiceInit /\ LoginInit

Next ==
    \/ ManagementNext /\ UNCHANGED loginVars
    \/ scope = Login /\ LoginNext /\ UNCHANGED serviceVars

Spec == Init /\ [][Next]_<<serviceVars, loginVars>>
=============================================================================
