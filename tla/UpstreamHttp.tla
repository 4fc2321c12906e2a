---------------------------- MODULE UpstreamHttp ----------------------------
(***************************************************************************)
(* One HTTP call to an upstream, as every provider makes it                *)
(* (gateway-upstream: egress_policy.rs, upstream_client.rs): the egress    *)
(* policy admits the URL and the addresses DNS gives for its Host, a       *)
(* pooled client is looked up or built for exactly these addresses, and    *)
(* the response is read chunk by chunk under the profile's timeouts.       *)
(* Streaming calls of the OpenAI and Anthropic adapters add the runtime's  *)
(* progress deadline (apps/gateway/src/runtime.rs).                        *)
(*                                                                         *)
(* Addresses are strings of Width bits, networks pairs of an address and a *)
(* prefix length.  DNS may answer differently at each call, and a pooled   *)
(* client survives the call that built it.  Time passes only while a call  *)
(* waits; a due timer fires before time goes on.                           *)
(***************************************************************************)
EXTENDS Naturals, FiniteSets

CONSTANTS
    Width,              \* bits of an address
    DefaultDenied,      \* networks denied unless a policy excepts them
    Exceptionable,      \* the private or local ones a policy may except
    Metadata,           \* addresses denied to every policy
    MaxRedirects,
    EgressPolicies, Urls, Answers, Profiles,
    Progress,           \* the runtime's progress deadline
    MaxCalls

VARIABLES
    clock,              \* time since the call was sent
    pool,               \* client key -> the addresses the client is pinned to
    call                \* the call in progress, and what it has seen

httpVars == <<clock, pool, call>>

Addresses == [1 .. Width -> {0, 1}]

Mask(a, prefix) == [i \in 1 .. Width |-> IF i <= prefix THEN a[i] ELSE 0]

MatchesPrefix(a, net) == Mask(a, net[2]) = Mask(net[1], net[2])

EgressCidr(a, prefix) == <<Mask(a, prefix), prefix>>

ASSUME HttpConstants ==
    /\ Width \in Nat /\ Progress \in Nat /\ MaxCalls \in Nat /\ MaxRedirects \in Nat
    /\ DefaultDenied \subseteq Addresses \X (0 .. Width)
    /\ Exceptionable \subseteq Addresses \X (0 .. Width)
    /\ Answers \subseteq SUBSET Addresses
    /\ \A url \in Urls : url.literal \in BOOLEAN /\ url.address \in Addresses
    /\ \A policy \in EgressPolicies :
          /\ policy.cidrs \subseteq {EgressCidr(a, prefix) : a \in Addresses, prefix \in 0 .. Width}
          /\ policy.maxRedirects \in Nat
    /\ Profiles \subseteq
          [timeouts : [connect : Nat, ttfb : Nat, idle : Nat, total : Nat], progress : BOOLEAN]

Contains(cidr, a) == Mask(a, cidr[2]) = cidr[1]

IsDefaultDenied(a) == \E net \in DefaultDenied : MatchesPrefix(a, net)

IsNarrowException(cidr) ==
    \E net \in Exceptionable : cidr[2] >= net[2] /\ MatchesPrefix(cidr[1], net)

HasException(policy, a) ==
    \E cidr \in policy.cidrs : Contains(cidr, a) /\ IsNarrowException(cidr)

ValidateAddress(policy, a) ==
    /\ a \notin Metadata
    /\ policy.cidrs = {} \/ \E cidr \in policy.cidrs : Contains(cidr, a)
    /\ IsDefaultDenied(a) => HasException(policy, a)

EgressPolicy(policy) ==
    /\ policy.schemes # {} /\ policy.hosts # {} /\ policy.ports # {}
    /\ 0 \notin policy.ports
    /\ policy.redirect # "deny" => policy.maxRedirects \in 1 .. MaxRedirects

ParseUrl(policy, url) ==
    /\ url.base /\ ~url.userInfo
    /\ url.scheme \in policy.schemes
    /\ url.host \in policy.hosts
    /\ url.port \in policy.ports

\* The Host is a domain name, or an address itself.
Resolved(url, answer) == IF url.literal THEN {url.address} ELSE answer

AdmitUrl(policy, url, answer) ==
    /\ ParseUrl(policy, url)
    /\ Resolved(url, answer) # {}
    /\ \A a \in Resolved(url, answer) : ValidateAddress(policy, a)

SameOrigin(u, v) == u.scheme = v.scheme /\ u.host = v.host /\ u.port = v.port

AdmitRedirect(policy, current, location, followed, answer) ==
    /\ policy.redirect # "deny"
    /\ followed < policy.maxRedirects
    /\ AdmitUrl(policy, location, answer)
    /\ policy.redirect = "same_origin" => SameOrigin(current, location)

ValidTimeouts(t) ==
    /\ t.connect > 0 /\ t.ttfb > 0 /\ t.idle > 0 /\ t.total > 0
    /\ t.connect <= t.total /\ t.ttfb <= t.total /\ t.idle <= t.total

\* Fault: the addresses are not part of the key.
ClientKeyHost(url, addresses, profile) ==
    <<url.scheme, url.host, url.port, {}, profile>>

ClientPoolKey(url, addresses, profile) ==
    <<url.scheme, url.host, url.port, addresses, profile>>

-----------------------------------------------------------------------------
NoCall == [phase |-> "none", made |-> 0]

HttpInit ==
    /\ clock = 0
    /\ pool = << >>
    /\ call = NoCall

CallOver == call.phase \in {"none", "refused", "failed", "closed"}

Over(phase, made) == call' = [phase |-> phase, made |-> made]

\* admit_url, before anything is sent.
Admit(policy, url, answer, profile) ==
    /\ CallOver
    /\ call.made < MaxCalls
    /\ EgressPolicy(policy) /\ ValidTimeouts(profile.timeouts)
    /\ \/ ~AdmitUrl(policy, url, answer) /\ Over("refused", call.made + 1)
       \/ /\ AdmitUrl(policy, url, answer)
          /\ call' = [phase |-> "admitted", made |-> call.made + 1, policy |-> policy,
                      url |-> url, addresses |-> Resolved(url, answer),
                      profile |-> profile, followed |-> 0]
    /\ UNCHANGED <<clock, pool>>

ClientFor(key, addresses) ==
    pool' = IF key \in DOMAIN pool
            THEN pool
            ELSE [k \in DOMAIN pool \cup {key} |->
                      IF k = key THEN addresses ELSE pool[k]]

\* The send: a client for the admitted target, the deadline from now on, and a
\* connection to one of the addresses the client is pinned to.
Send ==
    /\ call.phase = "admitted"
    /\ LET key == ClientPoolKey(call.url, call.addresses, call.profile)
       IN  /\ ClientFor(key, call.addresses)
           /\ \E a \in pool'[key] :
                  call' = [policy |-> call.policy, url |-> call.url,
                           profile |-> call.profile, made |-> call.made,
                           followed |-> call.followed,
                           phase |-> "connecting", connected |-> a, since |-> 0,
                           deadline |-> call.profile.timeouts.total,
                           spent |-> 0, read |-> FALSE]
    /\ clock' = 0

\* The bounded cache forgets a client; a call in progress keeps its own.
Evict(key) ==
    /\ call.phase = "admitted"
    /\ pool' = [k \in DOMAIN pool \ {key} |-> pool[k]]
    /\ UNCHANGED <<clock, call>>

FirstByteBudget ==
    IF call.profile.timeouts.ttfb < call.profile.timeouts.total
    THEN call.profile.timeouts.ttfb ELSE call.profile.timeouts.total

Remaining == IF call.deadline > clock THEN call.deadline - clock ELSE 0

ReadBudget ==
    IF call.deadline - call.since < call.profile.timeouts.idle
    THEN call.deadline - call.since ELSE call.profile.timeouts.idle

\* How long the step in progress may still wait: the connector's own timeout
\* runs inside the wait for the first byte.
WaitLimit ==
    CASE call.phase = "connecting" ->
             IF call.profile.timeouts.connect < FirstByteBudget
             THEN call.profile.timeouts.connect ELSE FirstByteBudget
      [] call.phase = "sent" -> FirstByteBudget
      [] call.phase = "reading" -> ReadBudget

Waiting == call.phase \in {"connecting", "sent", "reading"}

Connected ==
    /\ call.phase = "connecting"
    /\ call' = [call EXCEPT !.phase = "sent"]
    /\ UNCHANGED <<clock, pool>>

\* A timer, or the connection failing: terminal for the response.
Fail ==
    /\ Waiting
    /\ Over("failed", call.made)
    /\ UNCHANGED <<clock, pool>>

\* Status and headers; a redirect is an answer like any other, unless the
\* caller has it admitted.
Headers ==
    /\ call.phase = "sent"
    /\ call' = [call EXCEPT !.phase = "open"]
    /\ UNCHANGED <<clock, pool>>

Redirect(location, answer) ==
    /\ call.phase = "open" /\ ~call.read
    /\ \/ /\ AdmitRedirect(call.policy, call.url, location, call.followed, answer)
          /\ call' = [phase |-> "admitted", made |-> call.made, policy |-> call.policy,
                      url |-> location, addresses |-> Resolved(location, answer),
                      profile |-> call.profile, followed |-> call.followed + 1]
       \/ /\ ~AdmitRedirect(call.policy, call.url, location, call.followed, answer)
          /\ Over("refused", call.made)
    /\ UNCHANGED <<clock, pool>>

MayRead == call.profile.progress => call.spent < Progress

\* next_chunk: the deadline is looked at before the wait, and the progress
\* deadline before that.
NextChunk ==
    /\ call.phase = "open"
    /\ IF MayRead /\ Remaining > 0
       THEN call' = [call EXCEPT !.phase = "reading", !.since = clock]
       ELSE Over("failed", call.made)
    /\ UNCHANGED <<clock, pool>>

\* A chunk that makes progress, a keepalive that does not, or the end.
Chunk(kind) ==
    /\ call.phase = "reading"
    /\ IF kind = "end"
       THEN Over("closed", call.made)
       ELSE call' = [call EXCEPT
                        !.phase = "open", !.read = TRUE,
                        !.spent = IF kind = "progress" THEN 0 ELSE @ + clock - call.since]
    /\ UNCHANGED <<clock, pool>>

\* The caller stops reading.
Drop ==
    /\ call.phase \in {"admitted", "open"}
    /\ Over("closed", call.made)
    /\ UNCHANGED <<clock, pool>>

HttpTick ==
    /\ \/ Waiting /\ clock - call.since < WaitLimit
       \/ call.phase = "open" /\ clock <= call.deadline
    /\ clock' = clock + 1
    /\ UNCHANGED <<pool, call>>

HttpNext ==
    \/ \E policy \in EgressPolicies, url \in Urls, answer \in Answers, p \in Profiles :
           Admit(policy, url, answer, p)
    \/ Send \/ Connected \/ Fail \/ Headers \/ NextChunk \/ Drop \/ HttpTick
    \/ \E url \in Urls, answer \in Answers : Redirect(url, answer)
    \/ \E key \in DOMAIN pool : Evict(key)
    \/ \E kind \in {"progress", "keepalive", "end"} : Chunk(kind)

HttpSpec == HttpInit /\ [][HttpNext]_httpVars

-----------------------------------------------------------------------------
Network(net) == {a \in Addresses : Mask(a, net[2]) = Mask(net[1], net[2])}

\* What an operator means by a policy: never a metadata address, only listed
\* networks when any are listed, and a private or local address only when a
\* listed network lies wholly inside one that may be excepted.
Reachable(policy, a) ==
    /\ a \notin Metadata
    /\ policy.cidrs # {} => \E c \in policy.cidrs : a \in Network(c)
    /\ (\E net \in DefaultDenied : a \in Network(net)) =>
           \E c \in policy.cidrs, net \in Exceptionable :
               a \in Network(c) /\ Network(c) \subseteq Network(net)

(* A call is connected only to an address its own policy lets an operator  *)
(* expect, whatever DNS answered before or since, whichever client of the  *)
(* pool serves it and however many redirects led there; it waits for its   *)
(* first byte no longer than the TTFB timeout and never past its deadline; *)
(* and a stream without progress holds it for less than the progress       *)
(* deadline plus one idle window (egress_policy.rs:579-723,                *)
(* upstream_client.rs:442-510 and 856-883, runtime.rs:4757-4792).          *)
CallsConfined ==
    /\ call.phase \in {"connecting", "sent", "open", "reading"} =>
           /\ Reachable(call.policy, call.connected)
           /\ call.url.host \in call.policy.hosts /\ call.url.port \in call.policy.ports
           /\ call.followed <= IF call.policy.redirect = "deny"
                               THEN 0 ELSE call.policy.maxRedirects
    /\ Waiting => clock <= call.deadline
    /\ call.phase \in {"connecting", "sent"} =>
           clock <= call.profile.timeouts.ttfb
    /\ call.phase = "reading" /\ call.profile.progress =>
           call.spent + clock - call.since < Progress + call.profile.timeouts.idle
=============================================================================
