----------------------------- MODULE MCAttempts -----------------------------
(***************************************************************************)
(* The orchestrator of two requests on two bindings of different           *)
(* Endpoints, where one credential serves both requests at once and the    *)
(* other only one; and, each on its own, what one attempt does upstream:   *)
(* the HTTP call, and the exchanges of Grok Web and Grok Console with      *)
(* their shared signature and session caches.  For liveness, two requests  *)
(* on one binding whose credential serves one at a time.                   *)
(***************************************************************************)
EXTENDS AttemptOrchestrator, UpstreamHttp, GrokExchanges, TLC

CONSTANTS
    Parts,    \* of "attempts", "http", "web", "console"
    r1, r2, b1, b2, e1, e2, c1, c2

VARIABLE part

TwoEndpoints == (b1 :> e1) @@ (b2 :> e2)
TwoAndOne == (b1 :> 2) @@ (b2 :> 1)
OneEndpoint == b1 :> e1
OneLease == b1 :> 1

\* The address whose bits are those of n.
Bits(n) == [i \in 1 .. Width |-> (n \div 2^(Width - i)) % 2]

PublicPolicy ==
    [schemes |-> {"https"}, hosts |-> {"api", "cdn"}, ports |-> {443}, cidrs |-> {},
     redirect |-> "revalidate", maxRedirects |-> 1]
\* Excepts half of the private network, which holds the metadata address.
PrivatePolicy ==
    [PublicPolicy EXCEPT !.cidrs = {EgressCidr(Bits(9), 3)}, !.redirect = "same_origin"]
\* Lists a network wider than the private one: no exception.
WidePolicy ==
    [PublicPolicy EXCEPT !.cidrs = {EgressCidr(Bits(8), 1)}, !.redirect = "deny"]
ThePolicies == {PublicPolicy, PrivatePolicy, WidePolicy}

Domain(host) ==
    [base |-> TRUE, userInfo |-> FALSE, scheme |-> "https", host |-> host, port |-> 443,
     literal |-> FALSE, address |-> Bits(0)]
TheUrls ==
    {Domain("api"), Domain("cdn"),
     [Domain("api") EXCEPT !.literal = TRUE, !.address = Bits(8)],
     [Domain("api") EXCEPT !.port = 80]}
TheAnswers == {{}, {Bits(1)}, {Bits(8)}, {Bits(9)}, {Bits(1), Bits(8)}}
TheMetadata == {Bits(9)}
PrivateNetworks == {<<Bits(8), 2>>}
DeniedNetworks == {<<Bits(8), 2>>, <<Bits(13), 3>>}

TheProfiles ==
    {[timeouts |-> [connect |-> 1, ttfb |-> 2, idle |-> 1, total |-> 4], progress |-> TRUE],
     [timeouts |-> [connect |-> 2, ttfb |-> 1, idle |-> 2, total |-> 3], progress |-> FALSE]}

Symmetry == Permutations(Requests)

PartInit ==
    /\ Init /\ HttpInit /\ WebInit /\ ConsoleInit
    /\ part \in Parts
    /\ part # "console" => ~shared

PartNext ==
    /\ UNCHANGED part
    /\ \/ part = "attempts" /\ Next /\ UNCHANGED <<httpVars, webVars, consoleVars>>
       \/ part = "http" /\ HttpNext /\ UNCHANGED <<vars, webVars, consoleVars>>
       \/ part = "web" /\ WebNext /\ UNCHANGED <<vars, httpVars, consoleVars>>
       \/ part = "console" /\ ConsoleNext /\ UNCHANGED <<vars, httpVars, webVars>>

PartSpec == PartInit /\ [][PartNext]_<<part, vars, httpVars, webVars, consoleVars>>

\* The fairness is the orchestrator's.
FairAttempts == PartSpec /\ Fairness
=============================================================================
