--------------------------- MODULE GrokExchanges ----------------------------
(***************************************************************************)
(* A Grok Web conversation request (provider-grok: web_production.rs,      *)
(* web_statsig.rs, web_failure.rs): signed by the Statsig runtime that all *)
(* requests of one Endpoint share, sent, and retried once with a new       *)
(* signature and a rebuilt browser session after a 403 that does not say   *)
(* the account itself is blocked.                                          *)
(*                                                                         *)
(* Signatures and environments are numbers, 0 being none.  A step runs     *)
(* from one await to the next.  The time a request observes is the time it *)
(* began, also for its retry.                                              *)
(***************************************************************************)
EXTENDS Naturals, Sequences

CONSTANTS
    WebCalls, Environments,
    SignatureTTL,
    MaxSignatures, MaxWebTime

ASSUME WebConstants == SignatureTTL \in Nat

VARIABLES
    webTime,
    web,            \* call -> its state
    current,        \* the key and signature last issued
    sigCache,       \* environment -> its signature and expiry
    refresher,      \* the call that holds the refresh lock
    issued,         \* expiry of every signature issued so far
    rejected        \* signatures a 403 has discredited

webVars == <<webTime, web, current, sigCache, refresher, issued, rejected>>

NoSignature == [environment |-> 0, signature |-> 0]
NewCall == [pc |-> "idle", at |-> 0, attempt |-> 0, signature |-> 0,
            answers |-> {}, tries |-> 0, first |-> 0, result |-> "none"]

WebInit ==
    /\ webTime = 0
    /\ web = [c \in WebCalls |-> NewCall]
    /\ current = NoSignature
    /\ sigCache = << >>
    /\ refresher = {}
    /\ issued = << >>
    /\ rejected = {}

-----------------------------------------------------------------------------
CacheLive(at) ==
    /\ current.environment \in DOMAIN sigCache
    /\ at < sigCache[current.environment].expires

CacheWithout(key) == [k \in DOMAIN sigCache \ {key} |-> sigCache[k]]

\* cached: an expired entry is removed by the look.
CachedEffect(at) ==
    sigCache' = IF CacheLive(at) THEN sigCache ELSE CacheWithout(current.environment)

Put(c, call) == web' = [web EXCEPT ![c] = call]

Done(call, result) ==
    [call EXCEPT !.pc = "done", !.at = 0, !.tries = 0, !.signature = 0, !.first = 0,
                 !.result = result]

Dispatched(call, signature) ==
    [call EXCEPT !.pc = "sent", !.signature = signature,
                 !.first = IF call.attempt = 0 THEN signature ELSE call.first]

\* One round of the loop up to its first await: a live signature is used at
\* once, otherwise the call queues for the refresh lock.
Round(c, call) ==
    /\ Put(c, IF CacheLive(call.at)
              THEN Dispatched(call, sigCache[current.environment].signature)
              ELSE [call EXCEPT !.pc = "lock", !.tries = 0])
    /\ CachedEffect(call.at)

Execute(c) ==
    /\ web[c].pc = "idle"
    /\ Round(c, [web[c] EXCEPT !.at = webTime])
    /\ UNCHANGED <<webTime, current, refresher, issued, rejected>>

\* With the lock in hand the cache is looked at again.
Acquire(c) ==
    /\ web[c].pc = "lock" /\ refresher = {}
    /\ IF CacheLive(web[c].at)
       THEN /\ Put(c, Dispatched(web[c], sigCache[current.environment].signature))
            /\ UNCHANGED refresher
       ELSE /\ Put(c, [web[c] EXCEPT !.pc = "fetch"])
            /\ refresher' = {c}
    /\ CachedEffect(web[c].at)
    /\ UNCHANGED <<webTime, current, issued, rejected>>

Unexpired(at) == {k \in DOMAIN sigCache : sigCache[k].expires > at}

CacheInsert(key, entry, at) ==
    [k \in Unexpired(at) \cup {key} |-> IF k = key THEN entry ELSE sigCache[k]]

\* The environment is fetched and signed: the signature goes to the cache and
\* becomes the current one.
Signed(c, environment) ==
    /\ web[c].pc = "fetch"
    /\ Len(issued) < MaxSignatures
    /\ LET s == Len(issued) + 1
           expires == web[c].at + SignatureTTL
       IN  /\ issued' = Append(issued, expires)
           /\ sigCache' = CacheInsert(environment,
                                      [signature |-> s, expires |-> expires], web[c].at)
           /\ current' = [environment |-> environment, signature |-> s]
           /\ Put(c, Dispatched(web[c], s))
    /\ refresher' = {}
    /\ UNCHANGED <<webTime, rejected>>

\* The signer refused a first environment: another one is fetched.
SignRefused(c) ==
    /\ web[c].pc = "fetch" /\ web[c].tries = 0
    /\ Put(c, [web[c] EXCEPT !.tries = 1])
    /\ UNCHANGED <<webTime, current, sigCache, refresher, issued, rejected>>

\* A transient failure sends the request unsigned; a rejected Credential ends it.
SignFailed(c, code) ==
    /\ web[c].pc = "fetch"
    /\ Put(c, IF code = "CredentialUnauthorized"
              THEN Done(web[c], code)
              ELSE Dispatched(web[c], 0))
    /\ refresher' = {}
    /\ UNCHANGED <<webTime, current, sigCache, issued, rejected>>

\* Fault: the rejected signature is not compared with the current one.
InvalidateAny(signature) ==
    /\ current' = NoSignature
    /\ sigCache' = CacheWithout(current.environment)

Invalidate(signature) ==
    IF signature # 0 /\ current.signature = signature
    THEN /\ current' = NoSignature
         /\ sigCache' = CacheWithout(current.environment)
    ELSE UNCHANGED <<current, sigCache>>

ClassifyWeb(answer, confirmed) ==
    CASE answer = 401 -> "CredentialUnauthorized"
      [] answer = 403 -> IF confirmed THEN "CredentialForbidden" ELSE "EgressRejected"
      [] answer = 429 -> "ProviderRateLimited"
      [] answer \in {408, 500} -> "ProviderTransient"
      [] OTHER -> "ProviderPermanent"

\* The whole answer of the upstream: its status, and for a 403 whether the body
\* says that the account is blocked.  Only the first 403 looks at the body.
Answer(c, answer, blocked) ==
    LET call == [web[c] EXCEPT
                    !.answers = web[c].answers \cup {<<web[c].attempt, answer, blocked>>}]
    IN  /\ web[c].pc = "sent"
        /\ IF answer = 403 /\ call.attempt = 0 /\ ~blocked
           THEN /\ Put(c, [call EXCEPT !.pc = "refresh"])
                /\ Invalidate(call.signature)
                /\ rejected' = rejected \cup ({call.signature} \ {0})
           ELSE /\ Put(c, Done(call, IF answer = 200 THEN "events"
                                 ELSE ClassifyWeb(answer, call.attempt = 0)))
                /\ UNCHANGED <<current, sigCache, rejected>>
        /\ UNCHANGED <<webTime, refresher, issued>>

\* The browser session is rebuilt and the second round begins.
Rebuilt(c) ==
    /\ web[c].pc = "refresh"
    /\ Round(c, [web[c] EXCEPT !.attempt = 1])
    /\ UNCHANGED <<webTime, current, refresher, issued, rejected>>

\* The transport, a body read or the rebuild fails; or the client goes away.
Abandon(c) ==
    /\ web[c].pc \in {"lock", "fetch", "sent", "refresh"}
    /\ Put(c, Done(web[c], "abandoned"))
    /\ refresher' = refresher \ {c}
    /\ UNCHANGED <<webTime, current, sigCache, issued, rejected>>

WebTick ==
    /\ webTime < MaxWebTime
    /\ webTime' = webTime + 1
    /\ UNCHANGED <<web, current, sigCache, refresher, issued, rejected>>

WebNext ==
    \/ \E c \in WebCalls :
           \/ Execute(c) \/ Acquire(c) \/ SignRefused(c) \/ Rebuilt(c) \/ Abandon(c)
           \/ \E e \in Environments : Signed(c, e)
           \/ \E code \in {"EgressUnavailable", "CredentialUnauthorized"} :
                  SignFailed(c, code)
           \/ \E answer \in {200, 401, 403, 500}, blocked \in BOOLEAN :
                  (blocked => answer = 403) /\ Answer(c, answer, blocked)
    \/ WebTick

WebSpec == WebInit /\ [][WebNext]_webVars

-----------------------------------------------------------------------------
(* Requests that share one Statsig runtime never work against each other:  *)
(* at most one fetches a signature, a signature is replaced only when the  *)
(* upstream rejected it or it ran out, a late 403 never takes a newer      *)
(* signature with it, the cache holds nothing but the current entry (so    *)
(* its capacity is never met) and never a rejected one.  A request is sent *)
(* at most twice and each time answered at most once, the second time only *)
(* after a 403 that did not blame the account and never with the signature *)
(* that 403 rejected; the account is reported forbidden exactly on the     *)
(* evidence of the first answer (web_statsig.rs:429-525,                   *)
(* web_production.rs:791-867).                                             *)
WebRetriesSound ==
    /\ refresher = {c \in WebCalls : web[c].pc = "fetch"}
    /\ \A c, d \in refresher : c = d
    /\ DOMAIN sigCache \subseteq {current.environment}
    /\ current.signature \notin rejected
    /\ \A s \in DOMAIN issued :
           \/ s \in rejected
           \/ issued[s] <= webTime
           \/ s = current.signature /\ DOMAIN sigCache = {current.environment}
    /\ \A c \in WebCalls :
           /\ \A x \in web[c].answers : x[1] \in {0, 1}
           /\ \A x, y \in web[c].answers : x[1] = y[1] => x = y
           /\ web[c].attempt = 1 => <<0, 403, FALSE>> \in web[c].answers
           /\ web[c].result = "CredentialForbidden" <=> <<0, 403, TRUE>> \in web[c].answers
           /\ web[c].pc = "sent" /\ web[c].attempt = 1 /\ web[c].first # 0 =>
                  web[c].signature # web[c].first

-----------------------------------------------------------------------------
(***************************************************************************)
(* A Grok Console response request (provider-grok: console_responses.rs,   *)
(* console_dpop.rs): bound to a DPoP session that is taken from the        *)
(* transport's cache or exchanged first, and sent once more with a fresh   *)
(* session when the upstream answers 401.  The application builds a        *)
(* transport, and with it a cache, for every attempt; a caller of the      *)
(* library may share one.                                                  *)
(*                                                                         *)
(* Sessions are numbers, the sequence of the exchanges that made them.     *)
(***************************************************************************)

CONSTANTS
    ConsoleCalls,
    MaxTokenLifetime, RefreshSkew, Lifetimes,
    MaxSessions, MaxConsoleTime

ASSUME ConsoleConstants == RefreshSkew \in Nat /\ Lifetimes \subseteq Nat

VARIABLES
    shared,         \* do the calls share a transport?
    consoleTime,
    console,        \* call -> its state
    dpop,           \* cache key -> session
    sessions,       \* session -> its expiry, and the transport it is cached in
    refused         \* sessions a 401 has answered

consoleVars == <<shared, consoleTime, console, dpop, sessions, refused>>

NewConsoleCall == [pc |-> "idle", at |-> 0, session |-> 0, sends |-> 0,
                   exchanges |-> 0, first401 |-> FALSE, result |-> "none"]

ConsoleInit ==
    /\ shared \in BOOLEAN
    /\ consoleTime = 0
    /\ console = [c \in ConsoleCalls |-> NewConsoleCall]
    /\ dpop = << >>
    /\ sessions = << >>
    /\ refused = {}

\* The cache key of a call: its transport, and there the URL and cookie, which
\* all calls of one account share.
CacheKey(c) == IF shared THEN "all" ELSE c

IsValidAt(session, at) == sessions[session].expires > at + RefreshSkew

\* A token's lifetime is bounded and must outlast the refresh skew.
FromTokenResponse(lifetime) == lifetime \in 1 .. MaxTokenLifetime /\ lifetime > RefreshSkew

Forget(key) == [k \in DOMAIN dpop \ {key} |-> dpop[k]]

PutCall(c, call) == console' = [console EXCEPT ![c] = call]

Sent(call, session) ==
    [call EXCEPT !.pc = "sent", !.session = session, !.sends = call.sends + 1]

ClassifyConsole(status) ==
    CASE status \in {400, 404, 405, 409, 415, 422} -> "request"
      [] status = 401 -> "credential"
      [] status = 403 -> "egress"
      [] status = 429 -> "quota"
      [] OTHER -> "endpoint"

ConsoleFailure(owner) ==
    CASE owner = "credential" -> "CredentialUnauthorized"
      [] owner = "egress" -> "EgressRejected"
      [] owner = "quota" -> "CredentialQuotaExceeded"
      [] owner = "endpoint" -> "ProviderTransient"
      [] owner = "request" -> "ProviderPermanent"

ConsoleResult(status) ==
    IF status = 200 THEN "events" ELSE ConsoleFailure(ClassifyConsole(status))

\* Up to the first await: the cached session if it is still valid, or an
\* exchange; an invalid one is dropped from the cache.
BeginConsole(c) ==
    LET key == CacheKey(c)
        hit == key \in DOMAIN dpop /\ IsValidAt(dpop[key], consoleTime)
        call == [console[c] EXCEPT !.at = consoleTime]
    IN  /\ console[c].pc = "idle"
        /\ PutCall(c, IF hit THEN Sent(call, dpop[key])
                      ELSE [call EXCEPT !.pc = "exchange"])
        /\ dpop' = IF hit THEN dpop ELSE Forget(key)
        /\ UNCHANGED <<shared, consoleTime, sessions, refused>>

Finish(c, result) ==
    PutCall(c, [console[c] EXCEPT !.pc = "done", !.at = 0, !.result = result])

\* The token endpoint answers with a token bound to this call's key.
Exchanged(c, lifetime) ==
    /\ console[c].pc = "exchange"
    /\ Len(sessions) < MaxSessions
    /\ IF FromTokenResponse(lifetime)
       THEN LET s == Len(sessions) + 1
                key == CacheKey(c)
            IN  /\ sessions' = Append(sessions, [expires |-> console[c].at + lifetime,
                                                 key |-> key])
                /\ dpop' = [k \in DOMAIN dpop \cup {key} |-> IF k = key THEN s ELSE dpop[k]]
                /\ PutCall(c, [Sent(console[c], s) EXCEPT !.exchanges = console[c].exchanges + 1])
       ELSE Finish(c, "EgressUnavailable") /\ UNCHANGED <<dpop, sessions>>
    /\ UNCHANGED <<shared, consoleTime, refused>>

\* It refuses: an error of its own before the first send, the upstream's 401
\* after it.
ExchangeRefused(c, status) ==
    /\ console[c].pc = "exchange"
    /\ Finish(c, ConsoleResult(IF console[c].sends = 0 THEN status ELSE 401))
    /\ UNCHANGED <<shared, consoleTime, dpop, sessions, refused>>

InvalidateSession(key, session) ==
    dpop' = IF key \in DOMAIN dpop /\ dpop[key] = session THEN Forget(key) ELSE dpop

ConsoleAnswer(c, status) ==
    /\ console[c].pc = "sent"
    /\ IF status = 401 /\ console[c].sends = 1
       THEN /\ PutCall(c, [console[c] EXCEPT !.pc = "exchange", !.first401 = TRUE])
            /\ InvalidateSession(CacheKey(c), console[c].session)
       ELSE Finish(c, ConsoleResult(status)) /\ UNCHANGED dpop
    /\ refused' = IF status = 401 /\ console[c].sends = 1
                  THEN refused \cup {console[c].session} ELSE refused
    /\ UNCHANGED <<shared, consoleTime, sessions>>

ConsoleAbandon(c) ==
    /\ console[c].pc \in {"exchange", "sent"}
    /\ Finish(c, "abandoned")
    /\ UNCHANGED <<shared, consoleTime, dpop, sessions, refused>>

ConsoleTick ==
    /\ consoleTime < MaxConsoleTime
    /\ consoleTime' = consoleTime + 1
    /\ UNCHANGED <<shared, console, dpop, sessions, refused>>

ConsoleNext ==
    \/ \E c \in ConsoleCalls :
           \/ BeginConsole(c) \/ ConsoleAbandon(c)
           \/ \E lifetime \in Lifetimes : Exchanged(c, lifetime)
           \/ \E status \in {401, 403, 503} : ExchangeRefused(c, status)
           \/ \E status \in {200, 401, 403, 503} : ConsoleAnswer(c, status)
    \/ ConsoleTick

ConsoleSpec == ConsoleInit /\ [][ConsoleNext]_consoleVars

-----------------------------------------------------------------------------
(* A session a 401 discredited is never handed out again, and a late 401   *)
(* discards no session but its own: the newest one of a cache stays there  *)
(* until it is refused or runs out.  A request is sent at most twice, each *)
(* time with another session that was valid when the request began, and    *)
(* ends with the first 401 when the second exchange is refused             *)
(* (console_responses.rs:778-926, console_dpop.rs:196-233).                *)
ConsoleSessionsSound ==
    /\ \A key \in DOMAIN dpop : dpop[key] \notin refused
    /\ \A s \in DOMAIN sessions :
           \/ \E later \in DOMAIN sessions :
                  later > s /\ sessions[later].key = sessions[s].key
           \/ s \in refused
           \/ ~IsValidAt(s, consoleTime)
           \/ sessions[s].key \in DOMAIN dpop /\ dpop[sessions[s].key] = s
    /\ \A c \in ConsoleCalls :
           /\ console[c].sends <= 2 /\ console[c].exchanges <= 2
           /\ console[c].pc = "sent" =>
                  /\ IsValidAt(console[c].session, console[c].at)
                  /\ sessions[console[c].session].key = CacheKey(c)
           /\ console[c].sends = 1 /\ console[c].first401 =>
                  console[c].result \notin {"events", "EgressRejected", "ProviderTransient"}

(* Requests that share the Statsig runtime of Grok Web, or a Console       *)
(* transport, never undo each other's renewed signature or session, never  *)
(* reuse a rejected one and are sent at most twice (web_statsig.rs,        *)
(* console_responses.rs).                                                  *)
ExchangesSound == WebRetriesSound /\ ConsoleSessionsSound
=============================================================================
