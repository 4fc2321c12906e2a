---------------------------- MODULE GrokWebProofs ---------------------------
(***************************************************************************)
(* Grok Web requests that share a signature: for any number of requests    *)
(* and environments, none undoes what another renewed.                     *)
(***************************************************************************)
EXTENDS Integers, GrokExchanges, TLAPS

Unblamed == <<0, 403, FALSE>>
Blamed == <<0, 403, TRUE>>

WebAnswers == {0, 1} \X Nat \X BOOLEAN

(* Every send was answered at most once.                                   *)
OncePerSend(answers) == \A x, y \in answers : x[1] = y[1] => x = y

WebCall ==
    [pc : {"idle", "lock", "fetch", "sent", "refresh", "done"}, at : Nat,
     attempt : {0, 1}, signature : Nat, answers : SUBSET WebAnswers,
     tries : {0, 1}, first : Nat,
     result : {"none", "events", "abandoned", "CredentialUnauthorized",
               "CredentialForbidden", "EgressRejected", "ProviderRateLimited",
               "ProviderTransient", "ProviderPermanent"}]

(* A call whose next answer is still to come.                              *)
Pending(q, discredited) ==
    /\ q.result = "none"
    /\ q.attempt = 0 => q.answers = {}
    /\ q.attempt = 1 => q.answers = {Unblamed}
    /\ q.attempt = 1 /\ q.first # 0 => q.first \in discredited

(* What a call has been answered, and how it ended.                        *)
Verdict(q) ==
    /\ OncePerSend(q.answers)
    /\ q.attempt = 1 => Unblamed \in q.answers
    /\ q.result = "CredentialForbidden" <=> Blamed \in q.answers

(* One call at time t, when n signatures were issued and some discredited. *)
WebCallInv(q, t, n, discredited) ==
    /\ q \in WebCall
    /\ q.at <= t
    /\ q.signature <= n
    /\ q.pc \in {"idle", "lock", "fetch", "sent"} => Pending(q, discredited)
    /\ q.pc = "idle" => q.attempt = 0
    /\ q.pc = "sent" /\ q.attempt = 0 => q.first = q.signature
    /\ q.pc = "sent" /\ q.attempt = 1 /\ q.first # 0 => q.signature # q.first
    /\ q.pc = "refresh" =>
          /\ q.result = "none" /\ q.attempt = 0 /\ q.answers = {Unblamed}
          /\ q.first # 0 => q.first \in discredited
    /\ Verdict(q)

(* The signature the calls share: the cache holds the current one or is    *)
(* empty, and an unexpired signature is cached unless it was rejected.     *)
SignatureInv ==
    /\ webTime \in Nat
    /\ issued \in Seq(Nat)
    /\ rejected \subseteq DOMAIN issued
    /\ current.signature \in 0 .. Len(issued)
    /\ current.signature \notin rejected
    /\ DOMAIN sigCache \subseteq {current.environment}
    /\ DOMAIN sigCache # {} =>
          /\ current.signature # 0
          /\ sigCache[current.environment] =
                [signature |-> current.signature, expires |-> issued[current.signature]]
    /\ \A s \in DOMAIN issued :
          \/ s \in rejected
          \/ issued[s] <= webTime
          \/ s = current.signature /\ DOMAIN sigCache = {current.environment}

(* The refresh lock, whose holder found the cache empty.                   *)
LockInv ==
    /\ refresher = {c \in WebCalls : web[c].pc = "fetch"}
    /\ \A c, d \in refresher : c = d
    /\ refresher # {} => DOMAIN sigCache = {}

WebInv ==
    /\ SignatureInv
    /\ LockInv
    /\ DOMAIN web = WebCalls
    /\ \A c \in WebCalls : WebCallInv(web[c], webTime, Len(issued), rejected)

LEMMA WebInvInit == WebInit => WebInv
<1> SUFFICES ASSUME WebInit PROVE WebInv
  OBVIOUS
<1>1. SignatureInv
  BY DEF WebInit, SignatureInv, NoSignature
<1>2. LockInv
  BY DEF WebInit, LockInv, NewCall
<1>3. WebCallInv(NewCall, 0, 0, {})
  <2>1. NewCall \in WebCall
    BY DEF NewCall, WebCall
  <2>2. Verdict(NewCall)
    BY DEF Verdict, NewCall, OncePerSend, Unblamed, Blamed
  <2> QED
    BY <2>1, <2>2 DEF WebCallInv, NewCall, Pending
<1>4. Len(issued) = 0
  BY DEF WebInit
<1> QED
  BY <1>1, <1>2, <1>3, <1>4 DEF WebInit, WebInv

-----------------------------------------------------------------------------
(* A call's invariant survives time, new signatures and rejections.        *)
LEMMA WebCallKept ==
    ASSUME NEW q, NEW t \in Nat, NEW u \in Nat, t <= u, NEW n \in Nat, NEW m \in Nat, n <= m,
           NEW d, NEW e, d \subseteq e, WebCallInv(q, t, n, d)
    PROVE  WebCallInv(q, u, m, e)
BY DEF WebCallInv, WebCall, Pending

LEMMA PendingVerdict ==
    ASSUME NEW q \in WebCall, NEW d, Pending(q, d) PROVE Verdict(q)
<1>1. Unblamed # Blamed
  BY DEF Unblamed, Blamed
<1>2. q.answers = {} \/ q.answers = {Unblamed}
  <2>1. q.attempt \in {0, 1}
    BY DEF WebCall
  <2> QED
    BY <2>1 DEF Pending
<1>3. OncePerSend(q.answers)
  BY <1>2 DEF OncePerSend
<1>4. q.attempt = 1 => Unblamed \in q.answers
  BY DEF Pending
<1>5. q.result # "CredentialForbidden" /\ Blamed \notin q.answers
  BY <1>1, <1>2 DEF Pending
<1> QED
  BY <1>3, <1>4, <1>5 DEF Verdict

(* A call is sent with a signature nothing speaks against.                 *)
LEMMA DispatchKeepsInv ==
    ASSUME NEW q \in WebCall, NEW t \in Nat, NEW n \in Nat, NEW d, q.at <= t,
           Pending(q, d), NEW s \in 0 .. n, s \notin d
    PROVE  /\ WebCallInv(Dispatched(q, s), t, n, d)
           /\ Dispatched(q, s).pc = "sent"
<1> DEFINE e == Dispatched(q, s)
<1>1. e \in WebCall
  <2>1. s \in Nat /\ (IF q.attempt = 0 THEN s ELSE q.first) \in Nat
    BY DEF WebCall
  <2> QED
    BY <2>1 DEF Dispatched, WebCall
<1>2. /\ e.pc = "sent" /\ e.at = q.at /\ e.signature = s /\ e.attempt = q.attempt
      /\ e.answers = q.answers /\ e.result = q.result
      /\ e.first = IF q.attempt = 0 THEN s ELSE q.first
  BY DEF Dispatched, WebCall
<1>3. q.attempt \in {0, 1}
  BY DEF WebCall
<1>4. Pending(e, d)
  BY <1>2, <1>3 DEF Pending
<1>5. Verdict(e)
  BY <1>1, <1>4, PendingVerdict
<1> QED
  BY <1>1, <1>2, <1>3, <1>4, <1>5 DEF WebCallInv, Pending

LEMMA QueueKeepsInv ==
    ASSUME NEW q \in WebCall, NEW t \in Nat, NEW n \in Nat, NEW d, q.at <= t,
           q.signature <= n, Pending(q, d), NEW pc \in {"lock", "fetch"}, NEW k \in {0, 1}
    PROVE  /\ WebCallInv([q EXCEPT !.pc = pc, !.tries = k], t, n, d)
           /\ [q EXCEPT !.pc = pc, !.tries = k].pc = pc
<1> DEFINE e == [q EXCEPT !.pc = pc, !.tries = k]
<1>1. e \in WebCall
  BY DEF WebCall
<1>2. /\ e.pc = pc /\ e.at = q.at /\ e.signature = q.signature /\ e.attempt = q.attempt
      /\ e.answers = q.answers /\ e.result = q.result /\ e.first = q.first
  BY DEF WebCall
<1>3. Pending(e, d)
  BY <1>2 DEF Pending
<1>4. Verdict(e)
  BY <1>1, <1>3, PendingVerdict
<1> QED
  BY <1>1, <1>2, <1>3, <1>4 DEF WebCallInv

(* A call that ends with what it has been answered.                        *)
LEMMA DoneKeepsInv ==
    ASSUME NEW q \in WebCall, NEW t \in Nat, NEW n \in Nat, NEW d,
           NEW result, Done(q, result) \in WebCall, OncePerSend(q.answers),
           q.attempt = 1 => Unblamed \in q.answers,
           result = "CredentialForbidden" <=> Blamed \in q.answers
    PROVE  /\ WebCallInv(Done(q, result), t, n, d)
           /\ Done(q, result).pc = "done"
<1> DEFINE e == Done(q, result)
<1>1. /\ e.pc = "done" /\ e.at = 0 /\ e.signature = 0 /\ e.attempt = q.attempt
      /\ e.answers = q.answers /\ e.result = result
  BY DEF Done, WebCall
<1> QED
  BY <1>1 DEF WebCallInv, Verdict

(* What a call's step starts from.                                         *)
LEMMA WebFacts ==
    ASSUME WebInv, NEW c \in WebCalls
    PROVE  /\ SignatureInv /\ LockInv /\ webTime \in Nat /\ Len(issued) \in Nat
           /\ WebCallInv(web[c], webTime, Len(issued), rejected) /\ web[c] \in WebCall
           /\ web[c].at \in Nat /\ web[c].at <= webTime /\ web[c].signature <= Len(issued)
           /\ web[c].tries \in {0, 1} /\ web[c].attempt \in {0, 1}
<1>1. SignatureInv /\ LockInv /\ WebCallInv(web[c], webTime, Len(issued), rejected)
  BY DEF WebInv
<1>2. webTime \in Nat /\ Len(issued) \in Nat
  BY <1>1 DEF SignatureInv
<1>3. web[c] \in WebCall /\ web[c].at <= webTime /\ web[c].signature <= Len(issued)
  BY <1>1 DEF WebCallInv
<1>4. web[c].at \in Nat /\ web[c].tries \in {0, 1} /\ web[c].attempt \in {0, 1}
  BY <1>3 DEF WebCall
<1> QED
  BY <1>1, <1>2, <1>3, <1>4

(* Replacing one call leaves the invariants of the others alone.           *)
LEMMA PutKeepsCalls ==
    ASSUME WebInv, NEW c \in WebCalls, NEW q, Put(c, q),
           webTime' \in Nat, webTime <= webTime', Len(issued') \in Nat,
           Len(issued) <= Len(issued'), rejected \subseteq rejected',
           WebCallInv(q, webTime', Len(issued'), rejected')
    PROVE  /\ DOMAIN web' = WebCalls
           /\ web'[c] = q
           /\ \A d \in WebCalls \ {c} : web'[d] = web[d]
           /\ \A d \in WebCalls : WebCallInv(web'[d], webTime', Len(issued'), rejected')
<1>1. /\ DOMAIN web' = WebCalls /\ web'[c] = q
      /\ \A d \in WebCalls \ {c} : web'[d] = web[d]
  BY DEF Put, WebInv
<1>2. webTime \in Nat /\ Len(issued) \in Nat
  BY DEF WebInv, SignatureInv
<1>3. ASSUME NEW d \in WebCalls \ {c}
      PROVE  WebCallInv(web[d], webTime', Len(issued'), rejected')
  <2>1. WebCallInv(web[d], webTime, Len(issued), rejected)
    BY DEF WebInv
  <2> QED
    BY <1>2, <2>1, WebCallKept
<1> QED
  BY <1>1, <1>3

(* A look into the cache drops the current entry only when it has run out. *)
LEMMA CacheLook ==
    ASSUME SignatureInv, NEW at \in Nat, at <= webTime, CachedEffect(at),
           UNCHANGED <<webTime, current, issued, rejected>>
    PROVE  /\ SignatureInv'
           /\ ~CacheLive(at) => DOMAIN sigCache' = {}
           /\ DOMAIN sigCache = {} => DOMAIN sigCache' = {}
<1>1. CASE CacheLive(at)
  BY <1>1 DEF SignatureInv, CachedEffect, CacheLive
<1>2. CASE ~CacheLive(at)
  <2>1. sigCache' = CacheWithout(current.environment)
    BY <1>2 DEF CachedEffect
  <2>2. DOMAIN sigCache' = {}
    BY <2>1 DEF CacheWithout, SignatureInv
  <2>3. ASSUME NEW s \in DOMAIN issued PROVE s \in rejected \/ issued[s] <= webTime
    <3>1. SUFFICES ASSUME s = current.signature, DOMAIN sigCache = {current.environment}
                   PROVE  issued[s] <= webTime
      BY DEF SignatureInv
    <3>2. sigCache[current.environment].expires = issued[s] /\ issued[s] \in Nat
      BY <3>1 DEF SignatureInv
    <3> QED
      BY <1>2, <3>1, <3>2 DEF CacheLive, SignatureInv
  <2> QED
    BY <1>2, <2>2, <2>3 DEF SignatureInv
<1> QED
  BY <1>1, <1>2

LEMMA LiveSignature ==
    ASSUME SignatureInv, NEW at, CacheLive(at)
    PROVE  /\ sigCache[current.environment].signature \in 0 .. Len(issued)
           /\ sigCache[current.environment].signature \notin rejected
BY DEF SignatureInv, CacheLive

(* A round uses a live signature or queues for the lock.                   *)
LEMMA RoundKeepsInv ==
    ASSUME WebInv, NEW c \in WebCalls, NEW q \in WebCall, q.at <= webTime,
           q.signature <= Len(issued), Pending(q, rejected), web[c].pc # "fetch",
           Round(c, q), UNCHANGED <<webTime, current, refresher, issued, rejected>>
    PROVE  WebInv'
<1> DEFINE e == IF CacheLive(q.at)
                THEN Dispatched(q, sigCache[current.environment].signature)
                ELSE [q EXCEPT !.pc = "lock", !.tries = 0]
<1>0. webTime \in Nat /\ Len(issued) \in Nat /\ q.at \in Nat /\ SignatureInv /\ LockInv
  BY WebFacts DEF WebCall
<1>1. WebCallInv(e, webTime, Len(issued), rejected) /\ e.pc # "fetch"
  <2>1. CASE CacheLive(q.at)
    BY <1>0, <2>1, LiveSignature, DispatchKeepsInv
  <2>2. CASE ~CacheLive(q.at)
    BY <1>0, <2>2, QueueKeepsInv
  <2> QED
    BY <2>1, <2>2
<1>2. Put(c, e) /\ CachedEffect(q.at)
  BY DEF Round
<1> HIDE DEF e
<1>3. /\ DOMAIN web' = WebCalls /\ web'[c] = e
      /\ \A d \in WebCalls \ {c} : web'[d] = web[d]
      /\ \A d \in WebCalls : WebCallInv(web'[d], webTime', Len(issued'), rejected')
  BY <1>0, <1>1, <1>2, PutKeepsCalls
<1>4. SignatureInv' /\ (DOMAIN sigCache = {} => DOMAIN sigCache' = {})
  BY <1>0, <1>2, CacheLook
<1>5. LockInv'
  BY <1>0, <1>1, <1>3, <1>4 DEF LockInv
<1> QED
  BY <1>3, <1>4, <1>5 DEF WebInv

LEMMA ExecuteStep ==
    ASSUME WebInv, NEW c \in WebCalls, Execute(c) \/ Rebuilt(c) PROVE WebInv'
<1>0. /\ webTime \in Nat /\ Len(issued) \in Nat
      /\ WebCallInv(web[c], webTime, Len(issued), rejected) /\ web[c] \in WebCall
  BY WebFacts
<1>1. CASE Execute(c)
  <2> DEFINE q == [web[c] EXCEPT !.at = webTime]
  <2>1. q \in WebCall
    BY <1>0 DEF WebCall
  <2>2. /\ q.at = webTime /\ q.signature = web[c].signature /\ q.attempt = web[c].attempt
        /\ q.answers = web[c].answers /\ q.result = web[c].result /\ q.first = web[c].first
    BY <1>0 DEF WebCall
  <2>3. Pending(q, rejected) /\ q.at <= webTime /\ q.signature <= Len(issued)
    BY <1>0, <1>1, <2>2 DEF Execute, WebCallInv, Pending
  <2> QED
    BY <1>1, <2>1, <2>3, RoundKeepsInv DEF Execute
<1>2. CASE Rebuilt(c)
  <2> DEFINE q == [web[c] EXCEPT !.attempt = 1]
  <2>1. q \in WebCall
    BY <1>0 DEF WebCall
  <2>2. /\ q.at = web[c].at /\ q.signature = web[c].signature /\ q.attempt = 1
        /\ q.answers = web[c].answers /\ q.result = web[c].result /\ q.first = web[c].first
    BY <1>0 DEF WebCall
  <2>3. Pending(q, rejected) /\ q.at <= webTime /\ q.signature <= Len(issued)
    BY <1>0, <1>2, <2>2 DEF Rebuilt, WebCallInv, Pending
  <2> QED
    BY <1>2, <2>1, <2>3, RoundKeepsInv DEF Rebuilt
<1> QED
  BY <1>1, <1>2

LEMMA AcquireStep == ASSUME WebInv, NEW c \in WebCalls, Acquire(c) PROVE WebInv'
<1>0. /\ webTime \in Nat /\ Len(issued) \in Nat /\ SignatureInv /\ LockInv
      /\ WebCallInv(web[c], webTime, Len(issued), rejected) /\ web[c] \in WebCall
      /\ web[c].at \in Nat /\ web[c].at <= webTime /\ web[c].signature <= Len(issued)
      /\ web[c].tries \in {0, 1}
  BY WebFacts
<1>1. Pending(web[c], rejected) /\ refresher = {} /\ web[c].pc = "lock"
  BY <1>0 DEF Acquire, WebCallInv
<1>2. /\ SignatureInv' /\ (~CacheLive(web[c].at) => DOMAIN sigCache' = {})
  BY <1>0, CacheLook DEF Acquire
<1>3. CASE CacheLive(web[c].at)
  <2> DEFINE e == Dispatched(web[c], sigCache[current.environment].signature)
  <2>1. WebCallInv(e, webTime, Len(issued), rejected) /\ e.pc # "fetch"
    BY <1>0, <1>1, <1>3, LiveSignature, DispatchKeepsInv
  <2>2. Put(c, e) /\ UNCHANGED <<webTime, refresher, issued, rejected>>
    BY <1>3 DEF Acquire
  <2> HIDE DEF e
  <2>3. /\ DOMAIN web' = WebCalls /\ web'[c] = e
        /\ \A d \in WebCalls \ {c} : web'[d] = web[d]
        /\ \A d \in WebCalls : WebCallInv(web'[d], webTime', Len(issued'), rejected')
    BY <1>0, <2>1, <2>2, PutKeepsCalls
  <2>4. LockInv'
    BY <1>0, <1>1, <2>1, <2>2, <2>3 DEF LockInv
  <2> QED
    BY <1>2, <2>3, <2>4 DEF WebInv
<1>4. CASE ~CacheLive(web[c].at)
  <2> DEFINE e == [web[c] EXCEPT !.pc = "fetch"]
  <2>1. WebCallInv(e, webTime, Len(issued), rejected) /\ e.pc = "fetch"
    <3>1. e = [web[c] EXCEPT !.pc = "fetch", !.tries = web[c].tries]
      BY <1>0 DEF WebCall
    <3>2. /\ WebCallInv([web[c] EXCEPT !.pc = "fetch", !.tries = web[c].tries],
                        webTime, Len(issued), rejected)
          /\ [web[c] EXCEPT !.pc = "fetch", !.tries = web[c].tries].pc = "fetch"
      <4>1. ASSUME NEW k \in {0, 1}
            PROVE  /\ WebCallInv([web[c] EXCEPT !.pc = "fetch", !.tries = k],
                                 webTime, Len(issued), rejected)
                   /\ [web[c] EXCEPT !.pc = "fetch", !.tries = k].pc = "fetch"
        BY <1>0, <1>1, QueueKeepsInv
      <4> QED
        BY <1>0, <4>1, Zenon
    <3> QED
      BY <3>1, <3>2, Zenon
  <2>2. Put(c, e) /\ refresher' = {c} /\ UNCHANGED <<webTime, issued, rejected>>
    BY <1>4 DEF Acquire
  <2> HIDE DEF e
  <2>3. /\ DOMAIN web' = WebCalls /\ web'[c] = e
        /\ \A d \in WebCalls \ {c} : web'[d] = web[d]
        /\ \A d \in WebCalls : WebCallInv(web'[d], webTime', Len(issued'), rejected')
    BY <1>0, <2>1, <2>2, PutKeepsCalls
  <2>4. LockInv'
    BY <1>0, <1>1, <1>2, <1>4, <2>1, <2>2, <2>3 DEF LockInv
  <2> QED
    BY <1>2, <2>3, <2>4 DEF WebInv
<1> QED
  BY <1>3, <1>4

LEMMA SignedStep ==
    ASSUME WebInv, NEW c \in WebCalls, NEW env \in Environments, Signed(c, env) PROVE WebInv'
<1> DEFINE s == Len(issued) + 1
           expires == web[c].at + SignatureTTL
           e == Dispatched(web[c], s)
<1>0. /\ webTime \in Nat /\ Len(issued) \in Nat /\ SignatureInv /\ LockInv
      /\ WebCallInv(web[c], webTime, Len(issued), rejected) /\ web[c] \in WebCall
      /\ web[c].at \in Nat /\ web[c].at <= webTime
  BY WebFacts
<1>1. /\ issued' = Append(issued, expires) /\ Put(c, e) /\ refresher' = {}
      /\ current' = [environment |-> env, signature |-> s]
      /\ sigCache' = CacheInsert(env, [signature |-> s, expires |-> expires], web[c].at)
      /\ UNCHANGED <<webTime, rejected>> /\ web[c].pc = "fetch"
  BY DEF Signed
<1>2. expires \in Nat
  BY <1>0, WebConstants
<1>3. /\ issued' \in Seq(Nat) /\ Len(issued') = s /\ DOMAIN issued' = 1 .. s
      /\ DOMAIN issued = 1 .. Len(issued)
      /\ issued'[s] = expires /\ \A i \in 1 .. Len(issued) : issued'[i] = issued[i]
  BY <1>0, <1>1, <1>2 DEF SignatureInv
<1>4. s \notin rejected
  BY <1>0, <1>3 DEF SignatureInv
<1>5. WebCallInv(e, webTime, s, rejected) /\ e.pc # "fetch"
  <2>1. Pending(web[c], rejected)
    BY <1>0, <1>1 DEF WebCallInv
  <2>2. s \in Nat /\ s \in 0 .. s
    BY <1>0
  <2> HIDE DEF s
  <2>3. WebCallInv(e, webTime, s, rejected) /\ e.pc = "sent"
    BY <1>0, <1>4, <2>1, <2>2, DispatchKeepsInv
  <2> QED
    BY <2>3
<1>6. refresher = {c} /\ DOMAIN sigCache = {}
  BY <1>0, <1>1 DEF LockInv
<1> HIDE DEF e, expires
<1>7. /\ DOMAIN web' = WebCalls /\ web'[c] = e
      /\ \A d \in WebCalls \ {c} : web'[d] = web[d]
      /\ \A d \in WebCalls : WebCallInv(web'[d], webTime', Len(issued'), rejected')
  BY <1>0, <1>1, <1>3, <1>5, PutKeepsCalls
<1>8. /\ DOMAIN sigCache' = {env}
      /\ sigCache'[env] = [signature |-> s, expires |-> expires]
  BY <1>1, <1>6 DEF CacheInsert, Unexpired
<1>9. SignatureInv'
  <2>1. \A i \in DOMAIN issued : i \in rejected \/ issued[i] <= webTime
    BY <1>6 DEF SignatureInv, WebInv
  <2>2. current'.environment = env /\ current'.signature = s
    BY <1>1
  <2>3. \A i \in DOMAIN issued' : i \in rejected \/ issued'[i] <= webTime \/ i = s
    BY <1>0, <1>3, <2>1
  <2>4. rejected \subseteq DOMAIN issued'
    BY <1>0, <1>3 DEF SignatureInv
  <2>5. s \in 0 .. Len(issued') /\ s # 0 /\ webTime' = webTime /\ rejected' = rejected
    BY <1>0, <1>1, <1>3
  <2> HIDE DEF s
  <2> QED
    BY <1>0, <1>3, <1>4, <1>8, <2>2, <2>3, <2>4, <2>5 DEF SignatureInv
<1>10. LockInv'
  BY <1>0, <1>1, <1>5, <1>6, <1>7 DEF LockInv
<1> QED
  BY <1>7, <1>9, <1>10 DEF WebInv

(* A call leaves the lock without touching the cache.                      *)
LEMMA LeaveKeepsInv ==
    ASSUME WebInv, NEW c \in WebCalls, NEW q, Put(c, q), q.pc # "fetch",
           WebCallInv(q, webTime, Len(issued), rejected), refresher' = refresher \ {c},
           UNCHANGED <<webTime, current, sigCache, issued, rejected>>
    PROVE  WebInv'
<1>0. webTime \in Nat /\ Len(issued) \in Nat /\ SignatureInv /\ LockInv
  BY WebFacts
<1>1. /\ DOMAIN web' = WebCalls /\ web'[c] = q
      /\ \A d \in WebCalls \ {c} : web'[d] = web[d]
      /\ \A d \in WebCalls : WebCallInv(web'[d], webTime', Len(issued'), rejected')
  BY <1>0, PutKeepsCalls
<1>2. SignatureInv'
  BY <1>0 DEF SignatureInv
<1>3. LockInv'
  BY <1>0, <1>1 DEF LockInv
<1> QED
  BY <1>1, <1>2, <1>3 DEF WebInv

LEMMA SignRefusedStep == ASSUME WebInv, NEW c \in WebCalls, SignRefused(c) PROVE WebInv'
<1> DEFINE e == [web[c] EXCEPT !.tries = 1]
<1>0. /\ webTime \in Nat /\ Len(issued) \in Nat /\ SignatureInv /\ LockInv
      /\ WebCallInv(web[c], webTime, Len(issued), rejected) /\ web[c] \in WebCall
      /\ web[c].at <= webTime /\ web[c].signature <= Len(issued)
  BY WebFacts
<1>1. web[c].pc = "fetch" /\ Pending(web[c], rejected)
  BY <1>0 DEF SignRefused, WebCallInv
<1>2. WebCallInv(e, webTime, Len(issued), rejected) /\ e.pc = "fetch"
  <2>1. e = [web[c] EXCEPT !.pc = "fetch", !.tries = 1]
    BY <1>0, <1>1 DEF WebCall
  <2>2. /\ WebCallInv([web[c] EXCEPT !.pc = "fetch", !.tries = 1],
                      webTime, Len(issued), rejected)
        /\ [web[c] EXCEPT !.pc = "fetch", !.tries = 1].pc = "fetch"
    BY <1>0, <1>1, QueueKeepsInv
  <2> QED
    BY <2>1, <2>2, Zenon
<1>3. Put(c, e) /\ UNCHANGED <<webTime, current, sigCache, refresher, issued, rejected>>
  BY DEF SignRefused
<1> HIDE DEF e
<1>4. /\ DOMAIN web' = WebCalls /\ web'[c] = e
      /\ \A d \in WebCalls \ {c} : web'[d] = web[d]
      /\ \A d \in WebCalls : WebCallInv(web'[d], webTime', Len(issued'), rejected')
  BY <1>0, <1>2, <1>3, PutKeepsCalls
<1>5. SignatureInv'
  BY <1>0, <1>3 DEF SignatureInv
<1>6. LockInv'
  BY <1>0, <1>1, <1>2, <1>3, <1>4 DEF LockInv
<1> QED
  BY <1>4, <1>5, <1>6 DEF WebInv

LEMMA SignFailedStep ==
    ASSUME WebInv, NEW c \in WebCalls,
           NEW code \in {"EgressUnavailable", "CredentialUnauthorized"}, SignFailed(c, code)
    PROVE  WebInv'
<1>0. /\ webTime \in Nat /\ Len(issued) \in Nat /\ SignatureInv /\ LockInv
      /\ WebCallInv(web[c], webTime, Len(issued), rejected) /\ web[c] \in WebCall
      /\ web[c].at <= webTime
  BY WebFacts
<1>1. web[c].pc = "fetch" /\ Pending(web[c], rejected) /\ refresher' = refresher \ {c}
  BY <1>0 DEF SignFailed, WebCallInv, LockInv
<1>2. UNCHANGED <<webTime, current, sigCache, issued, rejected>>
  BY DEF SignFailed
<1>3. CASE code = "CredentialUnauthorized"
  <2>1. Put(c, Done(web[c], code))
    BY <1>3 DEF SignFailed
  <2>2. Done(web[c], code) \in WebCall
    BY <1>0, <1>3 DEF Done, WebCall
  <2>3. /\ OncePerSend(web[c].answers)
        /\ web[c].attempt = 1 => Unblamed \in web[c].answers
        /\ Blamed \notin web[c].answers
    BY <1>0, <1>1 DEF WebCallInv, Verdict, Pending
  <2>4. /\ WebCallInv(Done(web[c], code), webTime, Len(issued), rejected)
        /\ Done(web[c], code).pc = "done"
    BY <1>0, <1>3, <2>2, <2>3, DoneKeepsInv
  <2> QED
    BY <1>1, <1>2, <2>1, <2>4, LeaveKeepsInv
<1>4. CASE code # "CredentialUnauthorized"
  <2>1. Put(c, Dispatched(web[c], 0))
    BY <1>4 DEF SignFailed
  <2>2. 0 \notin rejected /\ 0 \in 0 .. Len(issued)
    BY <1>0 DEF SignatureInv
  <2>3. /\ WebCallInv(Dispatched(web[c], 0), webTime, Len(issued), rejected)
        /\ Dispatched(web[c], 0).pc = "sent"
    BY <1>0, <1>1, <2>2, DispatchKeepsInv
  <2> QED
    BY <1>1, <1>2, <2>1, <2>3, LeaveKeepsInv
<1> QED
  BY <1>3, <1>4

LEMMA AbandonStep == ASSUME WebInv, NEW c \in WebCalls, Abandon(c) PROVE WebInv'
<1>0. /\ webTime \in Nat /\ Len(issued) \in Nat
      /\ WebCallInv(web[c], webTime, Len(issued), rejected) /\ web[c] \in WebCall
  BY WebFacts
<1>1. /\ Put(c, Done(web[c], "abandoned")) /\ refresher' = refresher \ {c}
      /\ UNCHANGED <<webTime, current, sigCache, issued, rejected>>
  BY DEF Abandon
<1>2. Done(web[c], "abandoned") \in WebCall
  BY <1>0 DEF Done, WebCall
<1>3. web[c].result = "none"
  BY <1>0 DEF WebCallInv, Pending, Abandon
<1>4. /\ OncePerSend(web[c].answers)
      /\ web[c].attempt = 1 => Unblamed \in web[c].answers
      /\ Blamed \notin web[c].answers
  BY <1>0, <1>3 DEF WebCallInv, Verdict
<1>5. /\ WebCallInv(Done(web[c], "abandoned"), webTime, Len(issued), rejected)
      /\ Done(web[c], "abandoned").pc = "done"
  BY <1>0, <1>2, <1>4, DoneKeepsInv
<1> QED
  BY <1>1, <1>5, LeaveKeepsInv

LEMMA HeardTypes ==
    ASSUME NEW q \in WebCall, NEW all, all \subseteq WebAnswers
    PROVE  /\ [q EXCEPT !.answers = all] \in WebCall
           /\ [q EXCEPT !.answers = all].answers = all
           /\ [q EXCEPT !.answers = all].attempt = q.attempt
           /\ [[q EXCEPT !.answers = all] EXCEPT !.pc = "refresh"] \in WebCall
BY DEF WebCall

(* The answer joins those the call has had.                                *)
LEMMA Recorded ==
    ASSUME NEW q \in WebCall, NEW d, Pending(q, d), NEW x \in WebAnswers, x[1] = q.attempt
    PROVE  /\ q.answers \cup {x} \subseteq WebAnswers
           /\ OncePerSend(q.answers \cup {x})
           /\ q.attempt = 1 => Unblamed \in q.answers \cup {x} /\ Blamed \notin q.answers \cup {x}
           /\ q.attempt = 0 => q.answers \cup {x} = {x}
<1>1. q.attempt \in {0, 1} /\ q.answers \subseteq WebAnswers
  BY DEF WebCall
<1>2. CASE q.attempt = 0
  <2>1. q.answers \cup {x} = {x}
    BY <1>2 DEF Pending
  <2>2. OncePerSend(q.answers \cup {x})
    BY <2>1 DEF OncePerSend
  <2> QED
    BY <1>1, <1>2, <2>1, <2>2
<1>3. CASE q.attempt = 1
  <2>1. q.answers = {Unblamed}
    BY <1>3 DEF Pending
  <2>2. Unblamed[1] = 0
    BY DEF Unblamed
  <2>4. OncePerSend(q.answers \cup {x})
    BY <1>3, <2>1, <2>2 DEF OncePerSend
  <2>5. Blamed[1] = 0 /\ Unblamed # Blamed
    BY DEF Blamed, Unblamed
  <2>6. x # Blamed
    BY <1>3, <2>5
  <2> QED
    BY <1>1, <1>3, <2>1, <2>4, <2>5, <2>6
<1> QED
  BY <1>1, <1>2, <1>3

(* A 403 that does not blame the account discredits the signature it was   *)
(* sent with, and the cache loses that one only.                           *)
LEMMA RejectedStep ==
    ASSUME WebInv, NEW c \in WebCalls, NEW answer \in Nat, NEW blocked \in BOOLEAN,
           Answer(c, answer, blocked), answer = 403, web[c].attempt = 0, ~blocked
    PROVE  WebInv'
<1> DEFINE x == <<web[c].attempt, answer, blocked>>
           all == web[c].answers \cup {x}
           e == [[web[c] EXCEPT !.answers = all] EXCEPT !.pc = "refresh"]
           s == web[c].signature
<1>0. /\ webTime \in Nat /\ Len(issued) \in Nat /\ SignatureInv /\ LockInv
      /\ WebCallInv(web[c], webTime, Len(issued), rejected) /\ web[c] \in WebCall
      /\ web[c].at <= webTime /\ web[c].signature <= Len(issued)
  BY WebFacts
<1>1. /\ web[c].pc = "sent" /\ Pending(web[c], rejected)
      /\ web[c].first = s /\ s \in Nat /\ web[c].result = "none"
  BY <1>0 DEF Answer, WebCallInv, Pending, WebCall
<1>2. /\ [web[c] EXCEPT !.answers = all].attempt = 0
      /\ [web[c] EXCEPT !.answers = all].signature = s
  BY <1>0 DEF WebCall
<1>3. /\ Put(c, e) /\ Invalidate(s) /\ rejected' = rejected \cup ({s} \ {0})
      /\ UNCHANGED <<webTime, refresher, issued>>
  BY <1>2 DEF Answer
<1>4. all = {Unblamed} /\ all \subseteq WebAnswers /\ OncePerSend(all)
  <2>1. x \in WebAnswers /\ x[1] = web[c].attempt
    BY DEF WebAnswers
  <2>2. blocked = FALSE
    OBVIOUS
  <2>3. x = Unblamed
    BY <2>2, Zenon DEF Unblamed
  <2> HIDE DEF x
  <2>4. all \subseteq WebAnswers /\ OncePerSend(all) /\ all = {x}
    BY <1>0, <1>1, <2>1, Recorded
  <2> QED
    BY <2>3, <2>4
<1>5. e \in WebCall
  <2> HIDE DEF all
  <2>1. web[c] \in WebCall /\ all \subseteq WebAnswers
    BY <1>0, <1>4
  <2> QED
    BY <2>1, HeardTypes, Zenon
<1>6. /\ e.pc = "refresh" /\ e.at = web[c].at /\ e.signature = s /\ e.attempt = 0
      /\ e.answers = all /\ e.result = "none" /\ e.first = s
  BY <1>0, <1>1 DEF WebCall
<1> HIDE DEF e, all
<1>7. WebCallInv(e, webTime, Len(issued), rejected')
  <2>1. Unblamed # Blamed
    BY DEF Unblamed, Blamed
  <2>2. Verdict(e)
    BY <1>4, <1>6, <2>1 DEF Verdict
  <2>3. s # 0 => s \in rejected'
    BY <1>3
  <2> QED
    BY <1>0, <1>4, <1>5, <1>6, <2>2, <2>3 DEF WebCallInv
<1>8. /\ DOMAIN web' = WebCalls /\ web'[c] = e
      /\ \A d \in WebCalls \ {c} : web'[d] = web[d]
      /\ \A d \in WebCalls : WebCallInv(web'[d], webTime', Len(issued'), rejected')
  <2>1. /\ webTime' \in Nat /\ webTime <= webTime' /\ Len(issued') \in Nat
        /\ Len(issued) <= Len(issued') /\ rejected \subseteq rejected'
    BY <1>0, <1>3
  <2>2. WebCallInv(e, webTime', Len(issued'), rejected')
    BY <1>3, <1>7
  <2>3. Put(c, e)
    BY <1>3
  <2> QED
    BY <2>1, <2>2, <2>3, PutKeepsCalls
<1>9. rejected' \subseteq DOMAIN issued'
  BY <1>0, <1>1, <1>3 DEF SignatureInv
<1>10. SignatureInv' /\ (DOMAIN sigCache = {} => DOMAIN sigCache' = {})
  <2>1. CASE s # 0 /\ current.signature = s
    <3>1. /\ current' = [environment |-> 0, signature |-> 0]
          /\ sigCache' = CacheWithout(current.environment)
      BY <1>3, <2>1 DEF Invalidate, NoSignature
    <3>2. DOMAIN sigCache' = {}
      BY <1>0, <3>1 DEF CacheWithout, SignatureInv
    <3>3. current'.signature = 0 /\ current'.environment = 0
      BY <3>1
    <3>4. 0 \notin rejected'
      BY <1>0, <1>3 DEF SignatureInv
    <3>5. \A i \in DOMAIN issued : i \in rejected' \/ issued[i] <= webTime
      BY <1>0, <1>3, <2>1 DEF SignatureInv
    <3> QED
      BY <1>0, <1>3, <1>9, <3>2, <3>3, <3>4, <3>5 DEF SignatureInv
  <2>2. CASE ~(s # 0 /\ current.signature = s)
    <3>1. UNCHANGED <<current, sigCache>>
      BY <1>3, <2>2 DEF Invalidate
    <3>2. current.signature \notin rejected'
      BY <1>0, <1>3, <2>2 DEF SignatureInv
    <3>3. \A i \in DOMAIN issued :
             \/ i \in rejected' \/ issued[i] <= webTime
             \/ i = current.signature /\ DOMAIN sigCache = {current.environment}
      BY <1>0, <1>3 DEF SignatureInv
    <3> QED
      BY <1>0, <1>3, <1>9, <3>1, <3>2, <3>3 DEF SignatureInv
  <2> QED
    BY <2>1, <2>2
<1>11. LockInv'
  BY <1>0, <1>1, <1>3, <1>6, <1>8, <1>10 DEF LockInv
<1> QED
  BY <1>8, <1>10, <1>11 DEF WebInv

Endings == {"events", "CredentialUnauthorized", "CredentialForbidden", "EgressRejected",
            "ProviderTransient"}

(* Any other answer ends the call.                                         *)
LEMMA HeardDone ==
    ASSUME NEW q \in WebCall, NEW t \in Nat, NEW n \in Nat, NEW d, Pending(q, d),
           NEW x \in WebAnswers, x[1] = q.attempt, NEW result \in Endings,
           result = "CredentialForbidden" <=> q.attempt = 0 /\ x = Blamed
    PROVE  /\ WebCallInv(Done([q EXCEPT !.answers = q.answers \cup {x}], result), t, n, d)
           /\ Done([q EXCEPT !.answers = q.answers \cup {x}], result).pc = "done"
<1> DEFINE all == q.answers \cup {x}
           e == [q EXCEPT !.answers = all]
<1>1. /\ all \subseteq WebAnswers /\ OncePerSend(all)
      /\ q.attempt = 1 => Unblamed \in all /\ Blamed \notin all
      /\ q.attempt = 0 => all = {x}
  BY Recorded
<1> HIDE DEF all
<1>2. e \in WebCall /\ e.answers = all /\ e.attempt = q.attempt
  BY <1>1, HeardTypes
<1>3. q.attempt \in {0, 1}
  BY DEF WebCall
<1>4. result = "CredentialForbidden" <=> Blamed \in e.answers
  BY <1>1, <1>2, <1>3
<1> HIDE DEF e
<1>5. Done(e, result) \in WebCall
  BY <1>2 DEF Done, WebCall, Endings
<1>6. WebCallInv(Done(e, result), t, n, d) /\ Done(e, result).pc = "done"
  BY <1>1, <1>2, <1>4, <1>5, DoneKeepsInv
<1> QED
  BY <1>6 DEF e, all

LEMMA AnsweredStep ==
    ASSUME WebInv, NEW c \in WebCalls, NEW answer \in {200, 401, 403, 500},
           NEW blocked \in BOOLEAN, Answer(c, answer, blocked), blocked => answer = 403,
           ~(answer = 403 /\ web[c].attempt = 0 /\ ~blocked)
    PROVE  WebInv'
<1> DEFINE x == <<web[c].attempt, answer, blocked>>
           q == [web[c] EXCEPT !.answers = web[c].answers \cup {x}]
           result == IF answer = 200 THEN "events"
                     ELSE ClassifyWeb(answer, web[c].attempt = 0)
<1>0. /\ webTime \in Nat /\ Len(issued) \in Nat /\ LockInv
      /\ WebCallInv(web[c], webTime, Len(issued), rejected) /\ web[c] \in WebCall
      /\ web[c].attempt \in {0, 1}
  BY WebFacts
<1>1. web[c].pc = "sent" /\ Pending(web[c], rejected)
  BY <1>0 DEF Answer, WebCallInv
<1>2. x \in WebAnswers /\ x[1] = web[c].attempt
  BY <1>0 DEF WebAnswers
<1>3. q.attempt = web[c].attempt
  BY <1>0 DEF WebCall
<1>4. /\ Put(c, Done(q, result))
      /\ UNCHANGED <<webTime, refresher, issued, current, sigCache, rejected>>
  BY <1>3 DEF Answer
<1>5. /\ result \in Endings
      /\ result = "CredentialForbidden" <=> answer = 403 /\ web[c].attempt = 0
  BY DEF ClassifyWeb, Endings
<1>6. result = "CredentialForbidden" <=> web[c].attempt = 0 /\ x = Blamed
  <2>1. web[c].attempt = 0 => (x = Blamed <=> answer = 403 /\ blocked)
    BY DEF Blamed
  <2> HIDE DEF x, result
  <2> QED
    BY <1>5, <2>1
<1> HIDE DEF x, result
<1>7. /\ WebCallInv(Done(q, result), webTime, Len(issued), rejected)
      /\ Done(q, result).pc = "done"
  BY <1>0, <1>1, <1>2, <1>5, <1>6, HeardDone
<1> HIDE DEF q
<1>8. refresher' = refresher \ {c}
  BY <1>0, <1>1, <1>4 DEF LockInv
<1> QED
  BY <1>4, <1>7, <1>8, LeaveKeepsInv

LEMMA WebTickStep == WebInv /\ WebTick => WebInv'
<1> SUFFICES ASSUME WebInv, WebTick PROVE WebInv'
  OBVIOUS
<1>0. SignatureInv /\ LockInv
  BY DEF WebInv
<1>a. webTime \in Nat /\ Len(issued) \in Nat
  BY <1>0 DEF SignatureInv
<1>1. /\ webTime' = webTime + 1
      /\ UNCHANGED <<web, current, sigCache, refresher, issued, rejected>>
  BY DEF WebTick
<1>2. ASSUME NEW d \in WebCalls PROVE WebCallInv(web[d], webTime', Len(issued), rejected)
  <2>1. WebCallInv(web[d], webTime, Len(issued), rejected)
    BY DEF WebInv
  <2> QED
    BY <1>a, <1>1, <2>1, WebCallKept
<1>3. SignatureInv'
  <2>1. \A i \in DOMAIN issued : issued[i] <= webTime => issued[i] <= webTime'
    BY <1>0, <1>a, <1>1 DEF SignatureInv
  <2>2. webTime' \in Nat
    BY <1>a, <1>1
  <2> QED
    BY <1>0, <1>1, <2>1, <2>2 DEF SignatureInv
<1>4. LockInv'
  BY <1>0, <1>1 DEF LockInv
<1> QED
  BY <1>1, <1>2, <1>3, <1>4 DEF WebInv

LEMMA WebInvStep == WebInv /\ [WebNext]_webVars => WebInv'
<1> SUFFICES ASSUME WebInv, [WebNext]_webVars PROVE WebInv'
  OBVIOUS
<1>1. ASSUME NEW c \in WebCalls, NEW answer \in {200, 401, 403, 500}, NEW blocked \in BOOLEAN,
             blocked => answer = 403, Answer(c, answer, blocked)
      PROVE  WebInv'
  <2>1. CASE answer = 403 /\ web[c].attempt = 0 /\ ~blocked
    <3>1. answer \in Nat
      OBVIOUS
    <3> QED
      BY <1>1, <2>1, <3>1, RejectedStep
  <2>2. CASE ~(answer = 403 /\ web[c].attempt = 0 /\ ~blocked)
    BY <1>1, <2>2, AnsweredStep
  <2> QED
    BY <2>1, <2>2
<1>2. CASE UNCHANGED webVars
  BY <1>2 DEF webVars, WebInv, SignatureInv, LockInv
<1> QED
  BY <1>1, <1>2, ExecuteStep, AcquireStep, SignRefusedStep, AbandonStep, SignedStep,
     SignFailedStep, WebTickStep DEF WebNext

LEMMA WebInvSound == WebInv => WebRetriesSound
<1> SUFFICES ASSUME WebInv PROVE WebRetriesSound
  OBVIOUS
<1>1. SignatureInv /\ LockInv
  BY DEF WebInv
<1>3. ASSUME NEW c \in WebCalls
      PROVE  /\ \A x \in web[c].answers : x[1] \in {0, 1}
             /\ \A x, y \in web[c].answers : x[1] = y[1] => x = y
             /\ web[c].attempt = 1 => <<0, 403, FALSE>> \in web[c].answers
             /\ web[c].result = "CredentialForbidden" <=> <<0, 403, TRUE>> \in web[c].answers
             /\ web[c].pc = "sent" /\ web[c].attempt = 1 /\ web[c].first # 0 =>
                   web[c].signature # web[c].first
  <2>1. WebCallInv(web[c], webTime, Len(issued), rejected)
    BY DEF WebInv
  <2>2. Verdict(web[c])
    BY <2>1 DEF WebCallInv
  <2>3. web[c].pc = "sent" /\ web[c].attempt = 1 /\ web[c].first # 0 =>
           web[c].signature # web[c].first
    BY <2>1 DEF WebCallInv
  <2>4. \A x \in web[c].answers : x[1] \in {0, 1}
    <3>1. web[c].answers \subseteq WebAnswers
      BY <2>1 DEF WebCallInv, WebCall
    <3>2. \A x \in WebAnswers : x[1] \in {0, 1}
      BY DEF WebAnswers
    <3> QED
      BY <3>1, <3>2
  <2> QED
    BY <2>2, <2>3, <2>4, Zenon DEF Verdict, OncePerSend, Unblamed, Blamed
<1> QED
  BY <1>1, <1>3 DEF WebRetriesSound, SignatureInv, LockInv

(* The Web half of ExchangesSound, for every set of requests and           *)
(* environments and every lifetime (web_statsig.rs, web_production.rs).    *)
THEOREM WebRetriesAreSound == WebSpec => []WebRetriesSound
<1>1. WebSpec => []WebInv
  BY WebInvInit, WebInvStep, PTL DEF WebSpec
<1> QED
  BY <1>1, WebInvSound, PTL
=============================================================================
