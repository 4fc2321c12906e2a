-------------------------- MODULE GrokConsoleProofs -------------------------
(***************************************************************************)
(* Grok Console requests that may share a session: for any number of       *)
(* requests, transports and token lifetimes, none is sent with a session   *)
(* that was refused, and none discards another's.  Together with the Web   *)
(* requests of GrokWebProofs.                                              *)
(***************************************************************************)
EXTENDS GrokWebProofs

Keys == ConsoleCalls \cup {"all"}
Session == [expires : Nat, key : Keys]

ConsoleResults ==
    {"none", "events", "abandoned", "EgressUnavailable", "CredentialUnauthorized",
     "EgressRejected", "CredentialQuotaExceeded", "ProviderTransient", "ProviderPermanent"}

ConsoleCall ==
    [pc : {"idle", "exchange", "sent", "done"}, at : Nat, session : Nat, sends : Nat,
     exchanges : Nat, first401 : BOOLEAN, result : ConsoleResults]

(* How often a call was sent and exchanged a session by the time it is at  *)
(* each point, and what it may still answer.                               *)
Counted(q) ==
    /\ q.sends <= 2 /\ q.exchanges <= 2
    /\ q.pc = "idle" => q.sends = 0 /\ q.exchanges = 0 /\ ~q.first401
    /\ q.pc = "exchange" =>
          /\ q.sends <= 1 /\ q.exchanges <= q.sends
          /\ q.sends = 0 => ~q.first401
    /\ q.pc = "sent" =>
          /\ q.sends \in {1, 2} /\ q.exchanges <= q.sends
          /\ q.sends = 1 => ~q.first401
    /\ q.pc # "done" => q.result = "none"
    /\ q.sends = 1 /\ q.first401 =>
          q.result \notin {"events", "EgressRejected", "ProviderTransient"}

(* The session a call was sent with was valid when the call began, and is  *)
(* one of its own transport.                                               *)
Bound(q, key, all) ==
    q.pc = "sent" =>
        /\ q.session \in DOMAIN all
        /\ all[q.session].expires > q.at + RefreshSkew
        /\ all[q.session].key = key

ConsoleCallInv(q, key, all) ==
    /\ q \in ConsoleCall
    /\ Counted(q)
    /\ Bound(q, key, all)

(* The newest session of every cache stays there until it is refused or    *)
(* runs out.                                                               *)
NewestKept ==
    \A s \in DOMAIN sessions :
        \/ \E later \in DOMAIN sessions :
               later > s /\ sessions[later].key = sessions[s].key
        \/ s \in refused
        \/ ~IsValidAt(s, consoleTime)
        \/ sessions[s].key \in DOMAIN dpop /\ dpop[sessions[s].key] = s

(* A cache holds an own session that nothing speaks against.               *)
CacheSound ==
    \A k \in DOMAIN dpop :
        /\ dpop[k] \in DOMAIN sessions
        /\ sessions[dpop[k]].key = k
        /\ dpop[k] \notin refused

ConsoleInv ==
    /\ shared \in BOOLEAN
    /\ consoleTime \in Nat
    /\ sessions \in Seq(Session)
    /\ refused \subseteq DOMAIN sessions
    /\ CacheSound
    /\ NewestKept
    /\ DOMAIN console = ConsoleCalls
    /\ \A c \in ConsoleCalls : ConsoleCallInv(console[c], CacheKey(c), sessions)

LEMMA ConsoleInvInit == ConsoleInit => ConsoleInv
<1> SUFFICES ASSUME ConsoleInit PROVE ConsoleInv
  OBVIOUS
<1>1. ASSUME NEW key PROVE ConsoleCallInv(NewConsoleCall, key, << >>)
  <2>1. NewConsoleCall \in ConsoleCall
    BY DEF NewConsoleCall, ConsoleCall, ConsoleResults
  <2>2. Counted(NewConsoleCall)
    BY DEF NewConsoleCall, Counted
  <2>3. Bound(NewConsoleCall, key, << >>)
    BY DEF NewConsoleCall, Bound
  <2> QED
    BY <2>1, <2>2, <2>3 DEF ConsoleCallInv
<1>2. CacheSound /\ NewestKept
  BY DEF ConsoleInit, CacheSound, NewestKept
<1> QED
  BY <1>1, <1>2 DEF ConsoleInit, ConsoleInv

(* What a call's step starts from.                                         *)
LEMMA ConsoleFacts ==
    ASSUME ConsoleInv, NEW c \in ConsoleCalls
    PROVE  /\ CacheSound /\ NewestKept /\ consoleTime \in Nat
           /\ sessions \in Seq(Session) /\ Len(sessions) \in Nat
           /\ DOMAIN sessions = 1 .. Len(sessions)
           /\ CacheKey(c) \in Keys
           /\ console[c] \in ConsoleCall /\ console[c].at \in Nat
           /\ console[c].sends \in Nat /\ console[c].exchanges \in Nat
           /\ Counted(console[c]) /\ Bound(console[c], CacheKey(c), sessions)
<1>1. /\ CacheSound /\ NewestKept /\ consoleTime \in Nat /\ sessions \in Seq(Session)
      /\ ConsoleCallInv(console[c], CacheKey(c), sessions)
  BY DEF ConsoleInv
<1>2. /\ console[c] \in ConsoleCall
      /\ Counted(console[c]) /\ Bound(console[c], CacheKey(c), sessions)
  BY <1>1 DEF ConsoleCallInv
<1>3. /\ console[c].at \in Nat /\ console[c].sends \in Nat /\ console[c].exchanges \in Nat
  BY <1>2 DEF ConsoleCall
<1>4. CacheKey(c) \in Keys
  BY DEF CacheKey, Keys
<1>5. Len(sessions) \in Nat /\ DOMAIN sessions = 1 .. Len(sessions)
  BY <1>1
<1> QED
  BY <1>1, <1>2, <1>3, <1>4, <1>5

(* Replacing one call leaves the invariants of the others alone.           *)
LEMMA PutCallKeeps ==
    ASSUME ConsoleInv, NEW c \in ConsoleCalls, NEW q, PutCall(c, q), UNCHANGED shared,
           ConsoleCallInv(q, CacheKey(c), sessions'), DOMAIN sessions \subseteq DOMAIN sessions',
           \A s \in DOMAIN sessions : sessions'[s] = sessions[s]
    PROVE  /\ DOMAIN console' = ConsoleCalls
           /\ \A d \in ConsoleCalls : ConsoleCallInv(console'[d], CacheKey(d)', sessions')
<1>1. /\ DOMAIN console' = ConsoleCalls /\ console'[c] = q
      /\ \A d \in ConsoleCalls \ {c} : console'[d] = console[d]
  BY DEF PutCall, ConsoleInv
<1>2. \A d \in ConsoleCalls : CacheKey(d)' = CacheKey(d)
  BY DEF CacheKey
<1>3. ASSUME NEW d \in ConsoleCalls \ {c}
      PROVE  ConsoleCallInv(console[d], CacheKey(d), sessions')
  <2>1. /\ console[d] \in ConsoleCall /\ Counted(console[d])
        /\ Bound(console[d], CacheKey(d), sessions)
    BY ConsoleFacts
  <2>2. Bound(console[d], CacheKey(d), sessions')
    BY <2>1 DEF Bound
  <2> QED
    BY <2>1, <2>2 DEF ConsoleCallInv
<1> QED
  BY <1>1, <1>2, <1>3

-----------------------------------------------------------------------------
LEMMA SentTypes ==
    ASSUME NEW q \in ConsoleCall, NEW s \in Nat
    PROVE  /\ Sent(q, s) \in ConsoleCall
           /\ Sent(q, s).pc = "sent" /\ Sent(q, s).session = s /\ Sent(q, s).at = q.at
           /\ Sent(q, s).sends = q.sends + 1 /\ Sent(q, s).exchanges = q.exchanges
           /\ Sent(q, s).first401 = q.first401 /\ Sent(q, s).result = q.result
<1>1. ASSUME NEW k \in Nat
      PROVE  [q EXCEPT !.pc = "sent", !.session = s, !.sends = k] \in ConsoleCall
  BY DEF ConsoleCall
<1>2. q.sends + 1 \in Nat
  BY DEF ConsoleCall
<1>3. Sent(q, s) \in ConsoleCall
  BY <1>1, <1>2, Zenon DEF Sent
<1> QED
  BY <1>3 DEF Sent, ConsoleCall

(* The end of a call.                                                      *)
LEMMA FinishKeeps ==
    ASSUME NEW q \in ConsoleCall, NEW key, NEW all, NEW result \in ConsoleResults, Counted(q),
           q.sends = 1 /\ q.first401 =>
               result \notin {"events", "EgressRejected", "ProviderTransient"}
    PROVE  ConsoleCallInv([q EXCEPT !.pc = "done", !.at = 0, !.result = result], key, all)
<1> DEFINE e == [q EXCEPT !.pc = "done", !.at = 0, !.result = result]
<1>1. e \in ConsoleCall
  BY DEF ConsoleCall
<1>2. /\ e.pc = "done" /\ e.sends = q.sends /\ e.exchanges = q.exchanges
      /\ e.first401 = q.first401 /\ e.result = result
  BY DEF ConsoleCall
<1> HIDE DEF e
<1>3. Counted(e)
  BY <1>2 DEF Counted
<1>4. Bound(e, key, all)
  BY <1>2 DEF Bound
<1>5. ConsoleCallInv(e, key, all)
  BY <1>1, <1>3, <1>4 DEF ConsoleCallInv
<1> QED
  BY <1>5 DEF e

(* A step that ends a call and leaves every session alone.                 *)
LEMMA FinishStep ==
    ASSUME ConsoleInv, NEW c \in ConsoleCalls, NEW result \in ConsoleResults,
           Finish(c, result), UNCHANGED <<shared, consoleTime, dpop, sessions, refused>>,
           console[c].sends = 1 /\ console[c].first401 =>
               result \notin {"events", "EgressRejected", "ProviderTransient"}
    PROVE  ConsoleInv'
<1> DEFINE e == [console[c] EXCEPT !.pc = "done", !.at = 0, !.result = result]
<1>1. ConsoleCallInv(e, CacheKey(c), sessions)
  BY ConsoleFacts, FinishKeeps
<1>2. PutCall(c, e)
  BY DEF Finish
<1> HIDE DEF e
<1>3. /\ DOMAIN console' = ConsoleCalls
      /\ \A d \in ConsoleCalls : ConsoleCallInv(console'[d], CacheKey(d)', sessions')
  BY <1>1, <1>2, PutCallKeeps
<1>4. CacheSound' /\ NewestKept'
  BY DEF ConsoleInv, CacheSound, NewestKept, IsValidAt
<1> QED
  BY <1>3, <1>4 DEF ConsoleInv

LEMMA BeginConsoleStep ==
    ASSUME ConsoleInv, NEW c \in ConsoleCalls, BeginConsole(c) PROVE ConsoleInv'
<1> DEFINE key == CacheKey(c)
           q == [console[c] EXCEPT !.at = consoleTime]
           hit == key \in DOMAIN dpop /\ IsValidAt(dpop[key], consoleTime)
<1>0. /\ CacheSound /\ NewestKept /\ consoleTime \in Nat
      /\ sessions \in Seq(Session) /\ Len(sessions) \in Nat
      /\ DOMAIN sessions = 1 .. Len(sessions)
      /\ console[c] \in ConsoleCall /\ Counted(console[c])
  BY ConsoleFacts
<1>1. /\ console[c].pc = "idle"
      /\ UNCHANGED <<shared, consoleTime, sessions, refused>>
      /\ hit => PutCall(c, Sent(q, dpop[key])) /\ dpop' = dpop
      /\ ~hit => PutCall(c, [q EXCEPT !.pc = "exchange"]) /\ dpop' = Forget(key)
  BY DEF BeginConsole
<1>2. q \in ConsoleCall
  BY <1>0 DEF ConsoleCall
<1>3. /\ q.at = consoleTime /\ q.sends = 0 /\ q.exchanges = 0 /\ ~q.first401
      /\ q.result = "none"
  BY <1>0, <1>1 DEF ConsoleCall, Counted
<1> HIDE DEF q
<1>4. CASE hit
  <2> DEFINE e == Sent(q, dpop[key])
  <2>1. dpop[key] \in Nat /\ dpop[key] \in DOMAIN sessions /\ sessions[dpop[key]].key = key
    BY <1>0, <1>4 DEF CacheSound
  <2>2. /\ e \in ConsoleCall /\ e.pc = "sent" /\ e.session = dpop[key] /\ e.at = consoleTime
        /\ e.sends = 1 /\ e.exchanges = 0 /\ ~e.first401 /\ e.result = "none"
    BY <1>2, <1>3, <2>1, SentTypes
  <2>3. PutCall(c, e) /\ dpop' = dpop
    BY <1>1, <1>4
  <2> HIDE DEF e
  <2>4. Counted(e)
    BY <2>2 DEF Counted
  <2>5. Bound(e, key, sessions)
    BY <1>4, <2>1, <2>2 DEF Bound, IsValidAt
  <2>6. ConsoleCallInv(e, key, sessions)
    BY <2>2, <2>4, <2>5 DEF ConsoleCallInv
  <2>7. /\ DOMAIN console' = ConsoleCalls
        /\ \A d \in ConsoleCalls : ConsoleCallInv(console'[d], CacheKey(d)', sessions')
    BY <1>1, <2>3, <2>6, PutCallKeeps
  <2>8. CacheSound' /\ NewestKept'
    BY <1>0, <1>1, <2>3 DEF CacheSound, NewestKept, IsValidAt
  <2> QED
    BY <1>1, <2>7, <2>8 DEF ConsoleInv
<1>5. CASE ~hit
  <2> DEFINE e == [q EXCEPT !.pc = "exchange"]
  <2>1. e \in ConsoleCall
    BY <1>2 DEF ConsoleCall
  <2>2. /\ e.pc = "exchange" /\ e.sends = 0 /\ e.exchanges = 0 /\ ~e.first401
        /\ e.result = "none"
    BY <1>2, <1>3 DEF ConsoleCall
  <2>3. PutCall(c, e) /\ dpop' = Forget(key)
    BY <1>1, <1>5
  <2> HIDE DEF e
  <2>4. Counted(e) /\ Bound(e, key, sessions)
    BY <2>2 DEF Counted, Bound
  <2>5. ConsoleCallInv(e, key, sessions)
    BY <2>1, <2>4 DEF ConsoleCallInv
  <2>6. /\ DOMAIN console' = ConsoleCalls
        /\ \A d \in ConsoleCalls : ConsoleCallInv(console'[d], CacheKey(d)', sessions')
    BY <1>1, <2>3, <2>5, PutCallKeeps
  <2>7. DOMAIN dpop' = DOMAIN dpop \ {key} /\ \A k \in DOMAIN dpop' : dpop'[k] = dpop[k]
    BY <2>3 DEF Forget
  <2> HIDE DEF key
  <2>8. CacheSound'
    BY <1>0, <1>1, <2>7 DEF CacheSound
  <2>9. NewestKept'
    BY <1>0, <1>1, <1>5, <2>7 DEF NewestKept, IsValidAt
  <2> QED
    BY <1>1, <2>6, <2>8, <2>9 DEF ConsoleInv
<1> QED
  BY <1>4, <1>5

(* A fresh session takes its cache's place.                                *)
LEMMA ExchangedStep ==
    ASSUME ConsoleInv, NEW c \in ConsoleCalls, NEW lifetime \in Lifetimes,
           Exchanged(c, lifetime)
    PROVE  ConsoleInv'
<1> DEFINE key == CacheKey(c)
           s == Len(sessions) + 1
           expires == console[c].at + lifetime
           new == [expires |-> expires, key |-> key]
           q == Sent(console[c], s)
<1>0. /\ CacheSound /\ NewestKept /\ consoleTime \in Nat
      /\ sessions \in Seq(Session) /\ Len(sessions) \in Nat
      /\ DOMAIN sessions = 1 .. Len(sessions) /\ key \in Keys
      /\ console[c] \in ConsoleCall /\ Counted(console[c]) /\ console[c].at \in Nat
      /\ console[c].sends \in Nat /\ console[c].exchanges \in Nat
      /\ refused \subseteq DOMAIN sessions
  BY ConsoleFacts DEF ConsoleInv
<1>1. console[c].pc = "exchange" /\ UNCHANGED <<shared, consoleTime, refused>>
  BY DEF Exchanged
<1>2. CASE ~FromTokenResponse(lifetime)
  <2>1. Finish(c, "EgressUnavailable") /\ UNCHANGED <<dpop, sessions>>
    BY <1>2 DEF Exchanged
  <2>2. "EgressUnavailable" \in ConsoleResults
    BY DEF ConsoleResults
  <2> QED
    BY <1>1, <2>1, <2>2, FinishStep
<1>3. CASE FromTokenResponse(lifetime)
  <2> DEFINE k == console[c].exchanges + 1
             e == [q EXCEPT !.exchanges = k]
  <2>1. /\ sessions' = Append(sessions, new) /\ PutCall(c, e)
        /\ dpop' = [j \in DOMAIN dpop \cup {key} |-> IF j = key THEN s ELSE dpop[j]]
    BY <1>3 DEF Exchanged
  <2>2. lifetime \in Nat /\ lifetime > RefreshSkew /\ RefreshSkew \in Nat
    BY <1>3, ConsoleConstants DEF FromTokenResponse
  <2>3. expires \in Nat /\ expires > console[c].at + RefreshSkew /\ s \in Nat /\ k \in Nat
    BY <1>0, <2>2
  <2>4. new \in Session /\ new.expires = expires /\ new.key = key
    BY <1>0, <2>3 DEF Session
  <2>5. /\ q \in ConsoleCall /\ q.pc = "sent" /\ q.session = s /\ q.at = console[c].at
        /\ q.sends = console[c].sends + 1 /\ q.first401 = console[c].first401
        /\ q.result = console[c].result
    BY <1>0, <2>3, SentTypes
  <2> HIDE DEF q, k, new, key, expires
  <2>6. e \in ConsoleCall
    BY <2>3, <2>5 DEF ConsoleCall
  <2>7. /\ e.pc = "sent" /\ e.session = s /\ e.at = console[c].at /\ e.result = "none"
        /\ e.sends = console[c].sends + 1 /\ e.exchanges = k
        /\ e.first401 = console[c].first401
    BY <1>0, <1>1, <2>5 DEF ConsoleCall, Counted
  <2>8. /\ sessions' \in Seq(Session) /\ Len(sessions') = s /\ DOMAIN sessions' = 1 .. s
        /\ sessions'[s] = new /\ \A i \in 1 .. Len(sessions) : sessions'[i] = sessions[i]
    BY <1>0, <2>1, <2>4
  <2> HIDE DEF e
  <2>9. Counted(e)
    <3>1. /\ console[c].sends \in {0, 1} /\ console[c].exchanges <= console[c].sends
          /\ console[c].sends = 0 => ~console[c].first401
      BY <1>0, <1>1 DEF Counted
    <3>2. /\ e.sends \in {1, 2} /\ e.exchanges <= e.sends
          /\ e.sends = 1 => ~e.first401
      BY <1>0, <2>7, <3>1 DEF k
    <3> QED
      BY <2>3, <2>7, <3>2 DEF Counted
  <2>10. Bound(e, key, sessions')
    BY <1>0, <2>3, <2>4, <2>7, <2>8 DEF Bound
  <2>11. ConsoleCallInv(e, key, sessions')
    BY <2>6, <2>9, <2>10 DEF ConsoleCallInv
  <2>12. /\ DOMAIN console' = ConsoleCalls
         /\ \A d \in ConsoleCalls : ConsoleCallInv(console'[d], CacheKey(d)', sessions')
    BY <1>0, <1>1, <2>1, <2>8, <2>11, PutCallKeeps DEF key
  <2>13. CacheSound'
    <3>1. /\ DOMAIN dpop' = DOMAIN dpop \cup {key} /\ dpop'[key] = s
          /\ \A j \in DOMAIN dpop \ {key} : dpop'[j] = dpop[j]
      BY <2>1
    <3>2. s \in DOMAIN sessions' /\ sessions'[s].key = key /\ s \notin refused
      BY <1>0, <2>4, <2>8
    <3>3. \A i \in DOMAIN sessions : i \in DOMAIN sessions' /\ sessions'[i] = sessions[i]
      BY <1>0, <2>8
    <3> QED
      BY <1>0, <1>1, <3>1, <3>2, <3>3 DEF CacheSound
  <2>14. NewestKept'
    <3> SUFFICES ASSUME NEW i \in DOMAIN sessions'
                 PROVE  \/ \E later \in DOMAIN sessions' :
                               later > i /\ sessions'[later].key = sessions'[i].key
                        \/ i \in refused'
                        \/ ~IsValidAt(i, consoleTime)'
                        \/ sessions'[i].key \in DOMAIN dpop' /\ dpop'[sessions'[i].key] = i
      BY DEF NewestKept
    <3>1. CASE i = s
      BY <2>1, <2>4, <2>8, <3>1
    <3>2. CASE i # s /\ sessions[i].key = key
      <4>1. i \in 1 .. Len(sessions) /\ s > i /\ s \in DOMAIN sessions'
        BY <1>0, <2>8, <3>2
      <4> QED
        BY <2>4, <2>8, <3>2, <4>1
    <3>3. CASE i # s /\ sessions[i].key # key
      <4>1. i \in DOMAIN sessions /\ sessions'[i] = sessions[i]
        BY <1>0, <2>8, <3>3
      <4>2. DOMAIN sessions \subseteq DOMAIN sessions'
        BY <1>0, <2>8
      <4>3. IsValidAt(i, consoleTime)' <=> IsValidAt(i, consoleTime)
        BY <1>1, <4>1 DEF IsValidAt
      <4>4. CASE \E later \in DOMAIN sessions :
                    later > i /\ sessions[later].key = sessions[i].key
        BY <1>0, <2>8, <4>1, <4>2, <4>4
      <4>5. CASE i \in refused \/ ~IsValidAt(i, consoleTime)
        BY <1>1, <4>3, <4>5
      <4>6. CASE sessions[i].key \in DOMAIN dpop /\ dpop[sessions[i].key] = i
        BY <2>1, <3>3, <4>1, <4>6
      <4> QED
        BY <1>0, <4>1, <4>4, <4>5, <4>6 DEF NewestKept
    <3> QED
      BY <3>1, <3>2, <3>3
  <2>15. refused' \subseteq DOMAIN sessions'
    BY <1>0, <1>1, <2>8
  <2> QED
    BY <1>1, <2>8, <2>12, <2>13, <2>14, <2>15 DEF ConsoleInv
<1> QED
  BY <1>2, <1>3

LEMMA ResultTypes ==
    /\ \A status \in {200, 401, 403, 503} : ConsoleResult(status) \in ConsoleResults
    /\ ConsoleResult(401) = "CredentialUnauthorized"
BY DEF ConsoleResult, ConsoleFailure, ClassifyConsole, ConsoleResults

LEMMA ExchangeRefusedStep ==
    ASSUME ConsoleInv, NEW c \in ConsoleCalls, NEW status \in {401, 403, 503},
           ExchangeRefused(c, status)
    PROVE  ConsoleInv'
<1> DEFINE result == ConsoleResult(IF console[c].sends = 0 THEN status ELSE 401)
<1>1. result \in ConsoleResults
  BY ResultTypes
<1>2. console[c].sends = 1 => result = "CredentialUnauthorized"
  BY ResultTypes
<1>3. /\ Finish(c, result)
      /\ UNCHANGED <<shared, consoleTime, dpop, sessions, refused>>
  BY DEF ExchangeRefused
<1> HIDE DEF result
<1> QED
  BY <1>1, <1>2, <1>3, FinishStep

LEMMA ConsoleAbandonStep ==
    ASSUME ConsoleInv, NEW c \in ConsoleCalls, ConsoleAbandon(c) PROVE ConsoleInv'
<1>1. "abandoned" \in ConsoleResults
  BY DEF ConsoleResults
<1> QED
  BY <1>1, FinishStep DEF ConsoleAbandon

(* A first 401 discredits the session it was sent with and no other.       *)
LEMMA UnauthorizedStep ==
    ASSUME ConsoleInv, NEW c \in ConsoleCalls, ConsoleAnswer(c, 401), console[c].sends = 1
    PROVE  ConsoleInv'
<1> DEFINE key == CacheKey(c)
           own == console[c].session
           e == [console[c] EXCEPT !.pc = "exchange", !.first401 = TRUE]
<1>0. /\ CacheSound /\ NewestKept /\ consoleTime \in Nat
      /\ sessions \in Seq(Session)
      /\ console[c] \in ConsoleCall /\ Counted(console[c]) /\ Bound(console[c], key, sessions)
      /\ refused \subseteq DOMAIN sessions
  BY ConsoleFacts DEF ConsoleInv
<1>1. /\ console[c].pc = "sent" /\ PutCall(c, e) /\ InvalidateSession(key, own)
      /\ refused' = refused \cup {own} /\ UNCHANGED <<shared, consoleTime, sessions>>
  BY DEF ConsoleAnswer
<1>2. own \in DOMAIN sessions /\ sessions[own].key = key
  BY <1>0, <1>1 DEF Bound
<1>3. e \in ConsoleCall
  BY <1>0 DEF ConsoleCall
<1>4. /\ e.pc = "exchange" /\ e.sends = 1 /\ e.exchanges <= 1 /\ e.result = "none"
  BY <1>0, <1>1 DEF ConsoleCall, Counted
<1> HIDE DEF e
<1>5. Counted(e) /\ Bound(e, key, sessions)
  BY <1>3, <1>4 DEF Counted, Bound, ConsoleCall
<1>6. ConsoleCallInv(e, key, sessions)
  BY <1>3, <1>5 DEF ConsoleCallInv
<1>7. /\ DOMAIN console' = ConsoleCalls
      /\ \A d \in ConsoleCalls : ConsoleCallInv(console'[d], CacheKey(d)', sessions')
  BY <1>1, <1>6, PutCallKeeps
<1> HIDE DEF key, own
<1>8. /\ DOMAIN dpop' \subseteq DOMAIN dpop
      /\ \A k \in DOMAIN dpop' : dpop'[k] = dpop[k]
      /\ \A k \in DOMAIN dpop : k \in DOMAIN dpop' <=> dpop[k] # own
  <2>1. \A k \in DOMAIN dpop : dpop[k] = own => k = key
    BY <1>0, <1>2 DEF CacheSound
  <2> QED
    BY <1>1, <2>1 DEF InvalidateSession, Forget
<1>9. CacheSound'
  BY <1>0, <1>1, <1>8 DEF CacheSound
<1>10. NewestKept'
  BY <1>0, <1>1, <1>8 DEF NewestKept, IsValidAt
<1>11. refused' \subseteq DOMAIN sessions'
  BY <1>0, <1>1, <1>2
<1> QED
  BY <1>1, <1>7, <1>9, <1>10, <1>11 DEF ConsoleInv

LEMMA ConsoleAnswerStep ==
    ASSUME ConsoleInv, NEW c \in ConsoleCalls, NEW status \in {200, 401, 403, 503},
           ConsoleAnswer(c, status)
    PROVE  ConsoleInv'
<1>1. CASE status = 401 /\ console[c].sends = 1
  BY <1>1, UnauthorizedStep
<1>2. CASE ~(status = 401 /\ console[c].sends = 1)
  <2> DEFINE result == ConsoleResult(status)
  <2>1. /\ Finish(c, result) /\ console[c].pc = "sent"
        /\ UNCHANGED <<shared, consoleTime, dpop, sessions, refused>>
    BY <1>2 DEF ConsoleAnswer
  <2>2. console[c].sends = 1 => ~console[c].first401
    BY <2>1, ConsoleFacts DEF Counted
  <2>3. result \in ConsoleResults
    BY ResultTypes
  <2> HIDE DEF result
  <2> QED
    BY <2>1, <2>2, <2>3, FinishStep
<1> QED
  BY <1>1, <1>2

LEMMA ConsoleInvStep == ConsoleInv /\ [ConsoleNext]_consoleVars => ConsoleInv'
<1> SUFFICES ASSUME ConsoleInv, [ConsoleNext]_consoleVars PROVE ConsoleInv'
  OBVIOUS
<1>1. CASE ConsoleTick
  <2>1. /\ consoleTime' = consoleTime + 1 /\ consoleTime \in Nat
        /\ UNCHANGED <<shared, console, dpop, sessions, refused>>
    BY <1>1 DEF ConsoleTick, ConsoleInv
  <2>2. \A s \in DOMAIN sessions : sessions[s].expires \in Nat
    <3>1. \A s \in DOMAIN sessions : sessions[s] \in Session
      BY DEF ConsoleInv
    <3> QED
      BY <3>1 DEF Session
  <2>3. \A s \in DOMAIN sessions : IsValidAt(s, consoleTime)' => IsValidAt(s, consoleTime)
    BY <2>1, <2>2, ConsoleConstants DEF IsValidAt
  <2>4. CacheSound'
    BY <2>1 DEF ConsoleInv, CacheSound
  <2>5. NewestKept'
    BY <2>1, <2>3 DEF ConsoleInv, NewestKept
  <2>6. \A d \in ConsoleCalls : CacheKey(d)' = CacheKey(d)
    BY <2>1 DEF CacheKey
  <2> QED
    BY <2>1, <2>4, <2>5, <2>6 DEF ConsoleInv
<1>2. CASE UNCHANGED consoleVars
  BY <1>2 DEF consoleVars, ConsoleInv, CacheSound, NewestKept, IsValidAt, CacheKey
<1> QED
  BY <1>1, <1>2, BeginConsoleStep, ConsoleAbandonStep, ExchangedStep, ExchangeRefusedStep,
     ConsoleAnswerStep DEF ConsoleNext

LEMMA ConsoleInvSound == ConsoleInv => ConsoleSessionsSound
<1> SUFFICES ASSUME ConsoleInv PROVE ConsoleSessionsSound
  OBVIOUS
<1>1. ASSUME NEW c \in ConsoleCalls
      PROVE  /\ console[c].sends <= 2 /\ console[c].exchanges <= 2
             /\ console[c].pc = "sent" =>
                    /\ IsValidAt(console[c].session, console[c].at)
                    /\ sessions[console[c].session].key = CacheKey(c)
             /\ console[c].sends = 1 /\ console[c].first401 =>
                    console[c].result \notin {"events", "EgressRejected", "ProviderTransient"}
  <2>1. Counted(console[c]) /\ Bound(console[c], CacheKey(c), sessions)
    BY ConsoleFacts
  <2>2. console[c].pc = "sent" =>
           /\ IsValidAt(console[c].session, console[c].at)
           /\ sessions[console[c].session].key = CacheKey(c)
    BY <2>1 DEF Bound, IsValidAt
  <2> QED
    BY <2>1, <2>2 DEF Counted
<1>2. CacheSound /\ NewestKept
  BY DEF ConsoleInv
<1> QED
  BY <1>1, <1>2 DEF ConsoleSessionsSound, CacheSound, NewestKept

(* The requests of Grok Web that share a Statsig runtime, and those of     *)
(* Grok Console that share a transport, never undo each other's renewed    *)
(* signature or session, never reuse a rejected one and are sent at most   *)
(* twice, whatever the number of requests, environments, lifetimes and     *)
(* clocks (web_statsig.rs, console_responses.rs).                          *)
THEOREM ExchangesAreSound == WebSpec /\ ConsoleSpec => []ExchangesSound
<1>2. ConsoleSpec => []ConsoleInv
  BY ConsoleInvInit, ConsoleInvStep, PTL DEF ConsoleSpec
<1>3. WebRetriesSound /\ ConsoleInv => ExchangesSound
  BY ConsoleInvSound DEF ExchangesSound
<1> QED
  BY <1>2, <1>3, WebRetriesAreSound, PTL
=============================================================================
