---------------------------- MODULE SessionsProofs ----------------------------
(* Proofs about Sessions. *)
EXTENDS Sessions, TLAPS

LEMMA SessionStarts == SessionInit => SessionInv
<1> SUFFICES ASSUME SessionInit PROVE SessionInv
  OBVIOUS
<1>1. 1..0 = {} /\ 0 \in 0..0 /\ lastToken = 0
  BY DEF SessionInit
<1>2. [k \in {} |-> k] \in [{} -> 0..MaxTime]
  OBVIOUS
<1>3. cookie \in [Browser -> [token : 0..lastToken, until : Nat]]
  BY <1>1 DEF SessionInit, NoCookie, NoToken
<1>4. Idle \in Request
  BY <1>1 DEF Idle, Request, Asks, NoToken
<1>5. request \in [Tab -> Request]
  BY <1>4 DEF SessionInit
<1>6. \A t \in Tab : request[t].at = "idle"
  BY DEF SessionInit, Idle
<1>7. /\ DOMAIN sessions = {} /\ issued \in [1..lastToken -> 0..MaxTime]
      /\ over = {}
  BY <1>1, <1>2 DEF SessionInit
<1>8. clock \in 0..MaxTime /\ restarts \in 0..MaxRestarts /\ lastToken \in 0..MaxToken
  BY SessionAssumption DEF SessionInit
<1> QED
  BY <1>1, <1>3, <1>5, <1>6, <1>7, <1>8 DEF SessionInv, SessionTypeOK

\* A step that writes nothing but the request of one tab.
LEMMA RequestStep ==
    ASSUME SessionInv, NEW t \in Tab, NEW r \in Request, Becomes(t, r),
           r.at = "passed" /\ r.ask # Login => r.token \in 1..lastToken,
           UNCHANGED <<clock, sessions, lastToken, cookie, restarts, ghost>>
    PROVE  SessionInv'
<1>1. request' \in [Tab -> Request]
  BY DEF SessionInv, SessionTypeOK, Becomes
<1>2. Request' = Request
  BY DEF Request
<1>3. SessionTypeOK'
  BY <1>1, <1>2 DEF SessionInv, SessionTypeOK, ghost
<1>4. \A u \in Tab :
         request'[u].at = "passed" /\ request'[u].ask # Login =>
             request'[u].token \in 1..lastToken
  <2> TAKE u \in Tab
  <2>1. request'[u] = IF u = t THEN r ELSE request[u]
    BY DEF Becomes, SessionInv, SessionTypeOK
  <2> QED
    BY <2>1 DEF SessionInv
<1> QED
  BY <1>3, <1>4 DEF SessionInv, ghost

\* What a browser carries is a token there has been, if any.
LEMMA CarriedToken ==
    ASSUME SessionInv, NEW b \in Browser
    PROVE  Carried(b) \in 0..lastToken
BY DEF SessionInv, SessionTypeOK, Carried, NoToken

LEMMA IdleRequest == ASSUME SessionInv PROVE Idle \in Request
BY DEF SessionInv, SessionTypeOK, Idle, Request, NoToken, Asks

LEMMA SendStep ==
    ASSUME SessionInv, NEW t \in Tab, NEW ask \in Asks, Send(t, ask)
    PROVE  SessionInv'
<1> DEFINE r == [at |-> "sent", ask |-> ask, token |-> Carried(Owner[t])]
<1>1. Owner[t] \in Browser
  BY SessionAssumption
<1>2. r \in Request
  BY <1>1, CarriedToken DEF Request
<1> QED
  BY <1>2, RequestStep DEF Send

LEMMA AdmitStep ==
    ASSUME SessionInv, NEW t \in Tab, Admit(t)
    PROVE  SessionInv'
<1>1. [request[t] EXCEPT !.at = "passed"] \in Request
  BY DEF SessionInv, SessionTypeOK, Request
<1>2. request[t].ask # Login => request[t].token \in 1..lastToken
  BY DEF Admit, IsAuthenticated, SessionInv
<1>3. /\ Becomes(t, [request[t] EXCEPT !.at = "passed"])
      /\ UNCHANGED <<clock, sessions, lastToken, cookie, restarts, ghost>>
  BY DEF Admit
<1>4. /\ [request[t] EXCEPT !.at = "passed"].ask = request[t].ask
      /\ [request[t] EXCEPT !.at = "passed"].token = request[t].token
  BY <1>1 DEF SessionInv, SessionTypeOK, Request
<1> QED
  BY <1>1, <1>2, <1>3, <1>4, RequestStep

LEMMA EndStep ==
    ASSUME SessionInv, NEW t \in Tab,
           Refuse(t) \/ LoginFails(t) \/ Serve(t) \/ Lose(t)
    PROVE  SessionInv'
<1>1. /\ Becomes(t, Idle)
      /\ UNCHANGED <<clock, sessions, lastToken, cookie, restarts, ghost>>
  BY DEF Refuse, LoginFails, Serve, Lose
<1> QED
  BY <1>1, IdleRequest, RequestStep DEF Idle

\* The new token is of nobody else, so its entry overwrites none.
LEMMA LoginStep ==
    ASSUME SessionInv, NEW t \in Tab, LoginSubmit(t)
    PROVE  SessionInv'
<1> DEFINE k == lastToken + 1
<1> USE DEF SessionInv, SessionTypeOK
<1>1. /\ lastToken \in Nat /\ MaxToken \in Nat /\ k \in 1..MaxToken
      /\ lastToken' = k /\ k \in 1..k /\ k \notin 1..lastToken
      /\ 1..lastToken \subseteq 1..k /\ 1..k = (1..lastToken) \cup {k}
      /\ 0..lastToken \subseteq 0..k
  BY SessionAssumption DEF LoginSubmit
<1>2. /\ sessions' = [j \in DOMAIN sessions \cup {k} |->
                        IF j = k THEN clock + Life ELSE sessions[j]]
      /\ issued' = [j \in 1..k |-> IF j = k THEN clock ELSE issued[j]]
      /\ UNCHANGED <<clock, cookie, restarts, over>>
  BY DEF LoginSubmit, CreateSession
<1>3. issued' \in [1..k -> 0..MaxTime]
  BY <1>1, <1>2
<1>4. [at |-> "answered", ask |-> Login, token |-> k] \in Request'
  BY <1>1 DEF Request, Asks
<1>5. Request \subseteq Request'
  BY <1>1 DEF Request
<1>6. request' \in [Tab -> Request']
  BY <1>4, <1>5 DEF LoginSubmit, Becomes
<1>7. cookie' \in [Browser -> [token : 0..k, until : Nat]]
  BY <1>1, <1>2
<1>8. DOMAIN sessions' = 1..k \ over
  BY <1>1, <1>2
<1>9. \A j \in DOMAIN sessions' :
         sessions'[j] = issued'[j] + Life /\ sessions'[j] \in Nat
  <2> SUFFICES ASSUME NEW j \in DOMAIN sessions'
               PROVE  sessions'[j] = issued'[j] + Life /\ sessions'[j] \in Nat
    OBVIOUS
  <2>1. CASE j = k
    BY <1>1, <1>2, <2>1, SessionAssumption
  <2>2. CASE j # k
    <3>1. j \in DOMAIN sessions /\ j \in 1..lastToken
      BY <1>1, <1>2, <2>2
    <3> QED
      BY <1>1, <1>2, <2>2, <3>1
  <2> QED
    BY <2>1, <2>2
<1>10. \A u \in Tab :
          request'[u].at = "passed" /\ request'[u].ask # Login =>
              request'[u].token \in 1..k
  BY <1>1 DEF LoginSubmit, Becomes
<1>11. over' \subseteq 1..k
  BY <1>1, <1>2
<1>12. lastToken' \in 0..MaxToken /\ lastToken' = k /\ over' = over
  BY <1>1, <1>2
<1>13. clock' \in 0..MaxTime /\ restarts' \in 0..MaxRestarts
  BY <1>2
<1>14. SessionTypeOK'
  BY ONLY <1>3, <1>6, <1>7, <1>8, <1>9, <1>11, <1>12, <1>13 DEF SessionTypeOK
<1> QED
  BY ONLY <1>14, <1>8, <1>9, <1>10, <1>12 DEF SessionInv

LEMMA LogoutStep ==
    ASSUME SessionInv, NEW t \in Tab, AuthLogout(t)
    PROVE  SessionInv'
<1> USE DEF SessionInv, SessionTypeOK
<1> DEFINE k == request[t].token
<1>1. k \in 1..lastToken
  BY DEF AuthLogout, Handling, Login, Logout
<1>2. /\ DOMAIN sessions' = DOMAIN sessions \ {k}
      /\ \A j \in DOMAIN sessions' : sessions'[j] = sessions[j]
      /\ over' = over \cup {k}
      /\ UNCHANGED <<clock, lastToken, cookie, restarts, issued>>
  BY DEF AuthLogout, DestroySession
<1>3. [at |-> "answered", ask |-> Logout, token |-> NoToken] \in Request
  BY DEF Request, Asks, NoToken
<1>4. request' \in [Tab -> Request]
  BY <1>3 DEF AuthLogout, Becomes
<1>6. Request' = Request
  BY <1>2 DEF Request
<1>5. \A u \in Tab :
          request'[u].at = "passed" /\ request'[u].ask # Login =>
              request'[u].token \in 1..lastToken
  BY DEF AuthLogout, Becomes
<1> QED
  BY <1>1, <1>2, <1>4, <1>5, <1>6

LEMMA ReceiveStep ==
    ASSUME SessionInv, NEW t \in Tab, Receive(t)
    PROVE  SessionInv'
<1> USE DEF SessionInv, SessionTypeOK
<1>1. cookie' \in [Browser -> [token : 0..lastToken, until : Nat]]
  <2>1. NoCookie \in [token : 0..lastToken, until : Nat]
    BY DEF NoCookie, NoToken
  <2>2. [token |-> request[t].token, until |-> clock + Life]
            \in [token : 0..lastToken, until : Nat]
    BY SessionAssumption DEF Request
  <2> QED
    BY <2>1, <2>2 DEF Receive
<1>2. request' \in [Tab -> Request]
  BY IdleRequest DEF Receive, Becomes
<1>3. UNCHANGED <<clock, sessions, lastToken, restarts, issued, over>>
  BY DEF Receive, ghost
<1>4. Request' = Request
  BY <1>3 DEF Request
<1>5. \A u \in Tab :
          request'[u].at = "passed" /\ request'[u].ask # Login =>
              request'[u].token \in 1..lastToken
  BY DEF Receive, Becomes, Idle
<1> QED
  BY <1>1, <1>2, <1>3, <1>4, <1>5

LEMMA TickStep == ASSUME SessionInv, Tick PROVE SessionInv'
<1>1. clock' \in 0..MaxTime
  BY SessionAssumption DEF SessionInv, SessionTypeOK, Tick
<1>2. UNCHANGED <<sessions, lastToken, cookie, request, restarts, issued, over>>
  BY DEF Tick, tabs, ghost
<1>3. Request' = Request
  BY <1>2 DEF Request
<1> QED
  BY <1>1, <1>2, <1>3 DEF SessionInv, SessionTypeOK

LEMMA RestartStep == ASSUME SessionInv, Restart PROVE SessionInv'
<1> USE DEF SessionInv, SessionTypeOK
<1>1. restarts' \in 0..MaxRestarts
  BY SessionAssumption DEF Restart
<1>2. UNCHANGED <<clock, lastToken, cookie, issued>>
  BY DEF Restart
<1>3. request' \in [Tab -> Request] /\ \A t \in Tab : request'[t].at = "idle"
  BY IdleRequest DEF Restart, Idle
<1>4. Request' = Request
  BY <1>2 DEF Request
<1>5. DOMAIN sessions' = {} /\ over' = 1..lastToken
  BY DEF Restart
<1> QED
  BY <1>1, <1>2, <1>3, <1>4, <1>5

LEMMA SessionStays ==
    ASSUME SessionInv, [SessionNext]_sessionVars
    PROVE  SessionInv'
<1>1. ASSUME NEW t \in Tab, NEW ask \in Asks, Send(t, ask) PROVE SessionInv'
  BY <1>1, SendStep
<1>2. ASSUME NEW t \in Tab,
             \/ Admit(t) \/ Refuse(t) \/ LoginSubmit(t) \/ LoginFails(t)
             \/ AuthLogout(t) \/ Receive(t) \/ Lose(t) \/ Serve(t)
      PROVE  SessionInv'
  BY <1>2, AdmitStep, EndStep, LoginStep, LogoutStep, ReceiveStep
<1>3. CASE Tick
  BY <1>3, TickStep
<1>4. CASE Restart
  BY <1>4, RestartStep
<1>5. CASE UNCHANGED sessionVars
  <2>1. UNCHANGED <<clock, sessions, lastToken, cookie, request, restarts,
                    issued, over>>
    BY <1>5 DEF sessionVars, tabs, ghost
  <2>2. Request' = Request
    BY <2>1 DEF Request
  <2> QED
    BY <2>1, <2>2 DEF SessionInv, SessionTypeOK
<1> QED
  BY <1>1, <1>2, <1>3, <1>4, <1>5 DEF SessionNext, Authentication, Asks

\* The map holds exactly the sessions that are not over, with the right expiry,
\* for any number of browsers, tabs and kinds of work.
THEOREM SessionsHold == SessionSpec => []SessionInv
<1> QED
  BY SessionStarts, SessionStays, PTL DEF SessionSpec

-----------------------------------------------------------------------------
(* What the middleware does *)

LEMMA OnlyAdmitAdmits ==
    ASSUME SessionInv, [SessionNext]_sessionVars, NEW t \in Tab, Admitted(t)
    PROVE  Admit(t)
<1> USE DEF SessionInv, SessionTypeOK, Becomes, Admitted
<1>1. ASSUME NEW u \in Tab, NEW ask \in Asks, Send(u, ask) PROVE FALSE
  BY <1>1 DEF Send
<1>2. ASSUME NEW u \in Tab, Admit(u) PROVE Admit(t)
  <2>1. u = t
    BY <1>2 DEF Admit
  <2> QED
    BY <1>2, <2>1
<1>3. ASSUME NEW u \in Tab,
             Refuse(u) \/ LoginFails(u) \/ Receive(u) \/ Lose(u) \/ Serve(u)
      PROVE  FALSE
  <2>1. request' = [request EXCEPT ![u] = Idle]
    BY <1>3 DEF Refuse, LoginFails, Receive, Lose, Serve
  <2> QED
    BY <2>1 DEF Idle
<1>4. ASSUME NEW u \in Tab, LoginSubmit(u) PROVE FALSE
  BY <1>4 DEF LoginSubmit
<1>5. ASSUME NEW u \in Tab, AuthLogout(u) PROVE FALSE
  BY <1>5 DEF AuthLogout
<1>6. ~Tick /\ ~Restart /\ ~UNCHANGED sessionVars
  BY DEF Tick, Restart, sessionVars, tabs, Idle
<1> QED
  BY <1>1, <1>2, <1>3, <1>4, <1>5, <1>6 DEF SessionNext, Authentication, Asks

LEMMA OnlyRefuseRefuses ==
    ASSUME SessionInv, [SessionNext]_sessionVars, restarts' = restarts,
           NEW t \in Tab, Refused(t)
    PROVE  Refuse(t)
<1> USE DEF SessionInv, SessionTypeOK, Becomes, Refused
<1>1. ASSUME NEW u \in Tab, NEW ask \in Asks, Send(u, ask) PROVE FALSE
  BY <1>1 DEF Send
<1>2. ASSUME NEW u \in Tab, Refuse(u) PROVE Refuse(t)
  <2>1. u = t
    BY <1>2 DEF Refuse
  <2> QED
    BY <1>2, <2>1
<1>3. ASSUME NEW u \in Tab,
             LoginFails(u) \/ Receive(u) \/ Lose(u) \/ Serve(u)
      PROVE  FALSE
  BY <1>3 DEF LoginFails, Handling, Receive, Lose, Serve
<1>4. ASSUME NEW u \in Tab, LoginSubmit(u) \/ AuthLogout(u) PROVE FALSE
  BY <1>4 DEF LoginSubmit, AuthLogout, Handling
<1>5. ASSUME NEW u \in Tab, Admit(u) PROVE FALSE
  BY <1>5 DEF Admit
<1>6. ~Tick /\ ~UNCHANGED sessionVars
  BY DEF Tick, sessionVars, tabs
<1>7. ~Restart
  BY SessionAssumption DEF Restart
<1> QED
  BY <1>1, <1>2, <1>3, <1>4, <1>5, <1>6, <1>7
  DEF SessionNext, Authentication, Asks

\* No request is handled for a login that is over: the cookie it carries may be
\* any the browser has ever been given.
THEOREM AdmissionInTime == SessionSpec => AdmittedInTime
<1>1. ASSUME SessionInv, [SessionNext]_sessionVars, NEW t \in Tab,
             Admitted(t), request[t].ask # Login
      PROVE  /\ request[t].token \in 1..lastToken \ over
             /\ ~Expired(request[t].token)
  <2>1. request[t].token \in DOMAIN sessions /\ clock < sessions[request[t].token]
    BY <1>1, OnlyAdmitAdmits DEF Admit, IsAuthenticated
  <2> QED
    BY <1>1, <2>1, SessionAssumption DEF SessionInv, SessionTypeOK, Expired
<1>2. ASSUME SessionInv, [SessionNext]_sessionVars
      PROVE  [\A t \in Tab : Admitted(t) /\ request[t].ask # Login =>
                /\ request[t].token \in 1..lastToken \ over
                /\ ~Expired(request[t].token)]_sessionVars
  BY <1>1, <1>2
<1> QED
  BY <1>2, SessionsHold, PTL DEF SessionSpec, AdmittedInTime

\* No login ends another one's session.
THEOREM RefusalInTime == SessionSpec => RefusedInTime
<1>1. ASSUME SessionInv, [SessionNext]_sessionVars, restarts' = restarts,
             NEW t \in Tab, Refused(t), request[t].token # NoToken
      PROVE  request[t].token \in over \/ Expired(request[t].token)
  <2>1. ~IsAuthenticated(request[t].token)
    BY <1>1, OnlyRefuseRefuses DEF Refuse
  <2>2. request[t].token \in 1..lastToken
    BY <1>1 DEF SessionInv, SessionTypeOK, Request, NoToken
  <2> QED
    BY <1>1, <2>1, <2>2, SessionAssumption
    DEF SessionInv, SessionTypeOK, Expired, IsAuthenticated
<1>2. ASSUME SessionInv, [SessionNext]_sessionVars
      PROVE  [restarts' = restarts =>
              \A t \in Tab : Refused(t) /\ request[t].token # NoToken =>
                 request[t].token \in over \/ Expired(request[t].token)]_sessionVars
  BY <1>1, <1>2
<1> QED
  BY <1>2, SessionsHold, PTL DEF SessionSpec, RefusedInTime
=============================================================================
