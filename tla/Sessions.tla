------------------------------ MODULE Sessions ------------------------------
(***************************************************************************)
(* web/auth.go: logging in and out with a cookie, the sessions in the      *)
(* memory of the process, and the middleware in front of every handler.    *)
(*                                                                         *)
(* A browser has one cookie for all its tabs, and every tab may have a     *)
(* request under way.  A request carries the cookie of the moment it is    *)
(* sent; it is checked once, handled after that, and its answer may arrive *)
(* after those of later requests, or never.  The tokens are random and 32  *)
(* bytes long: no two are the same.                                        *)
(***************************************************************************)
EXTENDS Naturals

CONSTANTS
    Browser, Tab,
    Owner,      \* Owner[t]: the browser of tab t
    Work,       \* what else than logging in and out a request may ask for
    Life,       \* sessionMaxAge, seven days
    MaxToken,   \* bound: tokens ever created
    MaxTime,    \* bound on the clock
    MaxRestarts \* bound: restarts of the process

Login  == [op |-> "login", id |-> 0]
Logout == [op |-> "logout", id |-> 0]
Asks   == Work \cup {Login, Logout}

ASSUME SessionAssumption ==
    /\ Owner \in [Tab -> Browser]
    /\ Login \notin Work /\ Logout \notin Work
    /\ Life \in Nat \ {0}
    /\ MaxToken \in Nat /\ MaxTime \in Nat /\ MaxRestarts \in Nat

VARIABLES
    clock,
    sessions,   \* the map of auth.go: token -> expiry
    lastToken,  \* the tokens created so far are 1..lastToken
    cookie,     \* what each browser has been told, and until when to keep it
    request,    \* the request each tab has under way
    restarts,
    issued,     \* (ghost) when each token was created
    over        \* (ghost) tokens logged out of, or forgotten by a restart

tabs  == <<cookie, request>>
ghost == <<issued, over>>
sessionVars == <<clock, sessions, lastToken, tabs, restarts, ghost>>

NoToken  == 0
NoCookie == [token |-> NoToken, until |-> 0]
Idle     == [at |-> "idle", ask |-> Login, token |-> NoToken]

\* A request is sent, has passed the middleware, or is answered: then its token
\* is the one of the answer's Set-Cookie.
Request == [at : {"idle", "sent", "passed", "answered"}, ask : Asks,
            token : 0..lastToken]

SessionTypeOK ==
    /\ clock \in 0..MaxTime /\ restarts \in 0..MaxRestarts
    /\ lastToken \in 0..MaxToken
    /\ DOMAIN sessions \subseteq 1..lastToken
    /\ \A k \in DOMAIN sessions : sessions[k] \in Nat
    /\ cookie \in [Browser -> [token : 0..lastToken, until : Nat]]
    /\ request \in [Tab -> Request]
    /\ issued \in [1..lastToken -> 0..MaxTime]
    /\ over \subseteq 1..lastToken

SessionInit ==
    /\ clock = 0 /\ restarts = 0
    /\ sessions = [k \in {} |-> k] /\ lastToken = 0
    /\ cookie = [b \in Browser |-> NoCookie]
    /\ request = [t \in Tab |-> Idle]
    /\ issued = [k \in {} |-> k] /\ over = {}

-----------------------------------------------------------------------------
(* auth.go *)

\* The expiry is not looked at.
IsKnown(k) == k \in DOMAIN sessions

IsAuthenticated(k) == k \in DOMAIN sessions /\ clock < sessions[k]

\* The map is made anew.
SingleSession(k) == sessions' = [j \in {k} |-> clock + Life]

CreateSession(k) ==
    sessions' = [j \in DOMAIN sessions \cup {k} |->
                    IF j = k THEN clock + Life ELSE sessions[j]]

DestroySession(k) ==
    sessions' = [j \in DOMAIN sessions \ {k} |-> sessions[j]]

-----------------------------------------------------------------------------
(* A request *)

Becomes(t, r) == request' = [request EXCEPT ![t] = r]

\* The cookie, unless its Max-Age is over.
Carried(b) == IF clock < cookie[b].until THEN cookie[b].token ELSE NoToken

Send(t, ask) ==
    /\ request[t].at = "idle"
    /\ Becomes(t, [at |-> "sent", ask |-> ask, token |-> Carried(Owner[t])])
    /\ UNCHANGED <<clock, sessions, lastToken, cookie, restarts, ghost>>

\* authMiddleware lets /login through, and whoever has a session.
Admit(t) ==
    /\ request[t].at = "sent"
    /\ request[t].ask = Login \/ IsAuthenticated(request[t].token)
    /\ Becomes(t, [request[t] EXCEPT !.at = "passed"])
    /\ UNCHANGED <<clock, sessions, lastToken, cookie, restarts, ghost>>

\* All others are sent to /login.
Refuse(t) ==
    /\ request[t].at = "sent"
    /\ request[t].ask # Login /\ ~IsAuthenticated(request[t].token)
    /\ Becomes(t, Idle)
    /\ UNCHANGED <<clock, sessions, lastToken, cookie, restarts, ghost>>

Handling(t, ask) == request[t].at = "passed" /\ request[t].ask = ask

\* handleLoginSubmit: name and password are right.
LoginSubmit(t) ==
    LET k == lastToken + 1
    IN  /\ Handling(t, Login) /\ lastToken < MaxToken
        /\ CreateSession(k)
        /\ lastToken' = k
        /\ issued' = [j \in 1..k |-> IF j = k THEN clock ELSE issued[j]]
        /\ Becomes(t, [at |-> "answered", ask |-> Login, token |-> k])
        /\ UNCHANGED <<clock, cookie, restarts, over>>

\* They are wrong, or handleLoginPage drew the form: nothing is kept.
LoginFails(t) ==
    /\ Handling(t, Login)
    /\ Becomes(t, Idle)
    /\ UNCHANGED <<clock, sessions, lastToken, cookie, restarts, ghost>>

AuthLogout(t) ==
    /\ Handling(t, Logout)
    /\ DestroySession(request[t].token)
    /\ over' = over \cup {request[t].token}
    /\ Becomes(t, [at |-> "answered", ask |-> Logout, token |-> NoToken])
    /\ UNCHANGED <<clock, lastToken, cookie, restarts, issued>>

\* Any other handler: what it does is up to the module that says what Work is.
Serve(t) ==
    /\ request[t].at = "passed" /\ request[t].ask \in Work
    /\ Becomes(t, Idle)
    /\ UNCHANGED <<clock, sessions, lastToken, cookie, restarts, ghost>>

\* The answer arrives, and the browser keeps its cookie, or drops the one it has.
Receive(t) ==
    /\ request[t].at = "answered"
    /\ cookie' = [cookie EXCEPT ![Owner[t]] =
                     IF request[t].token = NoToken
                     THEN NoCookie
                     ELSE [token |-> request[t].token, until |-> clock + Life]]
    /\ Becomes(t, Idle)
    /\ UNCHANGED <<clock, sessions, lastToken, restarts, ghost>>

\* The tab is closed, or the connection lost, before the answer arrives.
Lose(t) ==
    /\ request[t].at = "answered"
    /\ Becomes(t, Idle)
    /\ UNCHANGED <<clock, sessions, lastToken, cookie, restarts, ghost>>

-----------------------------------------------------------------------------
(* The surroundings *)

Tick ==
    /\ clock < MaxTime
    /\ clock' = clock + 1
    /\ UNCHANGED <<sessions, lastToken, tabs, restarts, ghost>>

\* Requests under way get no answer.
Restart ==
    /\ restarts < MaxRestarts
    /\ restarts' = restarts + 1
    /\ sessions' = [k \in {} |-> k]
    /\ over' = over \cup DOMAIN sessions
    /\ request' = [t \in Tab |-> Idle]
    /\ UNCHANGED <<clock, lastToken, cookie, issued>>

Authentication ==
    \E t \in Tab :
        \/ Send(t, Login) \/ Send(t, Logout)
        \/ Admit(t) \/ Refuse(t)
        \/ LoginSubmit(t) \/ LoginFails(t) \/ AuthLogout(t)
        \/ Receive(t) \/ Lose(t)

SessionNext ==
    \/ Authentication
    \/ \E t \in Tab : Serve(t) \/ \E ask \in Work : Send(t, ask)
    \/ Tick \/ Restart

SessionSpec == SessionInit /\ [][SessionNext]_sessionVars

-----------------------------------------------------------------------------
(* Properties *)

\* The time of a token is over, seven days after the login it was created for.
Expired(k) == clock >= issued[k] + Life

Admitted(t) == request[t].at = "sent" /\ request'[t].at = "passed"
Refused(t)  == request[t].at = "sent" /\ request'[t].at = "idle"

\* Whatever cookies browsers kept, and in whatever order answers came: nothing is
\* done for a request whose login was more than seven days ago, was logged out
\* of, or was made before the last restart, when it is looked at.
AdmittedInTime ==
    [][\A t \in Tab : Admitted(t) /\ request[t].ask # Login =>
          /\ request[t].token \in 1..lastToken \ over
          /\ ~Expired(request[t].token)]_sessionVars

\* No login ends another: a request with a cookie is sent to /login only when that
\* cookie's own session is over.  (A restart ends all requests under way.)
RefusedInTime ==
    [][restarts' = restarts =>
       \A t \in Tab : Refused(t) /\ request[t].token # NoToken =>
          request[t].token \in over \/ Expired(request[t].token)]_sessionVars

\* The inductive invariant behind both: the map holds the sessions that are not
\* over, with their expiry and also after it, and whoever has passed the
\* middleware has been given a token.
SessionInv ==
    /\ SessionTypeOK
    /\ DOMAIN sessions = 1..lastToken \ over
    /\ \A k \in DOMAIN sessions : sessions[k] = issued[k] + Life
    /\ \A t \in Tab :
          request[t].at = "passed" /\ request[t].ask # Login =>
              request[t].token \in 1..lastToken
=============================================================================
