------------------------------ MODULE Sessions ------------------------------
(***************************************************************************)
(* Logins, the session cache and the checks that let a request in, for the *)
(* DMS API (a SessionID) and for CMIS (a password, a token or a SessionID) *)
(* at once.  Tokens are the gateway's and can end at any time.             *)
(***************************************************************************)
EXTENDS Naturals, FiniteSets

CONSTANTS
  Requests,   \* requests in flight at once
  Users,      \* those who have a password
  Service,    \* the user of the configured service account
  Sids,       \* session ids, each given out once
  Tokens,     \* the gateway's access tokens, each given out once
  None        \* no user, no id, no token

ASSUME SessionConstants ==
  /\ Service \in Users
  /\ None \notin Users \cup Sids \cup Tokens

VARIABLES
  cache,      \* session id -> [user, token], or None
  issued,     \* session ids given out
  owner,      \* token -> the user it was given to, or None
  valid,      \* tokens the gateway accepts
  ended,      \* sessions a Logout or a refusing Authenticate has answered for
  req         \* the requests

sessionVars == <<cache, issued, owner, valid, ended, req>>

\* A session's user is None when there is no token: the login of nobody.
Sessions == [user : Users \cup {None}, token : Tokens \cup {None}]
Nobody == [user |-> None, token |-> None]

(***************************************************************************)
(* A request: what it shows (a user with a right or wrong password, a      *)
(* token, a session id), the session it got, and `late', whether the       *)
(* session it shows had ended when it began.                               *)
(***************************************************************************)
Kinds == {"login", "authenticate", "dms", "cmis"}
States == {"idle", "begun", "token", "sid", "session", "in"}

Idle == [at |-> "idle", kind |-> "dms", user |-> None, right |-> FALSE, token |-> None,
         sid |-> None, sess |-> Nobody, late |-> FALSE]

SessionsInit ==
  /\ cache = [i \in Sids |-> None]
  /\ issued = {}
  /\ owner = [t \in Tokens |-> None]
  /\ valid = {}
  /\ ended = {}
  /\ req = [r \in Requests |-> Idle]

At(r, kind, at) == req[r].kind = kind /\ req[r].at = at
GoesTo(r, at) == req' = [req EXCEPT ![r].at = at]
Answered(r) == req' = [req EXCEPT ![r] = Idle]
Gets(r, sess, at) == req' = [req EXCEPT ![r].sess = sess, ![r].at = at]

\* A user shows an own token, or none, and any session id.
Arrive(r) ==
  /\ req[r].at = "idle"
  /\ \E kind \in Kinds, u \in Users \cup {None}, right \in BOOLEAN,
        t \in {tt \in Tokens : owner[tt] # None} \cup {None}, i \in issued \cup {None} :
       /\ (u = None => ~right) /\ (kind \in {"login", "authenticate", "dms"} => t = None)
       /\ (kind \in {"authenticate", "dms"} => u = None) /\ (kind = "login" => i = None)
       /\ req' = [req EXCEPT ![r] = [at |-> "begun", kind |-> kind, user |-> u, right |-> right,
                                     token |-> t, sid |-> i, sess |-> Nobody, late |-> i \in ended]]
  /\ UNCHANGED <<cache, issued, owner, valid, ended>>

\* The gateway's answer to an Authenticate: a new token for the right password,
\* or a refusal or a failure, which are all one.
GatewayLogin(r, u, right, at, otherwise) ==
  \/ /\ right
     /\ \E t \in Tokens : /\ owner[t] = None
                          /\ owner' = [owner EXCEPT ![t] = u]
                          /\ valid' = valid \cup {t}
                          /\ Gets(r, [user |-> u, token |-> t], at)
  \/ otherwise /\ UNCHANGED <<owner, valid>>

\* With a name and a password, those; without, the service account, and when
\* it cannot log in a session of nobody.
Login(r) ==
  /\ At(r, "login", "begun")
  /\ \/ req[r].user # None /\ GatewayLogin(r, req[r].user, req[r].right, "session", Answered(r))
     \/ req[r].user = None /\ GatewayLogin(r, Service, TRUE, "session", GoesTo(r, "session"))
  /\ UNCHANGED <<cache, issued, ended>>

NewSidReused == Sids \ {i \in Sids : cache[i] # None}
NewSid == Sids \ issued

Create(r) ==
  /\ At(r, "login", "session")
  /\ \E i \in NewSid :
       /\ cache' = [cache EXCEPT ![i] = req[r].sess]
       /\ issued' = issued \cup {i}
  /\ Answered(r)
  /\ UNCHANGED <<owner, valid, ended>>

\* Whoever knows a session id can end the session.
Logout(i) ==
  /\ cache' = [cache EXCEPT ![i] = None]
  /\ ended' = ended \cup {i}
  /\ UNCHANGED <<issued, owner, valid, req>>

Expire(i) ==
  /\ cache[i] # None
  /\ cache' = [cache EXCEPT ![i] = None]
  /\ UNCHANGED <<issued, owner, valid, ended, req>>

TokenEnds(t) ==
  /\ valid' = valid \ {t}
  /\ UNCHANGED <<cache, issued, owner, ended, req>>

\* The session of the id a request shows, looked up in the cache.
Get(r, at) ==
  IF req[r].sid = None \/ cache[req[r].sid] = None
    THEN Answered(r) ELSE Gets(r, cache[req[r].sid], at)

SessionMiddleware(r) ==
  /\ At(r, "dms", "begun")
  /\ Get(r, "in")
  /\ UNCHANGED <<cache, issued, owner, valid, ended>>

\* Authenticate asks the gateway about the session's token; any answer but a
\* yes ends the session.
Authenticate(r) ==
  \/ /\ At(r, "authenticate", "begun")
     /\ Get(r, "token")
     /\ UNCHANGED <<cache, issued, owner, valid, ended>>
  \/ /\ At(r, "authenticate", "token")
     /\ LET t == req[r].sess.token
        IN  \/ /\ t \in valid \cup {None}
               /\ GoesTo(r, "in") /\ UNCHANGED <<cache, ended>>
            \/ /\ t # None
               /\ cache' = [cache EXCEPT ![req[r].sid] = None]
               /\ ended' = ended \cup {req[r].sid}
               /\ Answered(r)
     /\ UNCHANGED <<issued, owner, valid>>

\* CMIS: a user name decides alone; else a token the gateway knows; else the id.
AuthenticateBasicOr(r) ==
  /\ At(r, "cmis", "begun")
  /\ \/ req[r].user # None /\ GatewayLogin(r, req[r].user, req[r].right, "in", GoesTo(r, "sid"))
     \/ req[r].user = None /\ GoesTo(r, "token") /\ UNCHANGED <<owner, valid>>
  /\ UNCHANGED <<cache, issued, ended>>

AuthenticateBasic(r) ==
  /\ At(r, "cmis", "begun")
  /\ \/ req[r].user # None /\ GatewayLogin(r, req[r].user, req[r].right, "in", Answered(r))
     \/ req[r].user = None /\ GoesTo(r, "token") /\ UNCHANGED <<owner, valid>>
  /\ UNCHANGED <<cache, issued, ended>>

AuthenticateTokenAsService(r) ==
  /\ At(r, "cmis", "token")
  /\ LET t == req[r].token
     IN  \/ t \in valid /\ Gets(r, [user |-> Service, token |-> t], "in")
         \/ GoesTo(r, "sid")
  /\ UNCHANGED <<cache, issued, owner, valid, ended>>

AuthenticateToken(r) ==
  /\ At(r, "cmis", "token")
  /\ LET t == req[r].token
     IN  \/ t \in valid /\ Gets(r, [user |-> owner[t], token |-> t], "in")
         \/ GoesTo(r, "sid")
  /\ UNCHANGED <<cache, issued, owner, valid, ended>>

AuthenticateSid(r) ==
  /\ At(r, "cmis", "sid")
  /\ Get(r, "in")
  /\ UNCHANGED <<cache, issued, owner, valid, ended>>

AuthMiddleware(r) == AuthenticateBasic(r) \/ AuthenticateToken(r) \/ AuthenticateSid(r)

\* The handler works with the token of the session it was given, and answers.
Finish(r) ==
  /\ req[r].at = "in"
  /\ Answered(r)
  /\ UNCHANGED <<cache, issued, owner, valid, ended>>

SessionsNext ==
  \/ \E r \in Requests : \/ Arrive(r) \/ Login(r) \/ Create(r) \/ SessionMiddleware(r)
                         \/ Authenticate(r) \/ AuthMiddleware(r) \/ Finish(r)
  \/ \E i \in issued : Logout(i) \/ Expire(i)
  \/ \E t \in valid : TokenEnds(t)

SessionsSpec == SessionsInit /\ [][SessionsNext]_sessionVars

-----------------------------------------------------------------------------
SessionsTypeOK ==
  /\ cache \in [Sids -> Sessions \cup {None}]
  /\ issued \subseteq Sids
  /\ owner \in [Tokens -> Users \cup {None}]
  /\ valid \subseteq Tokens
  /\ ended \subseteq Sids
  /\ req \in [Requests -> [at : States, kind : Kinds, user : Users \cup {None}, right : BOOLEAN,
                           token : Tokens \cup {None}, sid : Sids \cup {None}, sess : Sessions,
                           late : BOOLEAN]]

\* Once a Logout, or an Authenticate that refuses, has answered, no request
\* that begins later is let in by that session id.
EndedIsFinal == \A i \in ended : cache[i] = None

BySid(r) == req[r].kind \in {"dms", "authenticate"}
              \/ (req[r].kind = "cmis" /\ req[r].user = None /\ req[r].token = None)

LetInBySid(r) == BySid(r) /\ req[r].at = "in" => ~req[r].late

LogoutIsFinal == \A r \in Requests : LetInBySid(r)

\* A session's token was given to the session's user, in the cache and with
\* every request that has one.
Own(sess) ==
  /\ sess.token = None <=> sess.user = None
  /\ sess.token # None => owner[sess.token] = sess.user

TokensAreOwn ==
  /\ \A i \in Sids : cache[i] # None => Own(cache[i])
  /\ \A r \in Requests : Own(req[r].sess)

\* A request that gives a name and a password is let in only if that is the
\* user's, and then acts as that user, whatever token or session id it shows
\* besides.  (A name alone is a login of the service account.)
NamesAreProved ==
  \A r \in Requests :
    req[r].at \in {"in", "session"} /\ req[r].kind \in {"cmis", "login"} /\ req[r].user # None
      => req[r].right /\ req[r].sess.user = req[r].user
=============================================================================
