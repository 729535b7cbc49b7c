--------------------------- MODULE ServicesProofs ---------------------------
(***************************************************************************)
(* What holds of the small services for any number of users, sessions,     *)
(* tokens, requests, ids, names, files, keys and folders: the sessions,    *)
(* the application configurations, the shares, the ids, the metadata keys  *)
(* and the recursive listings; and that those composed hold together.      *)
(***************************************************************************)
EXTENDS Services, Shares, QueriesProofs

(***************************************************************************)
(* Sessions.  What is true of a request (RequestOK) only refers to ids     *)
(* given out, to sessions ended and to owners of tokens, all of which only *)
(* grow: a step of one request leaves the others alone (OthersStay).  An   *)
(* ended session is out of the cache for good, since its id is never given *)
(* out again.                                                              *)
(***************************************************************************)
RequestType ==
  [at : States, kind : Kinds, user : Users \cup {None}, right : BOOLEAN,
   token : Tokens \cup {None}, sid : Sids \cup {None}, sess : Sessions, late : BOOLEAN]

\* What is known where a request stands.
Stands(q) ==
  /\ q.at = "session" => q.kind = "login"
  /\ q.at = "sid" => q.kind = "cmis" /\ q.user = None
  /\ q.at = "token" => q.kind = "authenticate" \/ (q.kind = "cmis" /\ q.user = None)
  /\ q.at = "token" /\ q.kind = "authenticate" => q.sid \in issued /\ ~q.late

Proved(q) ==
  q.at \in {"in", "session"} /\ q.kind \in {"cmis", "login"} /\ q.user # None
    => q.right /\ q.sess.user = q.user

NotLate(q) ==
  /\ q.late => q.sid \in ended
  /\ (\/ q.kind \in {"dms", "authenticate"}
      \/ (q.kind = "cmis" /\ q.user = None /\ q.token = None)) /\ q.at = "in" => ~q.late

RequestOK(q) ==
  /\ q \in RequestType
  /\ Stands(q)
  /\ Proved(q)
  /\ NotLate(q)
  /\ Own(q.sess)
  /\ q.sid # None => q.sid \in issued

StoreOK ==
  /\ cache \in [Sids -> Sessions \cup {None}]
  /\ issued \subseteq Sids
  /\ owner \in [Tokens -> Users \cup {None}]
  /\ valid \subseteq Tokens
  /\ ended \subseteq issued

CacheOK ==
  \A i \in Sids : cache[i] # None => i \in issued \ ended /\ Own(cache[i])

ValidOwned == \A t \in valid : owner[t] # None

RequestsOK ==
  /\ req \in [Requests -> RequestType]
  /\ \A r \in Requests : RequestOK(req[r])

SessionsInv == StoreOK /\ CacheOK /\ ValidOwned /\ RequestsOK

-----------------------------------------------------------------------------
\* What a request relies on only grows.
Grows ==
  /\ issued \subseteq issued'
  /\ ended \subseteq ended'
  /\ \A t \in Tokens : owner[t] # None => owner'[t] = owner[t]

LEMMA OwnStays ==
  ASSUME StoreOK, Grows, NEW sess \in Sessions, Own(sess)
  PROVE  Own(sess)'
  <1>1. /\ sess.token \in Tokens \cup {None}
        /\ sess.user \in Users \cup {None}
    BY DEF Sessions
  <1>2. CASE sess.token = None
    BY <1>1, <1>2 DEF Own
  <1>3. CASE sess.token # None
    <2>1. owner[sess.token] = sess.user /\ sess.user # None
      BY <1>3 DEF Own
    <2>2. owner'[sess.token] = sess.user
      BY <1>1, <1>3, <2>1 DEF Grows
    <2> QED
      BY <1>3, <2>1, <2>2 DEF Own
  <1> QED
    BY <1>2, <1>3

LEMMA OneStays ==
  ASSUME StoreOK, Grows, NEW q, RequestOK(q)
  PROVE  RequestOK(q)'
  <1>1. q \in RequestType /\ q.sess \in Sessions
    BY DEF RequestOK, RequestType
  <1>2. Own(q.sess)'
    BY <1>1, OwnStays DEF RequestOK
  <1>3. Stands(q)'
    BY DEF RequestOK, Stands, Grows
  <1>4. NotLate(q)'
    BY DEF RequestOK, NotLate, Grows
  <1>5. q.sid # None => q.sid \in issued'
    BY DEF RequestOK, Grows
  <1> QED
    BY <1>2, <1>3, <1>4, <1>5 DEF RequestOK, Proved, RequestType

\* A step of one request leaves it, and the others, as they must be.
LEMMA OthersStay ==
  ASSUME StoreOK, RequestsOK, Grows,
         NEW r \in Requests, NEW q, RequestOK(q)', req' = [req EXCEPT ![r] = q]
  PROVE  RequestsOK'
  <1>1. req' \in [Requests -> RequestType]
    BY DEF RequestsOK, RequestOK, RequestType
  <1>2. ASSUME NEW x \in Requests
        PROVE  RequestOK(req[x])'
    <2>1. CASE x = r
      BY <2>1 DEF RequestsOK
    <2>2. CASE x # r
      <3>1. req'[x] = req[x]
        BY <2>2 DEF RequestsOK
      <3>2. RequestOK(req[x])
        BY DEF RequestsOK
      <3>3. PICK p : p = req[x]
        OBVIOUS
      <3>4. RequestOK(p)'
        BY <3>2, <3>3, OneStays
      <3> QED
        BY <3>1, <3>3, <3>4 DEF RequestOK, RequestType, Stands, Proved, NotLate, Own
    <2> QED
      BY <2>1, <2>2
  <1> QED
    BY <1>1, <1>2 DEF RequestsOK

LEMMA IdleOK == RequestOK(Idle) /\ RequestOK(Idle)'
  BY SessionConstants DEF RequestOK, RequestType, Stands, Proved, NotLate, Own, Idle, Nobody,
     Sessions, States, Kinds

\* A step that only moves one request on.
LEMMA QuietStep ==
  ASSUME SessionsInv, NEW r \in Requests, NEW q, RequestOK(q), req' = [req EXCEPT ![r] = q],
         UNCHANGED <<cache, issued, owner, valid, ended>>
  PROVE  SessionsInv'
  <1>1. Grows
    BY DEF Grows
  <1>2. RequestsOK'
    BY <1>1, OneStays, OthersStay DEF SessionsInv
  <1>3. StoreOK' /\ ValidOwned'
    BY DEF SessionsInv, StoreOK, ValidOwned
  <1>4. CacheOK'
    BY DEF SessionsInv, CacheOK, Own
  <1> QED
    BY <1>2, <1>3, <1>4 DEF SessionsInv

LEMMA AnsweredStep ==
  ASSUME SessionsInv, NEW r \in Requests, Answered(r), UNCHANGED <<cache, issued, owner, valid, ended>>
  PROVE  SessionsInv'
  <1>1. PICK q : q = Idle
    OBVIOUS
  <1>2. RequestOK(q)
    BY <1>1, IdleOK
  <1> QED
    BY <1>1, <1>2, QuietStep DEF Answered

\* The request goes on without a new session.
LEMMA GoesToStep ==
  ASSUME SessionsInv, NEW r \in Requests, NEW at \in States, GoesTo(r, at),
         UNCHANGED <<cache, issued, owner, valid, ended>>,
         at \in {"session", "token", "sid", "in"},
         at = "session" => req[r].kind = "login" /\ req[r].user = None,
         at = "sid" => req[r].kind = "cmis" /\ req[r].user = None,
         at = "token" => req[r].kind = "cmis" /\ req[r].user = None,
         at = "in" => req[r].kind = "authenticate" /\ ~req[r].late
  PROVE  SessionsInv'
  <1>1. RequestOK(req[r]) /\ req[r] \in RequestType /\ req \in [Requests -> RequestType]
    BY DEF SessionsInv, RequestsOK
  <1>2. PICK q : q = [req[r] EXCEPT !.at = at]
    OBVIOUS
  <1>3. /\ q \in RequestType
        /\ q.at = at /\ q.kind = req[r].kind /\ q.user = req[r].user /\ q.token = req[r].token
        /\ q.sid = req[r].sid /\ q.sess = req[r].sess /\ q.late = req[r].late
    BY <1>1, <1>2 DEF RequestType
  <1>4. RequestOK(q)
    BY <1>1, <1>3 DEF RequestOK, Stands, Proved, NotLate
  <1>5. req' = [req EXCEPT ![r] = q]
    BY <1>1, <1>2 DEF GoesTo
  <1> QED
    BY <1>4, <1>5, QuietStep

\* The request gets a session of the cache, or is refused.
LEMMA GetStep ==
  ASSUME SessionsInv, NEW r \in Requests, NEW at \in {"in", "token"}, Get(r, at),
         UNCHANGED <<cache, issued, owner, valid, ended>>,
         \/ req[r].kind = "dms" /\ at = "in"
         \/ req[r].kind = "authenticate" /\ at = "token"
         \/ req[r].kind = "cmis" /\ req[r].user = None /\ at = "in"
  PROVE  SessionsInv'
  <1>1. RequestOK(req[r]) /\ req[r] \in RequestType /\ req \in [Requests -> RequestType]
    BY DEF SessionsInv, RequestsOK
  <1>2. CASE Answered(r)
    BY <1>2, AnsweredStep
  <1>3. CASE req[r].sid # None /\ cache[req[r].sid] # None /\ Gets(r, cache[req[r].sid], at)
    <2>1. req[r].sid \in Sids
      BY <1>1, <1>3 DEF RequestType
    <2>2. /\ cache[req[r].sid] \in Sessions
          /\ req[r].sid \in issued \ ended
          /\ Own(cache[req[r].sid])
      BY <1>3, <2>1 DEF SessionsInv, StoreOK, CacheOK
    <2>3. PICK q : q = [req[r] EXCEPT !.sess = cache[req[r].sid], !.at = at]
      OBVIOUS
    <2>4. /\ q \in RequestType
          /\ q.at = at /\ q.kind = req[r].kind /\ q.user = req[r].user /\ q.token = req[r].token
          /\ q.sid = req[r].sid /\ q.sess = cache[req[r].sid] /\ q.late = req[r].late
      BY <1>1, <2>2, <2>3 DEF RequestType, States
    <2>5. ~q.late
      BY <1>1, <2>2, <2>4 DEF RequestOK, NotLate
    <2>6. RequestOK(q)
      BY <1>1, <2>2, <2>4, <2>5 DEF RequestOK, Stands, Proved, NotLate
    <2>7. req' = [req EXCEPT ![r] = q]
      BY <1>1, <1>3, <2>3 DEF Gets
    <2> QED
      BY <2>6, <2>7, QuietStep
  <1> QED
    BY <1>2, <1>3 DEF Get

\* The gateway gives out a token: who shows a name is the one it is given to.
LEMMA GrantStep ==
  ASSUME SessionsInv, NEW r \in Requests, NEW w \in Users, NEW t \in Tokens, NEW at \in {"in", "session"},
         owner[t] = None, owner' = [owner EXCEPT ![t] = w], valid' = valid \cup {t},
         Gets(r, [user |-> w, token |-> t], at), UNCHANGED <<cache, issued, ended>>,
         at = "session" => req[r].kind = "login",
         at = "in" => req[r].kind = "cmis" /\ req[r].user # None,
         req[r].user # None => req[r].right /\ req[r].user = w
  PROVE  SessionsInv'
  <1>1. RequestOK(req[r]) /\ req[r] \in RequestType /\ req \in [Requests -> RequestType]
    BY DEF SessionsInv, RequestsOK
  <1>2. Grows
    BY DEF SessionsInv, StoreOK, Grows
  <1>3. StoreOK' /\ ValidOwned'
    BY SessionConstants DEF SessionsInv, StoreOK, ValidOwned
  <1>4. CacheOK'
    <2>1. ASSUME NEW i \in Sids, cache[i] # None
          PROVE  i \in issued \ ended /\ Own(cache[i])'
      <3>1. PICK sess : sess = cache[i]
        OBVIOUS
      <3>2. sess \in Sessions /\ Own(sess) /\ i \in issued \ ended
        BY <2>1, <3>1 DEF SessionsInv, StoreOK, CacheOK
      <3>3. Own(sess)'
        BY <1>2, <3>2, OwnStays DEF SessionsInv
      <3> QED
        BY <3>1, <3>2, <3>3 DEF Own
    <2> QED
      BY <2>1 DEF CacheOK
  <1>5. PICK sess : sess = [user |-> w, token |-> t]
    OBVIOUS
  <1>6. sess \in Sessions /\ Own(sess)'
    <2>1. owner'[t] = w
      BY DEF SessionsInv, StoreOK
    <2> QED
      BY <1>5, <2>1, SessionConstants DEF Sessions, Own
  <1>7. PICK q : q = [req[r] EXCEPT !.sess = sess, !.at = at]
    OBVIOUS
  <1>8. /\ q \in RequestType
        /\ q.at = at /\ q.kind = req[r].kind /\ q.user = req[r].user /\ q.token = req[r].token
        /\ q.sid = req[r].sid /\ q.sess = sess /\ q.late = req[r].late /\ q.right = req[r].right
    BY <1>1, <1>6, <1>7 DEF RequestType, States
  <1>9. sess.user = w
    BY <1>5
  <1>10. Stands(q)' /\ Proved(q)' /\ NotLate(q)'
    BY <1>1, <1>8, <1>9 DEF RequestOK, Stands, Proved, NotLate
  <1>11. RequestOK(q)'
    BY <1>1, <1>6, <1>8, <1>10 DEF RequestOK, RequestType
  <1>12. req' = [req EXCEPT ![r] = q]
    BY <1>1, <1>5, <1>7 DEF Gets
  <1>13. RequestsOK'
    BY <1>2, <1>11, <1>12, OthersStay DEF SessionsInv
  <1> QED
    BY <1>3, <1>4, <1>13 DEF SessionsInv

\* A session ends: its id stays given out, so no later one has it.
LEMMA EndStep ==
  ASSUME SessionsInv, NEW i \in issued, cache' = [cache EXCEPT ![i] = None],
         ended' \in {ended, ended \cup {i}}, UNCHANGED <<issued, owner, valid>>
  PROVE  /\ Grows
         /\ StoreOK' /\ CacheOK' /\ ValidOwned'
  <1>1. Grows
    BY DEF Grows
  <1>2. StoreOK'
    BY DEF SessionsInv, StoreOK
  <1>3. CacheOK'
    BY DEF SessionsInv, StoreOK, CacheOK, Own
  <1>4. ValidOwned'
    BY DEF SessionsInv, ValidOwned
  <1> QED
    BY <1>1, <1>2, <1>3, <1>4

-----------------------------------------------------------------------------
LEMMA SessionsInitInv == SessionsInit => SessionsInv
  BY IdleOK, SessionConstants DEF SessionsInit, SessionsInv, StoreOK, CacheOK, ValidOwned, RequestsOK, RequestOK

LEMMA ArriveStep ==
  ASSUME SessionsInv, NEW r \in Requests, Arrive(r)
  PROVE  SessionsInv'
  <1>1. PICK kind \in Kinds, u \in Users \cup {None}, right \in BOOLEAN,
             t \in {tt \in Tokens : owner[tt] # None} \cup {None}, i \in issued \cup {None} :
          req' = [req EXCEPT ![r] = [at |-> "begun", kind |-> kind, user |-> u, right |-> right,
                                     token |-> t, sid |-> i, sess |-> Nobody, late |-> i \in ended]]
    BY DEF Arrive
  <1>3. PICK q : q = [at |-> "begun", kind |-> kind, user |-> u, right |-> right,
                      token |-> t, sid |-> i, sess |-> Nobody, late |-> i \in ended]
    OBVIOUS
  <1>4. q \in RequestType
    <2>1. i \in Sids \cup {None}
      BY DEF SessionsInv, StoreOK
    <2>2. (i \in ended) \in BOOLEAN
      OBVIOUS
    <2> QED
      BY <1>3, <2>1, <2>2 DEF RequestType, States, Sessions, Nobody
  <1>5. RequestOK(q)
    BY <1>3, <1>4 DEF RequestOK, Stands, Proved, NotLate, Own, Nobody
  <1> QED
    BY <1>1, <1>3, <1>5, QuietStep DEF Arrive

LEMMA LoginStep ==
  ASSUME SessionsInv, NEW r \in Requests, Login(r)
  PROVE  SessionsInv'
  <1>1. RequestOK(req[r]) /\ req[r] \in RequestType
    BY DEF SessionsInv, RequestsOK
  <1>2. req[r].kind = "login" /\ req[r].user \in Users \cup {None}
    BY <1>1 DEF Login, At, RequestType
  <1>3. CASE req[r].user # None /\ GatewayLogin(r, req[r].user, req[r].right, "session", Answered(r))
    BY <1>2, <1>3, GrantStep, AnsweredStep DEF Login, GatewayLogin
  <1>4. CASE req[r].user = None /\ GatewayLogin(r, Service, TRUE, "session", GoesTo(r, "session"))
    BY <1>2, <1>4, SessionConstants, GrantStep, GoesToStep DEF Login, GatewayLogin, States
  <1> QED
    BY <1>3, <1>4 DEF Login

LEMMA CreateStep ==
  ASSUME SessionsInv, NEW r \in Requests, Create(r)
  PROVE  SessionsInv'
  <1>1. RequestOK(req[r]) /\ req[r] \in RequestType
    BY DEF SessionsInv, RequestsOK
  <1>2. PICK i \in Sids \ issued : /\ cache' = [cache EXCEPT ![i] = req[r].sess]
                                  /\ issued' = issued \cup {i}
    BY DEF Create, NewSid
  <1>3. req[r].sess \in Sessions /\ Own(req[r].sess)
    BY <1>1 DEF RequestOK, RequestType
  <1>4. Grows
    BY <1>2 DEF Create, Grows
  <1>5. StoreOK' /\ ValidOwned'
    BY <1>2, <1>3 DEF Create, SessionsInv, StoreOK, ValidOwned
  <1>6. CacheOK'
    BY <1>2, <1>3 DEF Create, SessionsInv, StoreOK, CacheOK, Own
  <1>7. PICK q : q = Idle
    OBVIOUS
  <1>8. RequestOK(q)'
    BY <1>7, IdleOK
  <1>9. RequestsOK'
    BY <1>4, <1>7, <1>8, OthersStay DEF Create, Answered, SessionsInv
  <1> QED
    BY <1>5, <1>6, <1>9 DEF SessionsInv

LEMMA SessionMiddlewareStep ==
  ASSUME SessionsInv, NEW r \in Requests, SessionMiddleware(r)
  PROVE  SessionsInv'
  BY GetStep DEF SessionMiddleware, At

LEMMA AuthenticateStep ==
  ASSUME SessionsInv, NEW r \in Requests, Authenticate(r)
  PROVE  SessionsInv'
  <1>1. CASE At(r, "authenticate", "begun") /\ Get(r, "token") /\ UNCHANGED <<cache, issued, owner, valid, ended>>
    BY <1>1, GetStep DEF At
  <1>2. CASE At(r, "authenticate", "token")
    <2>1. req[r].sid \in issued /\ ~req[r].late
      BY <1>2 DEF SessionsInv, RequestsOK, RequestOK, Stands, At
    <2>2. CASE GoesTo(r, "in") /\ UNCHANGED <<cache, issued, owner, valid, ended>>
      BY <1>2, <2>1, <2>2, GoesToStep DEF At, States
    <2>3. CASE /\ cache' = [cache EXCEPT ![req[r].sid] = None]
               /\ ended' = ended \cup {req[r].sid}
               /\ Answered(r)
               /\ UNCHANGED <<issued, owner, valid>>
      <3>1. Grows /\ StoreOK' /\ CacheOK' /\ ValidOwned'
        BY <2>1, <2>3, EndStep
      <3>2. PICK q : q = Idle
        OBVIOUS
      <3>3. RequestOK(q)'
        BY <3>2, IdleOK
      <3>4. RequestsOK'
        BY <2>3, <3>1, <3>2, <3>3, OthersStay DEF Answered, SessionsInv
      <3> QED
        BY <3>1, <3>4 DEF SessionsInv
    <2> QED
      BY <1>2, <2>2, <2>3 DEF Authenticate, At
  <1> QED
    BY <1>1, <1>2 DEF Authenticate

LEMMA AuthMiddlewareStep ==
  ASSUME SessionsInv, NEW r \in Requests, AuthMiddleware(r)
  PROVE  SessionsInv'
  <1>1. RequestOK(req[r]) /\ req[r] \in RequestType /\ req \in [Requests -> RequestType]
    BY DEF SessionsInv, RequestsOK
  <1>2. CASE AuthenticateBasic(r)
    <2>1. req[r].kind = "cmis" /\ req[r].user \in Users \cup {None}
      BY <1>1, <1>2 DEF AuthenticateBasic, At, RequestType
    <2>2. CASE req[r].user # None /\ GatewayLogin(r, req[r].user, req[r].right, "in", Answered(r))
      BY <1>2, <2>1, <2>2, GrantStep, AnsweredStep DEF AuthenticateBasic, GatewayLogin
    <2>3. CASE req[r].user = None /\ GoesTo(r, "token") /\ UNCHANGED <<owner, valid>>
      BY <1>2, <2>1, <2>3, GoesToStep DEF AuthenticateBasic, States
    <2> QED
      BY <1>2, <2>2, <2>3 DEF AuthenticateBasic
  <1>3. CASE AuthenticateToken(r)
    <2>1. req[r].kind = "cmis" /\ req[r].user = None
      BY <1>1, <1>3 DEF AuthenticateToken, At, RequestOK, Stands
    <2>2. CASE GoesTo(r, "sid")
      BY <1>3, <2>1, <2>2, GoesToStep DEF AuthenticateToken, States
    <2>3. CASE req[r].token \in valid /\ Gets(r, [user |-> owner[req[r].token], token |-> req[r].token], "in")
      <3> DEFINE t == req[r].token
      <3>1. t \in Tokens /\ owner[t] \in Users
        BY <2>3 DEF SessionsInv, StoreOK, ValidOwned
      <3>2. PICK q : q = [req[r] EXCEPT !.sess = [user |-> owner[t], token |-> t], !.at = "in"]
        OBVIOUS
      <3>3. [user |-> owner[t], token |-> t] \in Sessions
        BY <3>1 DEF Sessions
      <3>4. /\ q \in RequestType
            /\ q.at = "in" /\ q.kind = "cmis" /\ q.user = None /\ q.token # None
            /\ q.sid = req[r].sid /\ q.late = req[r].late /\ q.token = req[r].token
            /\ q.sess.user = owner[t] /\ q.sess.token = t
        BY <1>1, <2>1, <3>1, <3>2, <3>3, SessionConstants DEF RequestType, States
      <3>5. Own(q.sess)
        BY <3>1, <3>4, SessionConstants DEF Own
      <3>6. RequestOK(q)
        BY <1>1, <3>4, <3>5 DEF RequestOK, Stands, Proved, NotLate
      <3>7. req' = [req EXCEPT ![r] = q]
        BY <1>1, <2>3, <3>2 DEF Gets
      <3> QED
        BY <1>3, <3>6, <3>7, QuietStep DEF AuthenticateToken
    <2> QED
      BY <1>3, <2>2, <2>3 DEF AuthenticateToken
  <1>4. CASE AuthenticateSid(r)
    <2>1. req[r].kind = "cmis" /\ req[r].user = None
      BY <1>1, <1>4 DEF AuthenticateSid, At, RequestOK, Stands
    <2> QED
      BY <1>4, <2>1, GetStep DEF AuthenticateSid
  <1> QED
    BY <1>2, <1>3, <1>4 DEF AuthMiddleware

LEMMA FinishStep ==
  ASSUME SessionsInv, NEW r \in Requests, Finish(r)
  PROVE  SessionsInv'
  BY AnsweredStep DEF Finish

\* A step that leaves all requests alone.
LEMMA RequestsStay ==
  ASSUME SessionsInv, Grows, UNCHANGED req
  PROVE  RequestsOK'
  <1>1. ASSUME NEW x \in Requests
        PROVE  RequestOK(req[x])'
    <2>1. PICK p : p = req[x]
      OBVIOUS
    <2>2. RequestOK(p)'
      BY <2>1, OneStays DEF SessionsInv, RequestsOK
    <2> QED
      BY <2>1, <2>2 DEF RequestOK, RequestType, Stands, Proved, NotLate, Own
  <1> QED
    BY <1>1 DEF SessionsInv, RequestsOK, RequestType

LEMMA SessionsStepInv == SessionsInv /\ [SessionsNext]_sessionVars => SessionsInv'
  <1> SUFFICES ASSUME SessionsInv, [SessionsNext]_sessionVars PROVE SessionsInv'
    OBVIOUS
  <1>1. ASSUME NEW r \in Requests,
               \/ Arrive(r) \/ Login(r) \/ Create(r) \/ SessionMiddleware(r)
               \/ Authenticate(r) \/ AuthMiddleware(r) \/ Finish(r)
        PROVE  SessionsInv'
    BY <1>1, ArriveStep, LoginStep, CreateStep, SessionMiddlewareStep, AuthenticateStep,
       AuthMiddlewareStep, FinishStep
  <1>2. ASSUME NEW i \in issued, Logout(i) \/ Expire(i)
        PROVE  SessionsInv'
    <2>1. /\ cache' = [cache EXCEPT ![i] = None]
          /\ ended' \in {ended, ended \cup {i}}
          /\ UNCHANGED <<issued, owner, valid, req>>
      BY <1>2 DEF Logout, Expire
    <2>2. Grows /\ StoreOK' /\ CacheOK' /\ ValidOwned'
      BY <2>1, EndStep
    <2> QED
      BY <2>1, <2>2, RequestsStay DEF SessionsInv
  <1>3. ASSUME NEW t \in valid, TokenEnds(t)
        PROVE  SessionsInv'
    <2>1. Grows
      BY <1>3 DEF TokenEnds, Grows
    <2>2. StoreOK' /\ CacheOK' /\ ValidOwned'
      BY <1>3 DEF TokenEnds, SessionsInv, StoreOK, CacheOK, ValidOwned, Own
    <2> QED
      BY <1>3, <2>1, <2>2, RequestsStay DEF TokenEnds, SessionsInv
  <1>4. CASE UNCHANGED sessionVars
    <2>1. Grows
      BY <1>4 DEF sessionVars, Grows
    <2>2. StoreOK' /\ CacheOK' /\ ValidOwned'
      BY <1>4 DEF sessionVars, SessionsInv, StoreOK, CacheOK, ValidOwned, Own
    <2> QED
      BY <1>4, <2>1, <2>2, RequestsStay DEF sessionVars, SessionsInv
  <1> QED
    BY <1>1, <1>2, <1>3, <1>4 DEF SessionsNext

LEMMA SessionsInvariant == SessionsSpec => []SessionsInv
  BY SessionsInitInv, SessionsStepInv, PTL DEF SessionsSpec

-----------------------------------------------------------------------------
\* Every variable has its type (auth/session.go, http/handlers/auth.go).
THEOREM SessionsTyping == SessionsSpec => []SessionsTypeOK
  <1>1. SessionsInv => SessionsTypeOK
    BY DEF SessionsInv, StoreOK, RequestsOK, RequestType, SessionsTypeOK
  <1> QED
    BY <1>1, SessionsInvariant, PTL

\* A session a Logout or a refusing Authenticate has ended is in the cache never
\* again, and lets no request in that begins later.
THEOREM LogoutFinal == SessionsSpec => [](EndedIsFinal /\ LogoutIsFinal)
  <1>1. SessionsInv => EndedIsFinal
    BY DEF SessionsInv, StoreOK, CacheOK, EndedIsFinal
  <1>2. SessionsInv => LogoutIsFinal
    BY DEF SessionsInv, RequestsOK, RequestOK, NotLate, LogoutIsFinal, LetInBySid, BySid
  <1> QED
    BY <1>1, <1>2, SessionsInvariant, PTL

\* The token of a session, cached or at work in a request, was given to the
\* session's user.
THEOREM OwnTokens == SessionsSpec => []TokensAreOwn
  <1>1. SessionsInv => TokensAreOwn
    BY DEF SessionsInv, CacheOK, RequestsOK, RequestOK, TokensAreOwn
  <1> QED
    BY <1>1, SessionsInvariant, PTL

\* Nobody is let in under a name without its password.
THEOREM ProvedNames == SessionsSpec => []NamesAreProved
  <1>1. SessionsInv => NamesAreProved
    BY DEF SessionsInv, RequestsOK, RequestOK, Proved, NamesAreProved
  <1> QED
    BY <1>1, SessionsInvariant, PTL

-----------------------------------------------------------------------------
(***************************************************************************)
(* Application configurations.  What was saved under an id nobody else's   *)
(* file has is in that file until the id is written to again, and an       *)
(* answer is that of the files as they are, since every write forgets it.  *)
(***************************************************************************)
FilesType ==
  /\ files \in [Files -> Configs \cup {Torn, Absent}]
  /\ kept \in [ConfigIds -> Configs \cup {Absent}]

KeptIsStored ==
  \A i \in ConfigIds : Alone(i) /\ kept[i] # Absent => files[FileOf[i]] = kept[i] /\ kept[i].id = i

ShownIsStored ==
  /\ shown.call \in {"none", "list", "json", "file"}
  /\ shown.call # "json" => shown.json = {}
  /\ shown.call = "list" => shown.list = {c.id : c \in LoadAllConfigs}
  /\ \A i \in ConfigIds : shown.id = i =>
       /\ shown.call = "json" => shown.json = AsJson(i)
       /\ shown.call = "file" => shown.raw = AsFile(i)
  /\ shown.json \subseteq Configs

ConfigsInv == FilesType /\ KeptIsStored /\ ShownIsStored

LEMMA ConfigsInitInv == ConfigsInit => ConfigsInv
  BY ConfigConstants DEF ConfigsInit, ConfigsInv, FilesType, KeptIsStored, ShownIsStored, NoAnswer

LEMMA SetAppConfigStep ==
  ASSUME ConfigsInv, NEW i \in ConfigIds, SetAppConfig(i)
  PROVE  ConfigsInv'
  <1>1. PICK cfg \in Configs, left \in Configs \cup {Torn, Absent} :
           /\ cfg.id = i
           /\ files' = [files EXCEPT ![FileOf[i]] = left]
           /\ \/ left = cfg /\ kept' = [kept EXCEPT ![i] = cfg]
              \/ kept' = [kept EXCEPT ![i] = Absent]
    BY ConfigConstants DEF SetAppConfig, Forget, ConfigsInv, FilesType
  <1>2. FilesType'
    BY <1>1, ConfigConstants DEF ConfigsInv, FilesType
  <1>3. KeptIsStored'
    BY <1>1, ConfigConstants DEF ConfigsInv, FilesType, KeptIsStored, Alone
  <1>4. ShownIsStored'
    BY DEF SetAppConfig, NoAnswer, ShownIsStored
  <1> QED
    BY <1>2, <1>3, <1>4 DEF ConfigsInv

LEMMA DeleteAppConfigsStep ==
  ASSUME ConfigsInv, NEW i \in ConfigIds, DeleteAppConfigs(i)
  PROVE  ConfigsInv'
  <1>1. /\ kept' = [kept EXCEPT ![i] = Absent]
        /\ files' = [files EXCEPT ![FileOf[i]] = Absent] \/ files' = files
    BY DEF DeleteAppConfigs, Forget
  <1>2. FilesType'
    BY <1>1, ConfigConstants DEF ConfigsInv, FilesType
  <1>3. KeptIsStored'
    BY <1>1, ConfigConstants DEF ConfigsInv, FilesType, KeptIsStored, Alone
  <1>4. ShownIsStored'
    BY DEF DeleteAppConfigs, NoAnswer, ShownIsStored
  <1> QED
    BY <1>2, <1>3, <1>4 DEF ConfigsInv

LEMMA ReadingStep ==
  ASSUME ConfigsInv,
         GetAppConfigs \/ \E i \in ConfigIds : GetAppConfigDetailsAsJson(i) \/ GetAppConfigDetailsAsFile(i)
  PROVE  ConfigsInv'
  <1>1. UNCHANGED <<files, kept>>
    BY DEF GetAppConfigs, GetAppConfigDetailsAsJson, GetAppConfigDetailsAsFile
  <1>2. FilesType' /\ KeptIsStored'
    BY <1>1 DEF ConfigsInv, FilesType, KeptIsStored
  <1>3. LoadAllConfigs' = LoadAllConfigs /\ \A i : AsJson(i)' = AsJson(i) /\ AsFile(i)' = AsFile(i)
    BY <1>1 DEF LoadAllConfigs, Readable, Stored, AsJson, AsFile
  <1>4. \A i \in ConfigIds : AsJson(i) \subseteq Configs
    BY ConfigConstants DEF AsJson, ConfigsInv, FilesType
  <1>5. ShownIsStored'
    BY <1>3, <1>4 DEF GetAppConfigs, GetAppConfigDetailsAsJson, GetAppConfigDetailsAsFile,
       NoAnswer, ShownIsStored
  <1> QED
    BY <1>2, <1>5 DEF ConfigsInv

LEMMA ConfigsStep == ConfigsInv /\ [ConfigsNext]_configVars => ConfigsInv'
  <1> SUFFICES ASSUME ConfigsInv, [ConfigsNext]_configVars PROVE ConfigsInv'
    OBVIOUS
  <1>1. CASE UNCHANGED configVars
    BY <1>1 DEF configVars, ConfigsInv, FilesType, KeptIsStored, ShownIsStored, LoadAllConfigs,
       Readable, Stored, AsJson, AsFile
  <1> QED
    BY <1>1, SetAppConfigStep, DeleteAppConfigsStep, ReadingStep DEF ConfigsNext

LEMMA ConfigsInvariant == ConfigsSpec => []ConfigsInv
  BY ConfigsInitInv, ConfigsStep, PTL DEF ConfigsSpec

\* A configuration file holds a configuration, a torn write or nothing, and an
\* answer shows configurations only (SetAppConfig, GetAppConfigDetailsAsJson).
THEOREM ConfigsTyping == ConfigsSpec => []ConfigsTypeOK
  <1>1. ConfigsInv => ConfigsTypeOK
    BY DEF ConfigsInv, FilesType, ShownIsStored, ConfigsTypeOK
  <1> QED
    BY <1>1, ConfigsInvariant, PTL

\* What was saved with a success is what is read and listed until something is
\* done to that id, whatever became of other files (SetAppConfig, GetAppConfigs).
THEOREM SavedConfigs == ConfigsSpec => []SavedIsRead
  <1>1. ConfigsInv => SavedIsRead
    <2> SUFFICES ASSUME ConfigsInv, NEW i \in ConfigIds, Alone(i), kept[i] # Absent
                 PROVE  /\ shown.call = "json" /\ shown.id = i => shown.json = {kept[i]}
                        /\ shown.call = "file" /\ shown.id = i => shown.raw = kept[i]
                        /\ shown.call = "list" => i \in shown.list
      BY DEF SavedIsRead
    <2>1. /\ files[FileOf[i]] = kept[i] /\ kept[i].id = i
          /\ kept[i] \in Configs /\ kept[i] # Torn /\ FileOf[i] \in Files
      BY ConfigConstants, NoSuchConfigs DEF ConfigsInv, KeptIsStored, FilesType
    <2>2. kept[i] \in LoadAllConfigs
      BY <2>1 DEF LoadAllConfigs, Readable, Stored
    <2> QED
      BY <2>1, <2>2 DEF ConfigsInv, ShownIsStored, AsJson, AsFile
  <1> QED
    BY <1>1, ConfigsInvariant, PTL

-----------------------------------------------------------------------------
(***************************************************************************)
(* Shares.  What a request knows to have been there all the time is still  *)
(* there (KnownShared), since every change of a share takes it from what   *)
(* the requests know; an answer told the truth of those (TrueAnswer).  A   *)
(* share may allow anything: its grantee is shown what the permissions     *)
(* tell (Honest), which is no more than the share if the service made it.  *)
(***************************************************************************)
Perms == {"cmis:all", "cmis:read", "cmis:write"}

Told == [who : {Principal(g) : g \in Grantees}, perms : SUBSET Perms]

Jobs ==
  [at : {"free", "stat", "find", "remove", "add", "restat", "list", "done"},
   op : {"none", "get", "apply", "grant"}, remove : Seq(Grantees), add : Seq(Entries),
   listed : SUBSET Grantees, gone : SUBSET Grantees, owner : SUBSET Grantees,
   answer : SUBSET Told, clean : BOOLEAN, known : SUBSET Grantees]

\* What is known where a request stands.
Placed(j) ==
  /\ j.gone \subseteq j.listed
  /\ j.at \in {"find", "remove"} => j.remove # <<>>
  /\ j.at = "remove" => j.listed # {} /\ \A g \in j.listed : Principal(g) = Principal(Head(j.remove))
  /\ j.at = "add" => j.add # <<>>
  /\ j.at # "done" => j.answer = {}

KnownShared(j, sh) == \A g \in j.known : sh[g] # {}

\* What the permissions shown may say of what the share allows.
Honest(perms, p) ==
  /\ p \in Granted => UNION {CmisPermToCS3(x) : x \in perms} \subseteq p
  /\ "cmis:all" \in perms => SignsOfAll \subseteq p
  /\ "cmis:write" \in perms => SignsOfWrite \cap p # {}

TrueAnswer(j, sh) ==
  /\ j.at = "done" /\ j.clean =>
       \A g \in j.known : [who |-> Principal(g), perms |-> SharePermsToCMIS(UNION sh[g])] \in j.answer
  /\ \A a \in j.answer \ {OwnerACE(o) : o \in j.owner}, g \in j.known :
       a.who = Principal(g) => Honest(a.perms, UNION sh[g])

JobOK(j, sh) == j \in Jobs /\ Placed(j) /\ KnownShared(j, sh) /\ TrueAnswer(j, sh)

AllShares == [Grantees -> NoneOr(Foreign \cup Granted)]

SharesInv ==
  /\ shares \in AllShares
  /\ failures \in 0..MaxFailures /\ foreign \in 0..MaxForeign
  /\ acl \in [Callers -> Jobs]
  /\ \A c \in Callers : JobOK(acl[c], shares)

\* A group and a user of one name are two principals.
LEMMA PrincipalsDiffer ==
  ASSUME NEW g \in Grantees, NEW h \in Grantees, Principal(g) = Principal(h)
  PROVE  g = h
  BY DEF Grantees, Principal

LEMMA RolePerms ==
  ASSUME NEW x
  PROVE  CmisPermToCS3(x) \in Granted /\ RoleToPermissions(x) \in Granted
  BY DEF CmisPermToCS3, RoleToPermissions, Granted

\* What is told of a share is honest, and of the service's own no more than it allows.
LEMMA ToldIsHonest == \A p : Honest(SharePermsToCMIS(p), p)
  <1> SUFFICES ASSUME NEW p PROVE Honest(SharePermsToCMIS(p), p)
    OBVIOUS
  <1>1. /\ "cmis:all" \in SharePermsToCMIS(p) => SignsOfAll \subseteq p
        /\ "cmis:write" \in SharePermsToCMIS(p) => SignsOfWrite \cap p # {}
    BY DEF SharePermsToCMIS
  <1>2. ASSUME p \in Granted, NEW x \in SharePermsToCMIS(p) PROVE CmisPermToCS3(x) \subseteq p
    <2>1. x \in Perms
      BY <1>2 DEF SharePermsToCMIS, Perms
    <2>2. Viewing \subseteq p
      BY <1>2 DEF Granted, CmisPermToCS3, RoleToPermissions, Editing
    <2>3. x = "cmis:write" => Editing \subseteq p
      <3>1. \A r : CmisPermToCS3(r) \in {Viewing, Editing, CmisPermToCS3("cmis:all")}
                     /\ RoleToPermissions(r) \in {Viewing, Editing \cup {"Delete"}, RoleToPermissions("manager")}
        BY DEF CmisPermToCS3, RoleToPermissions
      <3>2. Editing \subseteq CmisPermToCS3("cmis:all") /\ Editing \subseteq RoleToPermissions("manager")
        BY DEF CmisPermToCS3, RoleToPermissions
      <3>3. p = Viewing \/ Editing \subseteq p
        BY <1>2, <3>1, <3>2 DEF Granted
      <3>4. SignsOfWrite \cap Viewing = {}
        BY DEF SignsOfWrite, Viewing
      <3> QED
        BY <1>1, <1>2, <3>3, <3>4
    <2>4. x = "cmis:all" => CmisPermToCS3("cmis:all") \subseteq p
      <3>1. x = "cmis:all" => "AddGrant" \in p
        BY <1>1, <1>2 DEF SignsOfAll
      <3> QED
        BY <1>2, <3>1 DEF Granted, CmisPermToCS3, RoleToPermissions, Editing, Viewing
    <2> QED
      BY <2>1, <2>2, <2>3, <2>4 DEF Perms, CmisPermToCS3
  <1> QED
    BY <1>1, <1>2 DEF Honest

LEMMA FreeOK ==
  /\ \A sh : JobOK(Free, sh) /\ JobOK(Unclean(Free), sh)
  /\ \A K \in SUBSET Grantees : [Free EXCEPT !.known = K] \in Jobs
  <1>1. <<>> \in Seq(Grantees) /\ <<>> \in Seq(Entries)
    OBVIOUS
  <1>2. Free \in Jobs /\ Unclean(Free) \in Jobs
    BY <1>1 DEF Free, Unclean, Jobs
  <1>3. ASSUME NEW j \in {Free, Unclean(Free)}, NEW sh
        PROVE  Placed(j) /\ KnownShared(j, sh) /\ TrueAnswer(j, sh)
    <2>1. j.at = "free" /\ j.known = {} /\ j.answer = {} /\ j.gone = {}
      BY <1>3 DEF Free, Unclean
    <2> QED
      BY <2>1 DEF Placed, KnownShared, TrueAnswer
  <1>4. \A K \in SUBSET Grantees : [Free EXCEPT !.known = K] \in Jobs
    BY <1>2 DEF Jobs
  <1> QED
    BY <1>2, <1>3, <1>4 DEF JobOK

\* What comes next is possible.
LEMMA NextStepOK ==
  ASSUME NEW j \in Jobs, j.answer = {}, j.gone \subseteq j.listed
  PROVE  /\ NextStep(j) \in Jobs /\ Placed(NextStep(j))
         /\ NextStep(j).at \in {"find", "add", "restat"} /\ NextStep(j).answer = {}
         /\ NextStep(j).known = j.known
         /\ NextStep(j).remove = j.remove /\ NextStep(j).add = j.add
  BY DEF NextStep, Jobs, Placed

\* A failure changes nothing else of a request.
LEMMA FailsOK ==
  ASSUME NEW sh, NEW j, JobOK(j, sh) PROVE JobOK(Unclean(j), sh)
  <1>1. /\ Unclean(j) \in Jobs /\ ~Unclean(j).clean
        /\ Unclean(j).at = j.at /\ Unclean(j).remove = j.remove /\ Unclean(j).add = j.add
        /\ Unclean(j).listed = j.listed /\ Unclean(j).gone = j.gone /\ Unclean(j).owner = j.owner
        /\ Unclean(j).answer = j.answer /\ Unclean(j).known = j.known
    BY DEF JobOK, Jobs, Unclean
  <1> QED
    BY <1>1 DEF JobOK, Placed, KnownShared, TrueAnswer

\* A step that only moves a request on.
LEMMA MovesOn ==
  ASSUME SharesInv, NEW c \in Callers, NEW j, JobOK(j, shares), Goes(c, j)
  PROVE  SharesInv'
  BY DEF SharesInv, JobOK, Goes

\* A step that reads, or fails to.
LEMMA ReadsOn ==
  ASSUME SharesInv, NEW c \in Callers, NEW j, NEW k, JobOK(j, shares), JobOK(Unclean(k), shares),
         Asks(c, j, k)
  PROVE  SharesInv'
  <1>1. CASE Goes(c, j)
    BY <1>1, MovesOn
  <1>2. CASE ~Goes(c, j)
    <2>1. /\ failures < MaxFailures /\ failures' = failures + 1
          /\ acl' = [acl EXCEPT ![c] = Unclean(k)] /\ UNCHANGED <<shares, foreign>>
      BY <1>2 DEF Asks
    <2> QED
      BY <2>1, FailureBound DEF SharesInv, JobOK
  <1> QED
    BY <1>1, <1>2

\* What the others, and the request itself, know when shares change.
LEMMA SeenOK ==
  ASSUME SharesInv, NEW d \in Callers
  PROVE  /\ Seen[d] \in Jobs /\ JobOK(Seen[d], shares')
         /\ \A g \in Seen[d].known : shares'[g] = shares[g] /\ shares[g] # {}
  <1> DEFINE K == acl[d].known \cap {g \in Shared : shares'[g] = shares[g]}
             G == acl[d].gone \cup {g \in acl[d].listed : shares[g] # {} /\ shares'[g] = {}}
             i == Seen[d]
  <1>1. JobOK(acl[d], shares) /\ acl[d] \in Jobs /\ K \subseteq acl[d].known /\ K \in SUBSET Grantees
    BY DEF SharesInv, JobOK, Jobs
  <1>2. G \subseteq acl[d].listed /\ G \in SUBSET Grantees
    BY <1>1 DEF JobOK, Placed, Jobs
  <1>3. i = [acl[d] EXCEPT !.gone = G, !.known = K]
    BY DEF Seen
  <1>4. \A g \in K : shares'[g] = shares[g] /\ shares[g] # {}
    BY DEF Shared
  <1> HIDE DEF i, K, G
  <1>5. /\ i \in Jobs /\ i.gone = G /\ i.known = K
        /\ i.at = acl[d].at /\ i.clean = acl[d].clean /\ i.answer = acl[d].answer
        /\ i.owner = acl[d].owner /\ i.listed = acl[d].listed
        /\ i.remove = acl[d].remove /\ i.add = acl[d].add
    BY <1>1, <1>2, <1>3 DEF Jobs
  <1>6. Placed(i)
    BY <1>1, <1>2, <1>5 DEF JobOK, Placed
  <1>7. KnownShared(i, shares')
    BY <1>4, <1>5 DEF KnownShared
  <1>8. TrueAnswer(i, shares')
    BY <1>1, <1>4, <1>5 DEF JobOK, TrueAnswer
  <1> QED
    BY <1>4, <1>5, <1>6, <1>7, <1>8 DEF JobOK, i

\* A request that goes on while shares change, told nothing so far.
LEMMA GoesOnOK ==
  ASSUME SharesInv, NEW c \in Callers, NEW j \in Jobs, Placed(j), j.at # "done"
  PROVE  JobOK([j EXCEPT !.known = Seen[c].known], shares')
  <1> DEFINE K == Seen[c].known
             i == [j EXCEPT !.known = K]
  <1>1. K \in SUBSET Grantees /\ \A g \in K : shares'[g] # {}
    BY SeenOK DEF Jobs
  <1> HIDE DEF K
  <1>2. /\ i \in Jobs /\ i.known = K /\ i.at = j.at /\ i.answer = {} /\ i.gone = j.gone
        /\ i.listed = j.listed /\ i.remove = j.remove /\ i.add = j.add
    BY <1>1 DEF Jobs, Placed
  <1> HIDE DEF i
  <1>3. Placed(i) /\ KnownShared(i, shares') /\ TrueAnswer(i, shares')
    BY <1>1, <1>2 DEF Placed, KnownShared, TrueAnswer
  <1> QED
    BY <1>2, <1>3 DEF JobOK, i, K

\* Whether a request was without failures is none of its place.
LEMMA FailedPlace ==
  ASSUME NEW j \in Jobs, Placed(j)
  PROVE  Unclean(j) \in Jobs /\ Placed(Unclean(j)) /\ Unclean(j).at = j.at
  BY DEF Unclean, Jobs, Placed

\* A step that changes a share.
LEMMA ChangesOne ==
  ASSUME SharesInv, NEW c \in Callers, NEW to \in AllShares,
         NEW j \in Jobs, Placed(j), j.at # "done", Changes(c, to, j)
  PROVE  SharesInv'
  <1>1. shares' \in AllShares /\ failures' \in 0..MaxFailures /\ foreign' \in 0..MaxForeign
    BY FailureBound DEF SharesInv, Changes
  <1>2. PICK k \in {j, Unclean(j)} : acl' = [Seen EXCEPT ![c] = [k EXCEPT !.known = Seen[c].known]]
    BY DEF Changes
  <1>3. JobOK([k EXCEPT !.known = Seen[c].known], shares')
    BY <1>2, FailedPlace, GoesOnOK
  <1>4. ASSUME NEW d \in Callers PROVE JobOK(acl'[d], shares') /\ acl'[d] \in Jobs
    <2>1. CASE d = c
      BY <1>2, <1>3, <2>1 DEF Seen, JobOK
    <2>2. CASE d # c
      BY <1>2, <2>2, SeenOK DEF Seen
    <2> QED
      BY <2>1, <2>2
  <1>5. acl' = [d \in Callers |-> acl'[d]]
    <2>1. DOMAIN Seen = Callers
      BY DEF Seen
    <2> QED
      BY <1>2, <2>1
  <1> QED
    BY <1>1, <1>4, <1>5 DEF SharesInv

LEMMA SharesInitInv == SharesInit => SharesInv
  <1>1. SharesInit => shares \in AllShares
    BY DEF SharesInit, AllShares, NoneOr
  <1> QED
    BY <1>1, FailureBound, FreeOK DEF SharesInit, SharesInv, JobOK

LEMMA ForeignStep ==
  ASSUME SharesInv, ForeignChange PROVE SharesInv'
  <1>1. PICK g \in Grantees, p \in NoneOr(Foreign) : shares' = [shares EXCEPT ![g] = p]
    BY DEF ForeignChange
  <1>2. p \in NoneOr(Foreign \cup Granted)
    BY DEF NoneOr
  <1>3. shares' \in AllShares
    BY <1>1, <1>2 DEF SharesInv, AllShares
  <1>4. failures' \in 0..MaxFailures /\ foreign' \in 0..MaxForeign
    BY FailureBound DEF ForeignChange, SharesInv
  <1>5. \A d \in Callers : acl'[d] \in Jobs /\ JobOK(acl'[d], shares')
    BY SeenOK DEF ForeignChange
  <1>6. acl' = [d \in Callers |-> acl'[d]]
    BY DEF ForeignChange, Seen
  <1> QED
    BY <1>3, <1>4, <1>5, <1>6 DEF SharesInv

LEMMA BeginStep ==
  ASSUME SharesInv, NEW c \in Callers, Begin(c) PROVE SharesInv'
  <1>1. PICK w \in Wanted :
           Goes(c, [Free EXCEPT !.at = IF w.op = "grant" THEN "add" ELSE "stat", !.op = w.op,
                                !.remove = w.remove, !.add = w.add, !.known = Shared])
    BY DEF Begin
  <1> DEFINE j == [Free EXCEPT !.at = IF w.op = "grant" THEN "add" ELSE "stat", !.op = w.op,
                               !.remove = w.remove, !.add = w.add, !.known = Shared]
  <1>2. j \in Jobs /\ j.answer = {} /\ j.known = Shared /\ j.at \in {"add", "stat"} /\ j.gone = {}
          /\ (j.at = "add" => j.add # <<>>)
    BY WantedRequests, FreeOK DEF JobOK, Jobs, Free, Shared
  <1> HIDE DEF j
  <1>3. JobOK(j, shares)
    BY <1>2 DEF JobOK, Placed, KnownShared, TrueAnswer, Shared
  <1> QED
    BY <1>1, <1>3, MovesOn DEF j

\* A request on its way, told nothing so far, may stand anywhere that is possible.
LEMMA Onward ==
  ASSUME SharesInv, NEW c \in Callers, NEW j \in Jobs, Placed(j), j.at # "done",
         j.known = acl[c].known
  PROVE  JobOK(j, shares) /\ JobOK(Unclean(j), shares)
  <1>1. JobOK(j, shares)
    BY DEF SharesInv, JobOK, Placed, KnownShared, TrueAnswer
  <1> QED
    BY <1>1, FailsOK

LEMMA AclStatStep ==
  ASSUME SharesInv, NEW c \in Callers, AclStat(c) PROVE SharesInv'
  <1> DEFINE j == acl[c]
  <1>1. j \in Jobs /\ j.answer = {} /\ j.gone \subseteq j.listed
    BY DEF AclStat, SharesInv, JobOK, Placed
  <1>2. ASSUME NEW o \in Owners PROVE JobOK([j EXCEPT !.at = "list", !.owner = o], shares)
    <2> DEFINE listing == [j EXCEPT !.at = "list", !.owner = o]
    <2>0. o \in SUBSET Grantees
      BY DEF Owners, NoneOr, Grantee, Grantees
    <2>1. listing \in Jobs /\ Placed(listing) /\ listing.known = j.known /\ listing.at # "done"
      BY <1>1, <2>0 DEF Jobs, Placed
    <2> QED
      BY <2>1, Onward
  <1>3. JobOK(NextStep(j), shares)
    BY <1>1, NextStepOK, Onward
  <1> QED
    BY <1>2, <1>3, FreeOK, ReadsOn DEF AclStat

\* One principal or one entry fewer.
LEMMA Shorter ==
  ASSUME NEW j \in Jobs, j.answer = {}, j.gone \subseteq j.listed
  PROVE  /\ j.remove # <<>> => [j EXCEPT !.remove = Tail(@)] \in Jobs
                                 /\ [j EXCEPT !.remove = Tail(@)].answer = {}
                                 /\ [j EXCEPT !.remove = Tail(@)].gone
                                      \subseteq [j EXCEPT !.remove = Tail(@)].listed
         /\ j.add # <<>> => [j EXCEPT !.add = Tail(@)] \in Jobs
                              /\ [j EXCEPT !.add = Tail(@)].answer = {}
                              /\ [j EXCEPT !.add = Tail(@)].gone \subseteq [j EXCEPT !.add = Tail(@)].listed
  <1>1. j.remove # <<>> => Tail(j.remove) \in Seq(Grantees)
    BY DEF Jobs
  <1>2. j.add # <<>> => Tail(j.add) \in Seq(Entries)
    BY DEF Jobs
  <1> QED
    BY <1>1, <1>2 DEF Jobs

LEMMA FindShareStep ==
  ASSUME SharesInv, NEW c \in Callers, FindShare(c) PROVE SharesInv'
  <1> DEFINE j == acl[c]
             rest == [j EXCEPT !.remove = Tail(@)]
             found == [j EXCEPT !.at = "remove", !.listed = Matching(Head(j.remove)), !.gone = {}]
  <1>1. j \in Jobs /\ j.answer = {} /\ j.remove # <<>> /\ j.gone \subseteq j.listed
    BY DEF FindShare, SharesInv, JobOK, Placed
  <1>2. JobOK(NextStep(rest), shares) /\ JobOK(Unclean(NextStep(rest)), shares)
    <2>1. rest \in Jobs /\ rest.answer = {} /\ rest.known = j.known /\ rest.gone \subseteq rest.listed
      BY <1>1, Shorter DEF Jobs
    <2> HIDE DEF rest
    <2>2. /\ NextStep(rest) \in Jobs /\ Placed(NextStep(rest)) /\ NextStep(rest).at # "done"
          /\ NextStep(rest).known = j.known
      BY <2>1, NextStepOK
    <2> QED
      BY <2>2, Onward
  <1>3. Matching(Head(j.remove)) # {} => JobOK(found, shares)
    <2>1. Matching(Head(j.remove)) \subseteq Grantees
            /\ \A g \in Matching(Head(j.remove)) : Principal(g) = Principal(Head(j.remove))
      BY DEF Matching, Shared
    <2>2. found \in Jobs /\ found.at = "remove" /\ found.answer = {} /\ found.known = j.known
            /\ found.remove = j.remove /\ found.listed = Matching(Head(j.remove)) /\ found.gone = {}
      BY <1>1, <2>1 DEF Jobs
    <2> HIDE DEF found
    <2>3. Matching(Head(j.remove)) # {} => Placed(found)
      BY <1>1, <2>1, <2>2 DEF Placed
    <2> QED
      BY <2>2, <2>3, Onward
  <1> HIDE DEF rest, found
  <1>4. Asks(c, IF Matching(Head(j.remove)) = {} THEN NextStep(rest) ELSE found, NextStep(rest))
    BY DEF FindShare, rest, found
  <1> QED
    BY <1>2, <1>3, <1>4, ReadsOn

\* After a removal the list is shorter, or the request goes on.
LEMMA AfterRemoveOK ==
  ASSUME NEW j \in Jobs, Placed(j), j.at = "remove", NEW g \in j.listed
  PROVE  LET then == AfterRemove(j, g)
         IN  /\ then \in Jobs /\ Placed(then) /\ then.at # "done"
             /\ then.at # "remove" \/ then.listed # j.listed
  <1> DEFINE less == [j EXCEPT !.listed = @ \ {g}, !.gone = @ \ {g}]
             then == AfterRemove(j, g)
  <1>1. /\ less \in Jobs /\ less.answer = {} /\ less.gone \subseteq less.listed
        /\ less.remove = j.remove /\ less.listed = j.listed \ {g} /\ j.remove # <<>>
        /\ less.at = "remove"
    BY DEF Jobs, Placed
  <1>2. then = IF less.listed = {} THEN NextStep([less EXCEPT !.remove = Tail(@)]) ELSE less
    BY DEF AfterRemove
  <1> HIDE DEF less, then
  <1>3. CASE less.listed = {}
    <2> DEFINE rest == [less EXCEPT !.remove = Tail(@)]
    <2>1. rest \in Jobs /\ rest.answer = {} /\ rest.gone \subseteq rest.listed
      BY <1>1, Shorter DEF Jobs
    <2>2. then = NextStep(rest)
      BY <1>2, <1>3
    <2> HIDE DEF rest
    <2>3. then \in Jobs /\ Placed(then) /\ then.at \in {"find", "add", "restat"}
      BY <2>1, <2>2, NextStepOK
    <2> QED
      BY <2>3 DEF then
  <1>4. CASE less.listed # {}
    <2>1. then = less
      BY <1>2, <1>4
    <2>2. Placed(less)
      BY <1>1, <1>4 DEF Placed
    <2> QED
      BY <1>1, <2>1, <2>2 DEF then
  <1> QED
    BY <1>3, <1>4

LEMMA RemoveShareStep ==
  ASSUME SharesInv, NEW c \in Callers, RemoveShare(c) PROVE SharesInv'
  <1> DEFINE j == acl[c]
  <1>1. j \in Jobs /\ Placed(j) /\ j.at = "remove"
    BY DEF RemoveShare, SharesInv, JobOK
  <1>2. PICK g \in j.listed :
          Changes(c, IF g \in j.gone THEN shares ELSE [shares EXCEPT ![g] = {}], AfterRemove(j, g))
    BY DEF RemoveShare
  <1>3. (IF g \in j.gone THEN shares ELSE [shares EXCEPT ![g] = {}]) \in AllShares
    BY <1>1 DEF Jobs, SharesInv, AllShares, NoneOr
  <1> QED
    BY <1>1, <1>2, <1>3, AfterRemoveOK, ChangesOne

LEMMA CreateShareStep ==
  ASSUME SharesInv, NEW c \in Callers, NEW perms \in Granted, CreateShareAs(c, perms)
  PROVE  SharesInv'
  <1> DEFINE j == acl[c]
             rest == [j EXCEPT !.add = Tail(@)]
             then == IF j.op = "grant" THEN Free ELSE NextStep(rest)
             g == Head(j.add).who
             to == IF shares[g] = {} THEN [shares EXCEPT ![g] = {perms}] ELSE shares
  <1>1. j \in Jobs /\ j.answer = {} /\ j.add # <<>> /\ j.gone \subseteq j.listed
    BY DEF CreateShareAs, SharesInv, JobOK, Placed
  <1>2. rest \in Jobs /\ rest.answer = {} /\ rest.gone \subseteq rest.listed
    BY <1>1, Shorter DEF Jobs
  <1>3. then \in Jobs /\ Placed(then) /\ then.at # "done"
    <2> HIDE DEF rest
    <2>1. NextStep(rest) \in Jobs /\ Placed(NextStep(rest)) /\ NextStep(rest).at # "done"
      BY <1>2, NextStepOK
    <2>2. Free.at # "done"
      BY DEF Free
    <2> QED
      BY <2>1, <2>2, FreeOK DEF JobOK
  <1>4. g \in Grantees
    <2>1. Head(j.add) \in Entries
      BY <1>1 DEF Jobs
    <2> QED
      BY <2>1 DEF Entries
  <1>5. to \in AllShares
    <2>1. {perms} \in NoneOr(Foreign \cup Granted)
      BY DEF NoneOr
    <2> QED
      BY <1>4, <2>1 DEF SharesInv, AllShares
  <1>6. Changes(c, to, then)
    BY DEF CreateShareAs
  <1> HIDE DEF then, to
  <1> QED
    BY <1>3, <1>5, <1>6, ChangesOne

\* What the storage has at the moment of the listing is what is told.
LEMMA ListSharesStep ==
  ASSUME SharesInv, NEW c \in Callers, ListShares(c) PROVE SharesInv'
  <1> DEFINE j == acl[c]
             owns == {OwnerACE(o) : o \in j.owner}
             told == [j EXCEPT !.at = "done", !.answer = Aces(j.owner)]
             otherwise == [j EXCEPT !.at = "done", !.answer = owns]
  <1>1. j \in Jobs /\ KnownShared(j, shares) /\ j.gone \subseteq j.listed
          /\ Asks(c, told, otherwise)
    BY DEF ListShares, SharesInv, JobOK, Placed
  <1>2. owns \in SUBSET Told
    BY <1>1 DEF OwnerACE, Told, Jobs, Perms
  <1>3. /\ Aces(j.owner) \in SUBSET Told
        /\ \A a \in Aces(j.owner) \ owns :
             \E g \in Shared : a = [who |-> Principal(g), perms |-> SharePermsToCMIS(UNION shares[g])]
        /\ \A g \in Shared :
             [who |-> Principal(g), perms |-> SharePermsToCMIS(UNION shares[g])] \in Aces(j.owner)
    <2>1. \A g \in Shared :
            ShareToACE(g) = [who |-> Principal(g), perms |-> SharePermsToCMIS(UNION shares[g])]
      BY DEF ShareToACE, May
    <2>2. \A g \in Shared : ShareToACE(g) \in Told
      <3>1. \A p : SharePermsToCMIS(p) \in SUBSET Perms
        BY DEF SharePermsToCMIS, Perms
      <3> DEFINE Whos == {Principal(h) : h \in Grantees}
      <3>2. \A g \in Shared : Principal(g) \in Whos
        BY DEF Shared
      <3>3. Told = [who : Whos, perms : SUBSET Perms]
        BY DEF Told
      <3>4. \A g \in Shared : ShareToACE(g) \in [who : Whos, perms : SUBSET Perms]
        <4> SUFFICES ASSUME NEW g \in Shared PROVE ShareToACE(g) \in [who : Whos, perms : SUBSET Perms]
          OBVIOUS
        <4> DEFINE w == Principal(g)
                   p == SharePermsToCMIS(UNION shares[g])
        <4>1. ShareToACE(g) = [who |-> w, perms |-> p] /\ w \in Whos /\ p \in SUBSET Perms
          BY <2>1, <3>1, <3>2
        <4> HIDE DEF Whos, w, p
        <4> QED
          BY <4>1
      <3> QED
        BY <3>3, <3>4
    <2>3. Aces(j.owner) = owns \cup {ShareToACE(g) : g \in Shared}
      BY DEF Aces
    <2> HIDE DEF owns
    <2> QED
      BY <1>2, <2>1, <2>2, <2>3
  <1> HIDE DEF owns
  <1>4. JobOK(told, shares)
    <2>1. /\ told \in Jobs /\ told.at = "done" /\ told.answer = Aces(j.owner)
          /\ told.known = j.known /\ told.owner = j.owner
          /\ told.gone = j.gone /\ told.listed = j.listed
      BY <1>1, <1>3 DEF Jobs
    <2> HIDE DEF told
    <2>2. Placed(told) /\ KnownShared(told, shares)
      BY <1>1, <2>1 DEF Placed, KnownShared
    <2>3. j.known \subseteq Shared
      BY <1>1 DEF KnownShared, Jobs, Shared
    <2>4. ASSUME NEW a \in Aces(j.owner) \ owns, NEW g \in j.known, a.who = Principal(g)
          PROVE  Honest(a.perms, UNION shares[g])
      <3>1. PICK h \in Shared : a = [who |-> Principal(h), perms |-> SharePermsToCMIS(UNION shares[h])]
        BY <1>3
      <3>2. g = h
        BY <2>3, <2>4, <3>1, PrincipalsDiffer DEF Shared
      <3> QED
        BY <3>1, <3>2, ToldIsHonest
    <2> QED
      BY <1>3, <2>1, <2>2, <2>3, <2>4 DEF JobOK, TrueAnswer, owns
  <1>5. JobOK(Unclean(otherwise), shares)
    <2> DEFINE f == Unclean(otherwise)
    <2>1. /\ f \in Jobs /\ f.at = "done" /\ ~f.clean /\ f.answer = owns
          /\ f.known = j.known /\ f.owner = j.owner /\ f.gone = j.gone /\ f.listed = j.listed
      BY <1>1, <1>2 DEF Jobs, Unclean
    <2> HIDE DEF f
    <2>2. Placed(f) /\ KnownShared(f, shares)
      BY <1>1, <2>1 DEF Placed, KnownShared
    <2>3. TrueAnswer(f, shares)
      BY <2>1 DEF TrueAnswer, owns
    <2> QED
      BY <2>1, <2>2, <2>3 DEF JobOK, f
  <1> QED
    BY <1>1, <1>4, <1>5, ReadsOn

LEMMA SharesStep == SharesInv /\ [SharesNext]_shareVars => SharesInv'
  <1> SUFFICES ASSUME SharesInv, [SharesNext]_shareVars PROVE SharesInv'
    OBVIOUS
  <1>1. CASE UNCHANGED shareVars
    BY <1>1 DEF shareVars, SharesInv
  <1>2. ASSUME NEW c \in Callers, CreateShareForPrincipal(c) \/ GrantSpaceAccess(c) PROVE SharesInv'
    BY <1>2, RolePerms, CreateShareStep DEF CreateShareForPrincipal, GrantSpaceAccess
  <1>3. ASSUME NEW c \in Callers, Close(c) PROVE SharesInv'
    BY <1>3, FreeOK, MovesOn DEF Close
  <1> QED
    BY <1>1, <1>2, <1>3, ForeignStep, BeginStep, AclStatStep, FindShareStep, RemoveShareStep,
       ListSharesStep DEF SharesNext

LEMMA SharesInvariant == SharesSpec => []SharesInv
  BY SharesInitInv, SharesStep, PTL DEF SharesSpec

\* The state of the shares is well typed.
THEOREM SharesTyping == SharesSpec => []SharesTypeOK
  <1>1. SharesInv => SharesTypeOK
    BY DEF SharesInv, AllShares, JobOK, Jobs, Placed, SharesTypeOK
  <1> QED
    BY <1>1, SharesInvariant, PTL

\* Whatever other clients share, an answer of getACL or applyACL without otherwise
\* calls has every share that was there all the time, told by sharePermsToCMIS;
\* with or without failures it shows no grantee but the owner a role wider than a
\* share the service made, and of other clients' shares only what their
\* permissions are a sign of.
THEOREM TrueAcl == SharesSpec => []AclIsTrue
  <1>1. SharesInv => AclIsTrue
    BY DEF SharesInv, JobOK, TrueAnswer, Honest, AclIsTrue, AclShowsShares, AclShowsNoMore, ShareToACE, May
  <1> QED
    BY <1>1, SharesInvariant, PTL

\* Whoever changes a share names its grantee.
NamedBy(c, g) ==
  Moves(c) /\ g \in Members(acl[c].remove) \cup {e.who : e \in Members(acl[c].add)}

\* A request that stands elsewhere afterwards has moved.
LEMMA MovedOn ==
  ASSUME SharesInv, NEW c \in Callers, NEW to, NEW j \in Jobs, Changes(c, to, j),
         \/ j.at # acl[c].at \/ j.add # acl[c].add \/ j.listed # acl[c].listed
  PROVE  Moves(c)
  <1>1. PICK k \in {j, Unclean(j)} : acl' = [Seen EXCEPT ![c] = [k EXCEPT !.known = Seen[c].known]]
    BY DEF Changes
  <1>2. acl'[c] = [k EXCEPT !.known = Seen[c].known]
    BY <1>1 DEF Seen
  <1>3. /\ k \in [at : {"free", "stat", "find", "remove", "add", "restat", "list", "done"},
                  op : {"none", "get", "apply", "grant"}, remove : Seq(Grantees), add : Seq(Entries),
                  listed : SUBSET Grantees, gone : SUBSET Grantees, owner : SUBSET Grantees,
                  answer : SUBSET Told, clean : BOOLEAN, known : SUBSET Grantees]
        /\ k.at = j.at /\ k.add = j.add /\ k.listed = j.listed
    BY <1>1 DEF Unclean, Jobs
  <1> DEFINE x == [acl'[c] EXCEPT !.gone = {}, !.known = {}]
             y == [acl[c] EXCEPT !.gone = {}, !.known = {}]
  <1>4. x.at = j.at /\ x.add = j.add /\ x.listed = j.listed
    BY <1>2, <1>3
  <1>5. y.at = acl[c].at /\ y.add = acl[c].add /\ y.listed = acl[c].listed
    BY DEF SharesInv, Jobs
  <1> HIDE DEF x, y
  <1>6. x # y
    BY <1>4, <1>5
  <1> QED
    BY <1>6 DEF Moves, x, y

LEMMA RemovesNamed ==
  ASSUME SharesInv, NEW c \in Callers, RemoveShare(c), NEW g \in Grantees, shares'[g] # shares[g]
  PROVE  NamedBy(c, g)
  <1> DEFINE j == acl[c]
  <1>1. PICK h \in j.listed :
          Changes(c, IF h \in j.gone THEN shares ELSE [shares EXCEPT ![h] = {}], AfterRemove(j, h))
    BY DEF RemoveShare
  <1>2. j \in Jobs /\ Placed(j) /\ j.at = "remove" /\ j.remove # <<>>
    BY DEF RemoveShare, SharesInv, JobOK, Placed
  <1>3. h \in Grantees /\ g = h
    <2>1. shares' = shares \/ shares' = [shares EXCEPT ![h] = {}]
      BY <1>1 DEF Changes
    <2> QED
      BY <1>2, <2>1 DEF Jobs, SharesInv, AllShares
  <1>4. Head(j.remove) \in Grantees /\ 1 \in DOMAIN j.remove /\ Head(j.remove) = j.remove[1]
    BY <1>2 DEF Jobs
  <1>5. g \in Members(j.remove)
    <2>1. g = Head(j.remove)
      BY <1>1, <1>2, <1>3, <1>4, PrincipalsDiffer DEF Placed
    <2> QED
      BY <1>4, <2>1 DEF Members
  <1>6. Moves(c)
    <2> DEFINE then == AfterRemove(j, h)
    <2>1. then \in Jobs /\ (then.at # "remove" \/ then.listed # j.listed)
      BY <1>2, AfterRemoveOK
    <2> HIDE DEF then
    <2>2. PICK to : Changes(c, to, then)
      BY <1>1 DEF then
    <2> QED
      BY <1>2, <2>1, <2>2, MovedOn
  <1> QED
    BY <1>5, <1>6 DEF NamedBy

LEMMA CreatesNamed ==
  ASSUME SharesInv, NEW c \in Callers, NEW perms, CreateShareAs(c, perms),
         NEW g \in Grantees, shares'[g] # shares[g]
  PROVE  NamedBy(c, g)
  <1> DEFINE j == acl[c]
             rest == [j EXCEPT !.add = Tail(@)]
             then == IF j.op = "grant" THEN Free ELSE NextStep(rest)
             who == Head(j.add).who
             to == IF shares[who] = {} THEN [shares EXCEPT ![who] = {perms}] ELSE shares
  <1>1. j \in Jobs /\ j.answer = {} /\ j.add # <<>> /\ j.at = "add" /\ j.gone \subseteq j.listed
    BY DEF CreateShareAs, SharesInv, JobOK, Placed
  <1>2. Changes(c, to, then)
    BY DEF CreateShareAs
  <1>3. Head(j.add) \in Entries /\ 1 \in DOMAIN j.add /\ Head(j.add) = j.add[1] /\ Tail(j.add) # j.add
    <2>1. j.add \in Seq(Entries)
      BY <1>1 DEF Jobs
    <2> DEFINE a == j.add
    <2>2. a \in Seq(Entries) /\ a # <<>>
      BY <1>1, <2>1
    <2> HIDE DEF a
    <2>3. Head(a) \in Entries /\ 1 \in DOMAIN a /\ Head(a) = a[1] /\ Len(Tail(a)) # Len(a)
      BY <2>2
    <2> QED
      BY <2>3 DEF a
  <1>4. g = who
    <2>1. shares' = shares \/ shares' = [shares EXCEPT ![who] = {perms}]
      BY <1>2 DEF Changes
    <2> QED
      BY <2>1 DEF SharesInv, AllShares
  <1>5. g \in {e.who : e \in Members(j.add)}
    BY <1>3, <1>4 DEF Members
  <1>6. then \in Jobs /\ (then.at # "add" \/ then.add # j.add)
    <2>1. rest \in Jobs /\ rest.answer = {} /\ rest.add = Tail(j.add) /\ rest.gone \subseteq rest.listed
      BY <1>1, Shorter DEF Jobs
    <2> HIDE DEF rest
    <2>2. NextStep(rest) \in Jobs /\ NextStep(rest).add = Tail(j.add)
      BY <2>1, NextStepOK
    <2>3. Free \in Jobs /\ Free.at # "add"
      BY FreeOK DEF JobOK, Free
    <2> QED
      BY <1>3, <2>2, <2>3
  <1> HIDE DEF then, to
  <1>7. Moves(c)
    BY <1>1, <1>2, <1>6, MovedOn
  <1> QED
    BY <1>5, <1>7 DEF NamedBy

LEMMA ChangesNamed ==
  ASSUME SharesInv, [SharesNext]_shareVars, NEW g \in Grantees, shares'[g] # shares[g],
         foreign' = foreign
  PROVE  \E c \in Callers : NamedBy(c, g)
  <1>1. \A c \in Callers : Begin(c) \/ AclStat(c) \/ FindShare(c) \/ ListShares(c) \/ Close(c)
           => shares' = shares
    BY DEF Begin, AclStat, FindShare, ListShares, Close, Goes, Asks
  <1>2. ~ForeignChange
    BY FailureBound DEF ForeignChange, SharesInv
  <1>3. \E c \in Callers : RemoveShare(c) \/ CreateShareForPrincipal(c) \/ GrantSpaceAccess(c)
    BY <1>1, <1>2 DEF SharesNext, shareVars
  <1> QED
    BY <1>3, RemovesNamed, CreatesNamed DEF CreateShareForPrincipal, GrantSpaceAccess

\* The service changes a share only by a request that names its grantee, of its
\* type (removeShareByPrincipal, createShareForPrincipal, GrantSpaceAccess).
THEOREM NamedSharesOnly == SharesSpec => OnlyNamedShares
  <1>1. SharesInv /\ [SharesNext]_shareVars =>
          [\A g \in Grantees : shares'[g] # shares[g] /\ foreign' = foreign =>
             \E c \in Callers : Moves(c)
               /\ g \in Members(acl[c].remove) \cup {e.who : e \in Members(acl[c].add)}]_shareVars
    BY ChangesNamed DEF NamedBy
  <1> QED
    BY <1>1, SharesInvariant, PTL DEF SharesSpec, OnlyNamedShares

(***************************************************************************)
(* A function applied over and over.                                       *)
(***************************************************************************)
\* A function can be applied over and over.
Iterates(F, a, S, n) ==
  {g \in [0..n -> S] : g[0] = a /\ \A k \in 1..n : g[k] = F[g[k - 1]]}

LEMMA Iteration ==
  ASSUME NEW S, NEW F \in [S -> S], NEW a \in S, NEW n \in Nat
  PROVE  Iterates(F, a, S, n) # {}
  <1> DEFINE T == {k \in Nat : Iterates(F, a, S, k) # {}}
  <1>1. 0 \in T
    <2>1. [k \in 0..0 |-> a] \in Iterates(F, a, S, 0)
      BY DEF Iterates
    <2> QED
      BY <2>1
  <1>2. ASSUME NEW k \in Nat, k \in T PROVE k + 1 \in T
    <2>1. PICK g : g \in Iterates(F, a, S, k)
      BY <1>2
    <2>2. g \in [0..k -> S] /\ g[0] = a /\ \A i \in 1..k : g[i] = F[g[i - 1]]
      BY <2>1 DEF Iterates
    <2> DEFINE h == [i \in 0..(k + 1) |-> IF i = k + 1 THEN F[g[k]] ELSE g[i]]
    <2>3. g[k] \in S /\ F[g[k]] \in S
      BY <2>2
    <2>4. h \in [0..(k + 1) -> S] /\ h[0] = a
      BY <2>2, <2>3
    <2>5. ASSUME NEW i \in 1..(k + 1) PROVE h[i] = F[h[i - 1]]
      <3>1. CASE i = k + 1
        BY <3>1, <2>2
      <3>2. CASE i # k + 1
        <4>1. i \in 1..k /\ i - 1 \in 0..k /\ i - 1 # k + 1
          BY <3>2
        <4> QED
          BY <2>2, <4>1, <3>2
      <3> QED
        BY <3>1, <3>2
    <2> HIDE DEF h
    <2>6. h \in Iterates(F, a, S, k + 1)
      BY <2>4, <2>5 DEF Iterates
    <2> QED
      BY <2>6
  <1> HIDE DEF T
  <1>3. n \in T
    BY <1>1, <1>2, UpTo
  <1> QED
    BY <1>3 DEF T

(***************************************************************************)
(* Object ids: cutting an id at its signs, and following the migration map *)
(* from id to id to the end of the chain.                                  *)
(***************************************************************************)
IdsInv ==
  /\ idMap \in [GuidLike -> GivenIds \cup {NoSuchId}]
  /\ given.raw = Undecodable \/ given.raw \in Seq(Signs)
  /\ given.of # BadFormat =>
       /\ {given.of.storage, given.of.space, given.of.opaque} \subseteq Seq(Signs)
       /\ given = [raw |-> encodeObjectID(given.of), of |-> Rid(given.of.storage, given.of.space, given.of.opaque)]

LEMMA BoundedIsSeq == \A S, n : n \in Nat => BoundedSeq(S, n) \subseteq Seq(S)
  BY DEF BoundedSeq, SeqOf

LEMMA IdsInvariant == IdsSpec => []IdsInv
  <1>1. IdsInit => IdsInv
    BY DEF IdsInit, IdsInv, NotGiven
  <1>2. ASSUME IdsInv, [IdsNext]_idVars PROVE IdsInv'
    <2>1. CASE MapMigrationID
      BY <1>2, <2>1 DEF IdsInv, MapMigrationID
    <2>2. CASE GiveBack
      <3>1. PICK st, sp, op \in Seq(Signs) :
              given' = [raw |-> encodeObjectID(Rid(st, sp, op)), of |-> Rid(st, sp, op)]
        BY <2>2, BoundedIsSeq DEF GiveBack
      <3>2. encodeObjectID(Rid(st, sp, op)) \in Seq(Signs)
        BY IdConstants DEF encodeObjectID, Rid
      <3> QED
        BY <1>2, <2>2, <3>1, <3>2 DEF IdsInv, GiveBack, Rid
    <2>3. CASE MakeUp
      BY <1>2, <2>3, BoundedIsSeq, IdConstants DEF IdsInv, MakeUp
    <2>4. CASE AnswerId
      BY <1>2, <2>4 DEF IdsInv, AnswerId, NotGiven
    <2>5. CASE UNCHANGED idVars
      BY <1>2, <2>5 DEF IdsInv, idVars
    <2> QED
      BY <1>2, <2>1, <2>2, <2>3, <2>4, <2>5 DEF IdsNext
  <1> QED
    BY <1>1, <1>2, PTL DEF IdsSpec

\* Every id that looks like a GUID is mapped to an id or to none, and a client's id
\* is a string of signs or nothing that can be decoded (MigrationMap, decodeObjectID).
THEOREM IdsTyping == IdsSpec => []IdsTypeOK
  <1>1. IdsInv => IdsTypeOK
    BY DEF IdsInv, IdsTypeOK
  <1> QED
    BY <1>1, IdsInvariant, PTL

\* The first and the last of a set of positions.
LEMMA FirstAndLast ==
  ASSUME NEW S, S \subseteq Nat, NEW k \in S
  PROVE  /\ (\A i \in S : k <= i) => FirstOf(S) = k
         /\ (\A i \in S : i <= k) => LastOf(S) = k
  <1>1. ASSUME \A i \in S : k <= i PROVE FirstOf(S) = k
    <2>1. PICK f \in S : f = FirstOf(S) /\ \A i \in S : f <= i
      BY <1>1 DEF FirstOf
    <2>2. f <= k /\ k <= f /\ f \in Nat /\ k \in Nat
      BY <1>1, <2>1
    <2> QED
      BY <2>1, <2>2
  <1>2. ASSUME \A i \in S : i <= k PROVE LastOf(S) = k
    <2>1. PICK f \in S : f = LastOf(S) /\ \A i \in S : f >= i
      BY <1>2 DEF LastOf
    <2>2. f <= k /\ k <= f /\ f \in Nat /\ k \in Nat
      BY <1>2, <2>1
    <2> QED
      BY <2>1, <2>2
  <1> QED
    BY <1>1, <1>2

\* The signs of an encoded id, place by place.
SignsOf(raw, st, sp, op) ==
  /\ raw \in Seq(Signs)
  /\ Len(raw) = Len(st) + Len(sp) + Len(op) + 2
  /\ \A i \in 1..Len(st) : raw[i] = st[i]
  /\ raw[Len(st) + 1] = "$"
  /\ \A i \in 1..Len(sp) : raw[Len(st) + 1 + i] = sp[i]
  /\ raw[Len(st) + Len(sp) + 2] = "!"
  /\ \A i \in 1..Len(op) : raw[Len(st) + Len(sp) + 2 + i] = op[i]

LEMMA EncodedAt ==
  ASSUME NEW st \in Seq(Signs), NEW sp \in Seq(Signs), NEW op \in Seq(Signs)
  PROVE  SignsOf(encodeObjectID(Rid(st, sp, op)), st, sp, op)
  <1> DEFINE raw == encodeObjectID(Rid(st, sp, op))
  <1>1. raw = st \o <<"$">> \o sp \o <<"!">> \o op /\ "$" \in Signs /\ "!" \in Signs
    BY IdConstants DEF encodeObjectID, Rid
  <1> HIDE DEF raw
  <1> DEFINE a == st \o <<"$">>
             b == a \o sp
             c == b \o <<"!">>
  <1>2. a \in Seq(Signs) /\ Len(a) = Len(st) + 1 /\ (\A i \in 1..Len(st) : a[i] = st[i]) /\ a[Len(st) + 1] = "$"
    BY <1>1
  <1> HIDE DEF a
  <1>3. /\ b \in Seq(Signs) /\ Len(b) = Len(a) + Len(sp)
        /\ \A i \in 1..Len(a) : b[i] = a[i]
        /\ \A i \in 1..Len(sp) : b[Len(a) + i] = sp[i]
    BY <1>2
  <1> HIDE DEF b
  <1>4. /\ c \in Seq(Signs) /\ Len(c) = Len(b) + 1 /\ c[Len(b) + 1] = "!"
        /\ \A i \in 1..Len(b) : c[i] = b[i]
    <2>1. c \in Seq(Signs) /\ Len(c) = Len(b) + 1
      BY <1>1, <1>3
    <2>2. c[Len(b) + 1] = "!"
      <3>1. b \in Seq(Signs) /\ <<"!">> \in Seq(Signs) /\ Len(<<"!">>) = 1 /\ <<"!">>[1] = "!"
        BY <1>1, <1>3
      <3>2. Len(b) + 1 \in 1..(Len(b) + Len(<<"!">>)) /\ ~(Len(b) + 1 <= Len(b)) /\ Len(b) + 1 - Len(b) = 1
        BY <3>1
      <3> QED
        BY <3>1, <3>2
    <2>3. \A i \in 1..Len(b) : c[i] = b[i]
      BY <1>1, <1>3
    <2> QED
      BY <2>1, <2>2, <2>3
  <1> HIDE DEF c
  <1>5. /\ raw \in Seq(Signs) /\ Len(raw) = Len(c) + Len(op)
        /\ \A i \in 1..Len(c) : raw[i] = c[i]
        /\ \A i \in 1..Len(op) : raw[Len(c) + i] = op[i]
    <2>1. raw = c \o op
      BY <1>1 DEF a, b, c
    <2>2. c \in Seq(Signs) /\ op \in Seq(Signs)
      BY <1>4
    <2>3. \A i \in 1..Len(op) : (c \o op)[Len(c) + i] = op[i]
      BY <2>2
    <2>4. /\ c \o op \in Seq(Signs) /\ Len(c \o op) = Len(c) + Len(op)
          /\ \A i \in 1..Len(c) : (c \o op)[i] = c[i]
      BY <2>2
    <2> QED
      BY <2>1, <2>3, <2>4
  <1>6. Len(c) = Len(st) + Len(sp) + 2 /\ Len(b) = Len(st) + 1 + Len(sp)
    BY <1>2, <1>3, <1>4
  <1>7. \A i \in 1..Len(st) : raw[i] = st[i]
    BY <1>2, <1>3, <1>4, <1>5
  <1>8. raw[Len(st) + 1] = "$"
    <2>1. Len(st) + 1 \in 1..Len(a) /\ Len(st) + 1 \in 1..Len(b) /\ Len(st) + 1 \in 1..Len(c)
      BY <1>2, <1>3, <1>6
    <2> QED
      BY <1>2, <1>3, <1>4, <1>5, <2>1
  <1>9. \A i \in 1..Len(sp) : raw[Len(st) + 1 + i] = sp[i]
    <2> SUFFICES ASSUME NEW i \in 1..Len(sp) PROVE raw[Len(st) + 1 + i] = sp[i]
      OBVIOUS
    <2>1. Len(a) + i = Len(st) + 1 + i /\ Len(st) + 1 + i \in 1..Len(b) /\ Len(st) + 1 + i \in 1..Len(c)
      BY <1>2, <1>3, <1>4, <1>6
    <2>2. b[Len(st) + 1 + i] = sp[i]
      BY <1>3, <2>1
    <2> QED
      BY <1>4, <1>5, <2>1, <2>2
  <1> QED
    BY <1>4, <1>5, <1>6, <1>7, <1>8, <1>9 DEF SignsOf, raw

\* Cut at its signs an encoded id is its parts.
LEMMA PartsOfEncoded ==
  ASSUME NEW st \in Seq(Signs), NEW sp \in Seq(Signs), NEW op \in Seq(Signs),
         FreeOf(st, {"$"})
  PROVE  Parts(encodeObjectID(Rid(st, sp, op)), Len(st) + Len(sp) + 2) = Rid(st, sp, op)
  <1> DEFINE raw == encodeObjectID(Rid(st, sp, op))
  <1> HIDE DEF raw
  <1>1. /\ raw \in Seq(Signs)
        /\ Len(raw) = Len(st) + Len(sp) + Len(op) + 2
        /\ \A i \in 1..Len(st) : raw[i] = st[i]
        /\ raw[Len(st) + 1] = "$"
        /\ \A i \in 1..Len(sp) : raw[Len(st) + 1 + i] = sp[i]
        /\ \A i \in 1..Len(op) : raw[Len(st) + Len(sp) + 2 + i] = op[i]
    <2>1. SignsOf(raw, st, sp, op)
      BY EncodedAt DEF raw
    <2> QED
      BY <2>1 DEF SignsOf
  <1>2. \A i \in 1..Len(st) : st[i] # "$"
    BY DEF FreeOf, ToSet
  <1>3. FirstOf(Positions(raw, "$")) = Len(st) + 1 /\ Positions(raw, "$") # {}
    <2>1. Len(st) + 1 \in Positions(raw, "$") /\ Positions(raw, "$") \subseteq Nat
      BY <1>1 DEF Positions
    <2>2. \A i \in Positions(raw, "$") : Len(st) + 1 <= i
      <3> SUFFICES ASSUME NEW i \in Positions(raw, "$"), i < Len(st) + 1 PROVE FALSE
        BY <2>1
      <3>1. i \in 1..Len(st) /\ raw[i] = "$"
        BY <1>1 DEF Positions
      <3> QED
        BY <1>1, <1>2, <3>1
    <2> QED
      BY <2>1, <2>2, FirstAndLast
  <1>4. SubSeq(raw, 1, Len(st)) = st
    BY <1>1
  <1>5. SubSeq(raw, Len(st) + 2, Len(st) + 1 + Len(sp)) = sp
    <2> DEFINE cut == SubSeq(raw, Len(st) + 2, Len(st) + 1 + Len(sp))
    <2>1. cut \in Seq(Signs) /\ Len(cut) = Len(sp)
      BY <1>1
    <2>2. ASSUME NEW i \in 1..Len(sp) PROVE cut[i] = sp[i]
      <3>1. cut[i] = raw[Len(st) + 2 + i - 1]
        BY <1>1
      <3>2. Len(st) + 2 + i - 1 = Len(st) + 1 + i
        OBVIOUS
      <3> QED
        BY <1>1, <3>1, <3>2
    <2> HIDE DEF cut
    <2>3. cut = sp
      BY <2>1, <2>2
    <2> QED
      BY <2>3 DEF cut
  <1>6. SubSeq(raw, Len(st) + Len(sp) + 3, Len(raw)) = op
    BY <1>1
  <1>7. /\ (Len(st) + 1) - 1 = Len(st) /\ (Len(st) + 1) + 1 = Len(st) + 2
        /\ (Len(st) + Len(sp) + 2) - 1 = Len(st) + 1 + Len(sp)
        /\ (Len(st) + Len(sp) + 2) + 1 = Len(st) + Len(sp) + 3
        /\ Len(st) + 1 < Len(st) + Len(sp) + 2
    OBVIOUS
  <1> QED
    BY <1>3, <1>4, <1>5, <1>6, <1>7 DEF Parts, raw

LEMMA DecodedAtLast ==
  ASSUME NEW st \in Seq(Signs), NEW sp \in Seq(Signs), NEW op \in Seq(Signs),
         FreeOf(st, {"$"}), FreeOf(op, {"!"})
  PROVE  DecodeDms(encodeObjectID(Rid(st, sp, op))) = Rid(st, sp, op)
  <1> DEFINE raw == encodeObjectID(Rid(st, sp, op))
             bang == Len(st) + Len(sp) + 2
  <1>1. SignsOf(raw, st, sp, op) /\ Parts(raw, bang) = Rid(st, sp, op)
    BY EncodedAt, PartsOfEncoded
  <1> HIDE DEF raw
  <1>2. bang \in Positions(raw, "!") /\ Positions(raw, "!") \subseteq Nat /\ raw # Undecodable
    <2>1. /\ raw \in Seq(Signs) /\ bang \in 1..Len(raw) /\ raw[bang] = "!"
          /\ 1 \in 1..Len(raw) /\ Len(raw) >= 2
      BY <1>1 DEF SignsOf
    <2>2. raw # Undecodable
      BY <2>1 DEF Undecodable
    <2> QED
      BY <2>1, <2>2 DEF Positions
  <1>3. \A i \in Positions(raw, "!") : i <= bang
    <2> SUFFICES ASSUME NEW i \in Positions(raw, "!"), i > bang PROVE FALSE
      BY <1>2
    <2>1. i - bang \in 1..Len(op) /\ raw[bang + (i - bang)] = "!"
      BY <1>1, <1>2 DEF SignsOf, Positions
    <2>2. op[i - bang] = "!"
      BY <1>1, <2>1 DEF SignsOf
    <2> QED
      BY <2>1, <2>2 DEF FreeOf, ToSet
  <1>4. LastOf(Positions(raw, "!")) = bang
    BY <1>2, <1>3, FirstAndLast
  <1> QED
    BY <1>1, <1>2, <1>4 DEF DecodeDms, DecodeAt, raw

LEMMA DecodedAtFirst ==
  ASSUME NEW st \in Seq(Signs), NEW sp \in Seq(Signs), NEW op \in Seq(Signs),
         FreeOf(st, {"$", "!"}), FreeOf(sp, {"!"})
  PROVE  /\ DecodeCmis(encodeObjectID(Rid(st, sp, op))) = Rid(st, sp, op)
         /\ decodeSpaceID(encodeObjectID(Rid(st, sp, op))) = Rid(st, sp, op)
  <1> DEFINE raw == encodeObjectID(Rid(st, sp, op))
             bang == Len(st) + Len(sp) + 2
  <1>1. FreeOf(st, {"$"})
    BY DEF FreeOf
  <1>2. SignsOf(raw, st, sp, op) /\ Parts(raw, bang) = Rid(st, sp, op)
    BY <1>1, EncodedAt, PartsOfEncoded
  <1> HIDE DEF raw
  <1>3. bang \in Positions(raw, "!") /\ Positions(raw, "!") \subseteq Nat /\ raw # Undecodable
    <2>1. /\ raw \in Seq(Signs) /\ bang \in 1..Len(raw) /\ raw[bang] = "!"
          /\ 1 \in 1..Len(raw) /\ Len(raw) >= 2
      BY <1>2 DEF SignsOf
    <2>2. raw # Undecodable
      BY <2>1 DEF Undecodable
    <2> QED
      BY <2>1, <2>2 DEF Positions
  <1>4. \A i \in Positions(raw, "!") : bang <= i
    <2> SUFFICES ASSUME NEW i \in Positions(raw, "!"), i < bang PROVE FALSE
      BY <1>3
    <2>1. raw[i] = "!" /\ i \in 1..Len(raw) /\ i # Len(st) + 1
      BY <1>2 DEF SignsOf, Positions
    <2>2. CASE i \in 1..Len(st)
      <3>1. st[i] = "!"
        BY <1>2, <2>1, <2>2 DEF SignsOf
      <3> QED
        BY <2>2, <3>1 DEF FreeOf, ToSet
    <2>3. CASE i > Len(st) + 1
      <3>1. i - (Len(st) + 1) \in 1..Len(sp) /\ Len(st) + 1 + (i - (Len(st) + 1)) = i
        BY <1>2, <2>1, <2>3 DEF SignsOf
      <3>2. sp[i - (Len(st) + 1)] = "!"
        BY <1>2, <2>1, <3>1 DEF SignsOf
      <3> QED
        BY <3>1, <3>2 DEF FreeOf, ToSet
    <2> QED
      BY <2>1, <2>2, <2>3
  <1>5. FirstOf(Positions(raw, "!")) = bang
    BY <1>3, <1>4, FirstAndLast
  <1> QED
    BY <1>2, <1>3, <1>5 DEF DecodeCmis, decodeSpaceID, DecodeAt, raw

LEMMA OneBang ==
  ASSUME NEW raw \in Seq(Signs), Cardinality(Positions(raw, "!")) <= 1, Positions(raw, "!") # {}
  PROVE  FirstOf(Positions(raw, "!")) = LastOf(Positions(raw, "!"))
  <1> DEFINE B == Positions(raw, "!")
  <1>1. B \subseteq 1..Len(raw) /\ Len(raw) \in Nat
    BY DEF Positions
  <1>2. IsFiniteSet(B)
    <2>1. IsFiniteSet(1..Len(raw))
      BY <1>1, FS_Interval
    <2> QED
      BY <1>1, <2>1, FS_Subset
  <1>3. Cardinality(B) = 1
    BY <1>2, FS_CardinalityType, FS_EmptySet
  <1>4. PICK k : B = {k}
    BY <1>2, <1>3, FS_Singleton
  <1> HIDE DEF B
  <1>5. FirstOf(B) = k /\ LastOf(B) = k
    <2>1. B \subseteq Nat /\ k \in B /\ k \in Nat /\ \A i \in B : i = k
      BY <1>1, <1>4
    <2>2. (\A i \in B : k <= i) /\ (\A i \in B : i <= k)
      BY <2>1
    <2> QED
      BY <2>1, <2>2, FirstAndLast
  <1> QED
    BY <1>5 DEF B

\* An encoded id is read as the resource it was made from by every decoder whose
\* signs its parts are free of, and an id with one "!" at most is read the same by
\* all of them, of whatever length and of whatever signs it is.
THEOREM OneResource == IdsSpec => []SameResource
  <1>1. ASSUME IdsInv PROVE DecodesBack
    <2> SUFFICES ASSUME given.of # BadFormat PROVE DecodesBack
      BY DEF DecodesBack
    <2>1. PICK st, sp, op \in Seq(Signs) :
            given.of = Rid(st, sp, op) /\ given.raw = encodeObjectID(Rid(st, sp, op))
      BY <1>1 DEF IdsInv
    <2>2. given.of.storage = st /\ given.of.space = sp /\ given.of.opaque = op
      BY <2>1 DEF Rid
    <2> QED
      BY <2>1, <2>2, DecodedAtLast, DecodedAtFirst DEF DecodesBack
  <1>2. ASSUME IdsInv PROVE DecodersAgree
    <2>1. CASE given.raw = Undecodable \/ Positions(given.raw, "!") = {}
      BY <2>1 DEF DecodersAgree, DecodeDms, DecodeCmis, decodeSpaceID, DecodeAt
    <2>2. CASE given.raw \in Seq(Signs) /\ Positions(given.raw, "!") # {}
      BY <2>2, OneBang DEF DecodersAgree, DecodeDms, DecodeCmis, decodeSpaceID, DecodeAt
    <2> QED
      BY <1>2, <2>1, <2>2 DEF IdsInv
  <1> QED
    BY <1>1, <1>2, IdsInvariant, PTL DEF SameResource

\* Resolving is what its definition says, for every depth.
Bound == Cardinality(GivenIds)

LEMMA DecodeWithin ==
  ASSUME IdsInv
  PROVE  \A k \in 0..Bound : \A x \in GivenIds :
           decodeWithin[k][x] = IF ~Mapped(x) THEN DecodeDms(RawOf[x])
                                ELSE IF k = 0 THEN Endless ELSE decodeWithin[k - 1][idMap[x]]
  <1> DEFINE V == {DecodeDms(RawOf[x]) : x \in GivenIds} \cup {Endless}
             S == [GivenIds -> V]
             a == [x \in GivenIds |-> IF ~Mapped(x) THEN DecodeDms(RawOf[x]) ELSE Endless]
             F == [g \in S |-> [x \in GivenIds |-> IF ~Mapped(x) THEN DecodeDms(RawOf[x]) ELSE g[idMap[x]]]]
             Body(f, k, x) == IF ~Mapped(x) THEN DecodeDms(RawOf[x]) ELSE IF k = 0 THEN Endless ELSE f[k - 1][idMap[x]]
  <1>1. Bound \in Nat
    BY IdConstants, FS_CardinalityType DEF Bound
  <1>2. \A x \in GivenIds : Mapped(x) => idMap[x] \in GivenIds
    BY DEF IdsInv, Mapped
  <1>3. F \in [S -> S] /\ a \in S
    BY <1>2
  <1>4. PICK f \in [0..Bound -> S] : f[0] = a /\ \A k \in 1..Bound : f[k] = F[f[k - 1]]
    <2> HIDE DEF F, S, a
    <2>1. Iterates(F, a, S, Bound) # {}
      BY <1>1, <1>3, Iteration
    <2> QED
      BY <2>1 DEF Iterates
  <1>5. ASSUME NEW k \in 0..Bound PROVE f[k] = [x \in GivenIds |-> Body(f, k, x)]
    <2>1. CASE k = 0
      BY <1>4, <2>1
    <2>2. CASE k # 0
      <3>1. k \in 1..Bound /\ k - 1 \in 0..Bound /\ f[k - 1] \in S
        BY <1>1, <1>4, <2>2
      <3>2. f[k] = F[f[k - 1]]
        BY <1>4, <3>1
      <3> QED
        BY <3>1, <3>2, <2>2
    <2> QED
      BY <2>1, <2>2
  <1>6. f = [k \in 0..Bound |-> [x \in GivenIds |-> Body(f, k, x)]]
    <2> HIDE DEF S, a, F, Body
    <2> QED
      BY <1>4, <1>5
  <1>7. decodeWithin = [k \in 0..Bound |-> [x \in GivenIds |-> Body(decodeWithin, k, x)]]
    <2> HIDE DEF S, a, F, V
    <2> QED
      BY <1>6 DEF decodeWithin, Bound
  <1> HIDE DEF S, a, F, V
  <1>8. ASSUME NEW k \in 0..Bound, NEW x \in GivenIds PROVE decodeWithin[k][x] = Body(decodeWithin, k, x)
    <2> DEFINE d == decodeWithin
    <2>1. d = [l \in 0..Bound |-> [y \in GivenIds |-> Body(d, l, y)]]
      BY <1>7
    <2> HIDE DEF d, Body
    <2>2. d[k] = [y \in GivenIds |-> Body(d, k, y)]
      BY <2>1
    <2> QED
      BY <2>2 DEF d
  <1> QED
    BY <1>8

\* The chain of an id is the least closed set with it.
Closed(T) == \A x \in T : Mapped(x) => idMap[x] \in T

LEMMA ChainIsLeast ==
  ASSUME IdsInv, NEW i \in GivenIds
  PROVE  /\ i \in Chain(i) /\ Chain(i) \subseteq GivenIds /\ Closed(Chain(i))
         /\ \A T \in SUBSET GivenIds : i \in T /\ Closed(T) => Chain(i) \subseteq T
  <1> DEFINE least == {x \in GivenIds : \A T \in SUBSET GivenIds : i \in T /\ Closed(T) => x \in T}
             Is(S) == i \in S /\ Closed(S) /\ \A T \in SUBSET S : i \in T /\ Closed(T) => T = S
  <1>1. \A x \in GivenIds : Mapped(x) => idMap[x] \in GivenIds
    BY DEF IdsInv, Mapped
  <1>2. i \in least /\ least \subseteq GivenIds /\ Closed(least)
    BY <1>1 DEF Closed
  <1>3. Is(least)
    BY <1>2
  <1>4. Chain(i) \in SUBSET GivenIds /\ Is(Chain(i))
    <2>1. Chain(i) = CHOOSE S \in SUBSET GivenIds : Is(S)
      BY DEF Chain, Closed
    <2> HIDE DEF Is, least
    <2> QED
      BY <1>2, <1>3, <2>1
  <1>5. least = Chain(i)
    BY <1>2, <1>4
  <1> QED
    BY <1>4, <1>5

\* An id mapped to another has the other's chain within its own.
LEMMA ChainGoesOn ==
  ASSUME IdsInv, NEW i \in GivenIds, Mapped(i)
  PROVE  idMap[i] \in GivenIds /\ Chain(idMap[i]) \subseteq Chain(i)
  <1>1. idMap[i] \in GivenIds
    BY DEF IdsInv, Mapped
  <1>2. idMap[i] \in Chain(i) /\ Closed(Chain(i)) /\ Chain(i) \subseteq GivenIds
    BY ChainIsLeast DEF Closed
  <1> QED
    BY <1>1, <1>2, ChainIsLeast

\* The ids that come to an end within k mappings: those from which the end is told.
Reaching(D) == {x \in GivenIds : Mapped(x) => idMap[x] \in D}

LEMMA EndsWithin ==
  ASSUME IdsInv
  PROVE  \E D \in [0..Bound -> SUBSET GivenIds] :
           /\ D[0] = {x \in GivenIds : ~Mapped(x)}
           /\ \A k \in 1..Bound : D[k] = Reaching(D[k - 1])
  <1> DEFINE S == SUBSET GivenIds
             F == [T \in S |-> Reaching(T)]
             a == {x \in GivenIds : ~Mapped(x)}
  <1>1. Bound \in Nat
    BY IdConstants, FS_CardinalityType DEF Bound
  <1>2. F \in [S -> S] /\ a \in S
    BY DEF Reaching
  <1>3. PICK D \in [0..Bound -> S] : D[0] = a /\ \A k \in 1..Bound : D[k] = F[D[k - 1]]
    <2> HIDE DEF F, S, a
    <2>1. Iterates(F, a, S, Bound) # {}
      BY <1>1, <1>2, Iteration
    <2> QED
      BY <2>1 DEF Iterates
  <1>4. \A k \in 1..Bound : D[k - 1] \in S
    BY <1>1, <1>3
  <1> QED
    BY <1>3, <1>4

\* With as many steps as there are ids, no id that comes to an end is left out:
\* of a set that grows with every step until it grows no more.
LEMMA AllThatEnd ==
  ASSUME IdsInv, NEW D \in [0..Bound -> SUBSET GivenIds], D[0] = {x \in GivenIds : ~Mapped(x)},
         \A k \in 1..Bound : D[k] = Reaching(D[k - 1])
  PROVE  Reaching(D[Bound]) = D[Bound]
  <1> DEFINE T == {k \in Nat : k <= Bound =>
                     /\ D[k] \subseteq Reaching(D[k])
                     /\ Cardinality(D[k]) >= k \/ Reaching(D[k]) = D[k]}
  <1>1. Bound \in Nat /\ IsFiniteSet(GivenIds)
    BY IdConstants, FS_CardinalityType DEF Bound
  <1>2. \A k \in 0..Bound : IsFiniteSet(D[k]) /\ Cardinality(D[k]) \in Nat
    BY <1>1, FS_Subset, FS_CardinalityType
  <1>3. 0 \in T
    BY <1>1, <1>2 DEF Reaching
  <1>4. ASSUME NEW k \in Nat, k \in T PROVE k + 1 \in T
    <2> SUFFICES ASSUME k + 1 <= Bound
                 PROVE  /\ D[k + 1] \subseteq Reaching(D[k + 1])
                        /\ Cardinality(D[k + 1]) >= k + 1 \/ Reaching(D[k + 1]) = D[k + 1]
      OBVIOUS
    <2>1. k \in 0..Bound /\ k + 1 \in 0..Bound /\ k + 1 \in 1..Bound /\ (k + 1) - 1 = k
      BY <1>1
    <2>2. D[k + 1] = Reaching(D[k]) /\ D[k] \subseteq Reaching(D[k])
      BY <1>4, <2>1
    <2>3. D[k + 1] \subseteq Reaching(D[k + 1])
      BY <2>2 DEF Reaching
    <2>4. CASE Reaching(D[k]) = D[k]
      BY <2>2, <2>4
    <2>5. CASE Reaching(D[k]) # D[k] /\ Cardinality(D[k]) >= k
      <3>1. /\ D[k] \subseteq D[k + 1] /\ D[k] # D[k + 1]
            /\ IsFiniteSet(D[k + 1]) /\ Cardinality(D[k]) \in Nat /\ Cardinality(D[k + 1]) \in Nat
        BY <1>2, <2>1, <2>2, <2>5
      <3>2. Cardinality(D[k]) <= Cardinality(D[k + 1]) /\ Cardinality(D[k]) # Cardinality(D[k + 1])
        BY <3>1, FS_Subset
      <3>3. Cardinality(D[k + 1]) >= k + 1
        BY <2>5, <3>1, <3>2
      <3> QED
        BY <2>3, <3>3
    <2>6. Reaching(D[k]) = D[k] \/ Cardinality(D[k]) >= k
      BY <1>4, <2>1
    <2> QED
      BY <2>3, <2>4, <2>5, <2>6
  <1> HIDE DEF T
  <1>5. Bound \in T
    BY <1>1, <1>3, <1>4, UpTo
  <1>6. D[Bound] \subseteq Reaching(D[Bound]) /\ (Cardinality(D[Bound]) >= Bound \/ Reaching(D[Bound]) = D[Bound])
    BY <1>1, <1>5 DEF T
  <1>7. ASSUME Cardinality(D[Bound]) >= Bound PROVE D[Bound] = GivenIds
    <2>1. D[Bound] \in SUBSET GivenIds /\ Cardinality(D[Bound]) \in Nat
      BY <1>1, <1>2
    <2>2. Cardinality(D[Bound]) <= Bound
      BY <1>1, <2>1, FS_Subset DEF Bound
    <2>3. Cardinality(GivenIds) = Cardinality(D[Bound])
      BY <1>1, <1>7, <2>1, <2>2 DEF Bound
    <2> QED
      BY <1>1, <2>1, <2>3, FS_Subset
  <1> QED
    BY <1>6, <1>7 DEF Reaching

\* An id that comes to an end within k mappings is resolved, within k, to what an
\* unmapped id of its chain decodes to, and an id that comes to none to Endless.
LEMMA ResolvedWithin ==
  ASSUME IdsInv, NEW D \in [0..Bound -> SUBSET GivenIds], D[0] = {x \in GivenIds : ~Mapped(x)},
         \A k \in 1..Bound : D[k] = Reaching(D[k - 1]), NEW n \in 0..Bound, NEW i \in GivenIds
  PROVE  /\ i \in D[n] => \E y \in Chain(i) : ~Mapped(y) /\ decodeWithin[n][i] = DecodeDms(RawOf[y])
         /\ i \notin D[n] => decodeWithin[n][i] = Endless
  <1> DEFINE Reaches(k, x) ==
               /\ x \in D[k] => \E y \in Chain(x) : ~Mapped(y) /\ decodeWithin[k][x] = DecodeDms(RawOf[y])
               /\ x \notin D[k] => decodeWithin[k][x] = Endless
             T == {k \in Nat : k <= Bound => \A x \in GivenIds : Reaches(k, x)}
  <1>1. Bound \in Nat
    BY IdConstants, FS_CardinalityType DEF Bound
  <1>2. \A k \in 0..Bound : \A x \in GivenIds : ~Mapped(x) => x \in Chain(x) /\ decodeWithin[k][x] = DecodeDms(RawOf[x])
    BY DecodeWithin, ChainIsLeast
  <1>3. ASSUME NEW x \in GivenIds PROVE Reaches(0, x)
    <2>1. 0 \in 0..Bound
      BY <1>1
    <2>2. CASE Mapped(x)
      BY <2>1, <2>2, DecodeWithin
    <2>3. CASE ~Mapped(x)
      BY <1>2, <2>1, <2>3
    <2> QED
      BY <2>2, <2>3
  <1>4. ASSUME NEW k \in Nat, k + 1 <= Bound, \A x \in GivenIds : Reaches(k, x), NEW x \in GivenIds
        PROVE  Reaches(k + 1, x)
    <2>1. k \in 0..Bound /\ k + 1 \in 0..Bound /\ k + 1 \in 1..Bound /\ (k + 1) - 1 = k /\ k + 1 # 0
      BY <1>1, <1>4
    <2>2. D[k + 1] = Reaching(D[k])
      BY <2>1
    <2>3. CASE ~Mapped(x)
      <3>1. x \in D[k + 1]
        BY <2>2, <2>3 DEF Reaching
      <3> QED
        BY <1>2, <2>1, <2>3, <3>1
    <2>4. CASE Mapped(x)
      <3>1. decodeWithin[k + 1][x] = decodeWithin[k][idMap[x]]
        BY <2>1, <2>4, DecodeWithin
      <3>2. idMap[x] \in GivenIds /\ Chain(idMap[x]) \subseteq Chain(x)
        BY <2>4, ChainGoesOn
      <3>3. x \in D[k + 1] <=> idMap[x] \in D[k]
        BY <2>2, <2>4 DEF Reaching
      <3>4. Reaches(k, idMap[x])
        BY <1>4, <3>2
      <3> QED
        BY <3>1, <3>2, <3>3, <3>4
    <2> QED
      BY <2>3, <2>4
  <1>5. 0 \in T
    BY <1>3
  <1>6. ASSUME NEW k \in Nat, k \in T PROVE k + 1 \in T
    <2> HIDE DEF Reaches
    <2>1. ASSUME k + 1 <= Bound PROVE k <= Bound
      BY <1>1, <2>1
    <2> QED
      BY <1>4, <1>6, <2>1
  <1> HIDE DEF T
  <1>7. n \in T
    <2>1. Nat \subseteq T
      BY <1>5, <1>6, UpTo
    <2> QED
      BY <1>1, <2>1
  <1> QED
    BY <1>1, <1>7 DEF T

LEMMA ChainsResolve == IdsInv => ResolvesToTheEnd
  <1> SUFFICES ASSUME IdsInv, NEW i \in GuidLike, Mapped(i)
               PROVE  LET ends == {x \in Chain(i) : ~Mapped(x)}
                      IN  IF ends = {} THEN Resolved(i) = Endless
                          ELSE \E x \in ends : Resolved(i) = DecodeDms(RawOf[x])
    BY DEF ResolvesToTheEnd
  <1>1. Bound \in Nat /\ i \in GivenIds
    BY IdConstants, FS_CardinalityType DEF Bound
  <1>2. PICK D \in [0..Bound -> SUBSET GivenIds] :
          D[0] = {x \in GivenIds : ~Mapped(x)} /\ \A k \in 1..Bound : D[k] = Reaching(D[k - 1])
    BY EndsWithin
  <1>3. Resolved(i) = decodeWithin[Bound][i] /\ Bound \in 0..Bound
    BY <1>1 DEF Resolved, Bound
  <1>4. /\ i \in D[Bound] => \E y \in Chain(i) : ~Mapped(y) /\ Resolved(i) = DecodeDms(RawOf[y])
        /\ i \notin D[Bound] => Resolved(i) = Endless
    <2>1. PICK k \in 0..Bound : k = Bound
      BY <1>3
    <2>2. /\ i \in D[k] => \E y \in Chain(i) : ~Mapped(y) /\ decodeWithin[k][i] = DecodeDms(RawOf[y])
          /\ i \notin D[k] => decodeWithin[k][i] = Endless
      BY <1>1, <1>2, ResolvedWithin
    <2>3. Resolved(i) = decodeWithin[k][i] /\ D[k] = D[Bound]
      BY <1>3, <2>1
    <2> QED
      BY <2>2, <2>3
  <1>5. ASSUME i \notin D[Bound] PROVE \A x \in Chain(i) : Mapped(x)
    <2> DEFINE U == GivenIds \ D[Bound]
    <2>1. Reaching(D[Bound]) = D[Bound]
      BY <1>2, AllThatEnd
    <2>2. \A x \in U : Mapped(x) /\ idMap[x] \in U
      BY <2>1 DEF Reaching, IdsInv, Mapped
    <2>3. Closed(U) /\ i \in U /\ U \in SUBSET GivenIds
      BY <1>1, <1>5, <2>2 DEF Closed
    <2>4. Chain(i) \subseteq U
      BY <1>1, <2>3, ChainIsLeast
    <2> QED
      BY <2>2, <2>4
  <1> QED
    BY <1>4, <1>5

\* Resolving follows the migration map to the end of its chain, however long the
\* chain and whatever was mapped, and ends unless the chain is a circle.
THEOREM ResolvesFully == IdsSpec => []ResolvesToTheEnd
  BY ChainsResolve, IdsInvariant, PTL

-----------------------------------------------------------------------------
(***************************************************************************)
(* Metadata keys.  A prefix and what follows it can be told apart again,   *)
(* because no namespace lies in another; so a value comes back under the   *)
(* key it was written with, unless two keys name one field.                *)
(***************************************************************************)
LEMMA KeyIs ==
  ASSUME NEW k, IsKey(k)
  PROVE  /\ DOMAIN k = 1..Len(k) /\ k \in Seq({k[i] : i \in 1..Len(k)})
         /\ \A i \in 1..Len(k) : k[i] = Part(k[i].word, k[i].spelling)
  <1>1. PICK n \in Nat : n = Len(k)
    BY DEF IsKey
  <1>2. k = [i \in 1..n |-> Part(k[i].word, k[i].spelling)]
    BY <1>1 DEF IsKey
  <1>3. DOMAIN k = 1..n /\ \A i \in 1..n : k[i] = Part(k[i].word, k[i].spelling)
    BY <1>2
  <1>4. k \in [1..n -> {k[i] : i \in 1..n}]
    BY <1>2, <1>3
  <1>5. k \in Seq({k[i] : i \in 1..n})
    BY <1>4
  <1> QED
    BY <1>1, <1>3, <1>5

LEMMA InSeq ==
  ASSUME NEW k, NEW n \in Nat, IsKey(k), Len(k) = n, NEW D, \A i \in 1..n : k[i] \in D
  PROVE  k \in Seq(D)
  <1>1. k = [i \in 1..n |-> Part(k[i].word, k[i].spelling)]
    BY DEF IsKey
  <1>2. k = [i \in 1..n |-> k[i]]
    BY <1>1
  <1>3. k \in [1..n -> D]
    BY <1>2
  <1> QED
    BY <1>3

\* A key behind a prefix, and what is left when the prefix is taken away.
LEMMA Joined ==
  ASSUME NEW p, IsKey(p), NEW k, IsKey(k)
  PROVE  /\ Len(p \o k) = Len(p) + Len(k)
         /\ \A i \in 1..Len(p) : i \in 1..Len(p \o k) /\ (p \o k)[i] = p[i]
         /\ \A i \in 1..Len(k) : (p \o k)[Len(p) + i] = k[i]
         /\ IsKey(p \o k)
  <1>1. PICK m \in Nat, n \in Nat : m = Len(p) /\ n = Len(k)
    BY DEF IsKey
  <1>2. PICK D : D = {p[i] : i \in 1..m} \cup {k[i] : i \in 1..n}
    OBVIOUS
  <1>3. p \in Seq(D) /\ k \in Seq(D)
    <2>1. (\A i \in 1..m : p[i] \in D) /\ \A i \in 1..n : k[i] \in D
      BY <1>2
    <2> QED
      BY <1>1, <2>1, InSeq
  <1>4. PICK s : s = p \o k
    OBVIOUS
  <1>5. /\ s \in Seq(D) /\ Len(s) = m + n
        /\ \A i \in 1..(m + n) : s[i] = IF i <= m THEN p[i] ELSE k[i - m]
    BY <1>1, <1>3, <1>4
  <1>6. \A i \in 1..m : i \in 1..(m + n) /\ s[i] = p[i]
    BY <1>5
  <1>7. \A i \in 1..n : s[m + i] = k[i]
    BY <1>5
  <1>8. \A i \in 1..(m + n) : s[i] = Part(s[i].word, s[i].spelling)
    <2> SUFFICES ASSUME NEW i \in 1..(m + n) PROVE s[i] = Part(s[i].word, s[i].spelling)
      OBVIOUS
    <2>1. (i \in 1..m /\ s[i] = p[i]) \/ (i - m \in 1..n /\ s[i] = k[i - m])
      BY <1>5
    <2> QED
      BY <1>1, <2>1, KeyIs
  <1>9. IsKey(s)
    <2>1. s = [i \in 1..(m + n) |-> s[i]]
      BY <1>5
    <2>2. s = [i \in 1..(m + n) |-> Part(s[i].word, s[i].spelling)]
      BY <1>8, <2>1
    <2> QED
      BY <1>5, <2>2 DEF IsKey
  <1> QED
    BY <1>1, <1>4, <1>5, <1>6, <1>7, <1>9

LEMMA KeysEqual ==
  ASSUME NEW k, IsKey(k), NEW l, IsKey(l), Len(k) = Len(l), \A i \in 1..Len(k) : k[i] = l[i]
  PROVE  k = l
  <1>1. PICK n \in Nat : n = Len(k)
    BY DEF IsKey
  <1>2. k = [i \in 1..n |-> Part(k[i].word, k[i].spelling)] /\ l = [i \in 1..n |-> Part(l[i].word, l[i].spelling)]
    BY <1>1 DEF IsKey
  <1>3. [i \in 1..n |-> Part(k[i].word, k[i].spelling)] = [i \in 1..n |-> Part(l[i].word, l[i].spelling)]
    BY <1>1
  <1> QED
    BY <1>2, <1>3, Zenon

\* A prefix, as the parts it begins with.
LEMMA PrefixIs ==
  ASSUME NEW p, IsKey(p), NEW s, IsKey(s)
  PROVE  IsPrefix(p, s) <=> Len(p) <= Len(s) /\ \A i \in 1..Len(p) : p[i] = s[i]
  <1>1. PICK m \in Nat, n \in Nat : m = Len(p) /\ n = Len(s)
    BY DEF IsKey
  <1>2. PICK D : D = {p[i] : i \in 1..m} \cup {s[i] : i \in 1..n}
    OBVIOUS
  <1>3. p \in Seq(D) /\ s \in Seq(D)
    <2>1. (\A i \in 1..m : p[i] \in D) /\ \A i \in 1..n : s[i] \in D
      BY <1>2
    <2> QED
      BY <1>1, <2>1, InSeq
  <1>4. ASSUME m <= n
        PROVE  SubSeq(p, 1, m) = SubSeq(s, 1, m) <=> \A i \in 1..m : p[i] = s[i]
    <2>1. PICK a, b : a = SubSeq(p, 1, m) /\ b = SubSeq(s, 1, m)
      OBVIOUS
    <2>2. /\ a \in Seq(D) /\ Len(a) = m /\ \A i \in 1..m : a[i] = p[i]
      BY <1>1, <1>3, <2>1
    <2>3. /\ b \in Seq(D) /\ Len(b) = m /\ \A i \in 1..m : b[i] = s[i]
      BY <1>1, <1>3, <1>4, <2>1
    <2>4. a = [i \in 1..m |-> a[i]] /\ b = [i \in 1..m |-> b[i]]
      BY <2>2, <2>3
    <2> QED
      BY <2>1, <2>2, <2>3, <2>4
  <1> QED
    BY <1>1, <1>4 DEF IsPrefix

LEMMA Begins ==
  ASSUME NEW p, IsKey(p), NEW k, IsKey(k)
  PROVE  IsPrefix(p, p \o k) /\ (k # <<>> => IsStrictPrefix(p, p \o k)) /\ Without(p, p \o k) = k
  <1>1. PICK m \in Nat, n \in Nat, s \in {p \o k} : m = Len(p) /\ n = Len(k) /\ s = p \o k
    BY DEF IsKey
  <1>2. /\ IsKey(s) /\ Len(s) = m + n
        /\ \A i \in 1..m : s[i] = p[i]
        /\ \A i \in 1..n : s[m + i] = k[i]
    BY <1>1, Joined
  <1>3. IsPrefix(p, s)
    <2>1. Len(p) <= Len(s) /\ \A i \in 1..Len(p) : p[i] = s[i]
      BY <1>1, <1>2
    <2> QED
      BY <1>2, <2>1, PrefixIs
  <1>4. k # <<>> => p # s
    BY <1>1, <1>2, KeyIs
  <1>5. Without(p, s) = k
    <2>1. PICK D : D = {s[i] : i \in 1..(m + n)}
      OBVIOUS
    <2>2. s \in Seq(D) /\ k = [i \in 1..n |-> k[i]]
      <3>1. k = [i \in 1..n |-> Part(k[i].word, k[i].spelling)]
        BY <1>1 DEF IsKey
      <3> QED
        BY <1>2, <2>1, <3>1, KeyIs
    <2>3. PICK a : a = SubSeq(s, m + 1, m + n)
      OBVIOUS
    <2>4. a \in Seq(D) /\ Len(a) = n /\ \A i \in 1..n : a[i] = s[m + i]
      <3>1. PICK u \in Int, v \in Int : u = m + 1 /\ v = m + n
        OBVIOUS
      <3>2. ASSUME NEW i \in u..v PROVE s[i] \in D
        <4>1. i \in 1..(m + n)
          BY <3>1, <3>2
        <4> QED
          BY <2>1, <4>1
      <3>3. /\ SubSeq(s, u, v) \in Seq(D)
            /\ Len(SubSeq(s, u, v)) = IF u <= v THEN v - u + 1 ELSE 0
            /\ \A i \in 1..v - u + 1 : SubSeq(s, u, v)[i] = s[u + i - 1]
        BY <3>2, SubSeqProperties
      <3>4. a \in Seq(D) /\ Len(a) = n /\ \A i \in 1..(v - u + 1) : a[i] = s[u + i - 1]
        BY <2>3, <3>1, <3>3
      <3>5. \A i \in 1..n : i \in 1..(v - u + 1) /\ s[u + i - 1] = s[m + i]
        BY <3>1
      <3> QED
        BY <3>4, <3>5
    <2>5. a = [i \in 1..n |-> a[i]]
      BY <2>4
    <2>6. a = k
      BY <1>2, <2>2, <2>4, <2>5
    <2> QED
      BY <1>1, <1>2, <2>3, <2>6 DEF Without
  <1> QED
    BY <1>1, <1>3, <1>4, <1>5 DEF IsStrictPrefix

\* Of two prefixes of one key, one is a prefix of the other.
LEMMA PrefixesNest ==
  ASSUME NEW p, IsKey(p), NEW q, IsKey(q), NEW s, IsKey(s), IsPrefix(p, s), IsPrefix(q, s)
  PROVE  IsPrefix(p, q) \/ IsPrefix(q, p)
  <1>1. /\ Len(p) \in Nat /\ Len(q) \in Nat
        /\ \A i \in 1..Len(p) : p[i] = s[i]
        /\ \A i \in 1..Len(q) : q[i] = s[i]
    BY PrefixIs DEF IsKey
  <1> QED
    BY <1>1, PrefixIs

\* Spelling a key another way leaves its words.
LEMMA SpelledIs ==
  ASSUME NEW k, IsKey(k), NEW a, NEW b
  PROVE  /\ IsKey(Spelled(k, a)) /\ Len(Spelled(k, a)) = Len(k)
         /\ Spelled(Spelled(k, a), b) = Spelled(k, b)
         /\ k # <<>> => Spelled(k, a) # <<>>
  <1>1. PICK n \in Nat, s \in {Spelled(k, a)} : n = Len(k) /\ s = Spelled(k, a)
    BY DEF IsKey
  <1>2. s = [i \in 1..n |-> Part(k[i].word, a)] /\ Spelled(k, b) = [i \in 1..n |-> Part(k[i].word, b)]
    BY <1>1, KeyIs DEF Spelled
  <1>3. \A i \in 1..n : s[i].word = k[i].word /\ s[i] = Part(s[i].word, s[i].spelling)
    BY <1>2 DEF Part
  <1>4. Len(s) = n /\ DOMAIN s = 1..n
    BY <1>2
  <1>5. s = [i \in 1..n |-> Part(s[i].word, s[i].spelling)]
    BY <1>2, <1>3
  <1>6. Spelled(s, b) = [i \in 1..n |-> Part(s[i].word, b)]
    BY <1>4 DEF Spelled
  <1>7. Spelled(s, b) = Spelled(k, b)
    BY <1>2, <1>3, <1>6
  <1>8. k # <<>> => n # 0
    BY <1>1, KeyIs
  <1> QED
    BY <1>1, <1>4, <1>5, <1>7, <1>8 DEF IsKey

LEMMA NamespaceIs == ASSUME NEW l PROVE \E n \in DOMAIN Config.namespaces : NamespaceForUser(l) = Config.namespaces[n]
  BY KeyConstants DEF NamespaceForUser

\* A fixed key is in no namespace.
LEMMA FixedShows ==
  ASSUME Apart, NEW k \in DOMAIN Config.known
  PROVE  ToClientKey(Config.known[k]) = {Config.known[k]}
  BY DEF Apart, NamespacePrefixes, ToClientKey, NamespacesOf, IsStrictPrefix

\* Whichever namespace a stored key is found in, it is taken to the key behind the prefix.
LEMMA OthersShow ==
  ASSUME Apart, NEW n \in DOMAIN Config.namespaces, NEW k, IsKey(k), k # <<>>
  PROVE  LET s == Config.namespaces[n].prefix \o k
         IN  /\ n \in NamespacesOf(s)
             /\ \A m \in NamespacesOf(s) : Without(Config.namespaces[m].prefix, s) = k
  <1> DEFINE p == Config.namespaces[n].prefix
  <1>1. PICK s : s = p \o k
    OBVIOUS
  <1>2. IsKey(p)
    BY KeyConstants
  <1>3. IsPrefix(p, s) /\ IsStrictPrefix(p, s) /\ Without(p, s) = k /\ IsKey(s)
    BY <1>1, <1>2, Begins, Joined
  <1>4. n \in NamespacesOf(s)
    BY <1>3 DEF NamespacesOf
  <1>5. ASSUME NEW m \in NamespacesOf(s) PROVE Without(Config.namespaces[m].prefix, s) = k
    <2>1. PICK q : q = Config.namespaces[m].prefix /\ q \in NamespacePrefixes /\ IsKey(q) /\ IsPrefix(q, s)
      BY KeyConstants DEF NamespacesOf, NamespacePrefixes, IsStrictPrefix
    <2>2. IsPrefix(p, q) \/ IsPrefix(q, p)
      BY <1>2, <1>3, <2>1, PrefixesNest
    <2>3. p \in NamespacePrefixes
      BY DEF NamespacePrefixes
    <2>4. q = p
      BY <2>1, <2>2, <2>3 DEF Apart
    <2> QED
      BY <1>3, <2>1, <2>4
  <1> QED
    BY <1>1, <1>3, <1>4, <1>5

\* What a stored key is shown as has the words of the field it was written to.
LEMMA ShownWords ==
  ASSUME Apart, NEW l, NEW k \in KeysAsked, NEW x \in ToClientKey(ToStorageKey(l, k))
  PROVE  SameWords(x, FieldOf(k))
  <1>1. CASE k \in DOMAIN Config.known
    <2>1. x = Config.known[k]
      BY <1>1, FixedShows DEF ToStorageKey
    <2> QED
      BY <1>1, <2>1 DEF SameWords, FieldOf
  <1>2. CASE k \notin DOMAIN Config.known
    <2>1. PICK n \in DOMAIN Config.namespaces : NamespaceForUser(l) = Config.namespaces[n]
      BY NamespaceIs
    <2>2. IsKey(k) /\ k # <<>>
      BY KeyConstants
    <2>3. PICK b : /\ b = k \/ b = Spelled(k, "lower")
                   /\ ToStorageKey(l, k) = Config.namespaces[n].prefix \o b
      BY <1>2, <2>1 DEF ToStorageKey
    <2>4. IsKey(b) /\ b # <<>> /\ Spelled(b, "lower") = Spelled(k, "lower")
      BY <2>2, <2>3, SpelledIs
    <2>5. PICK s : s = ToStorageKey(l, k) /\ s = Config.namespaces[n].prefix \o b
      BY <2>3
    <2>6. PICK m \in NamespacesOf(s) : x = ClientKeyIn(Config.namespaces[m], s)
      <3>1. n \in NamespacesOf(s)
        BY <2>4, <2>5, OthersShow
      <3>2. x \in ToClientKey(s)
        BY <2>5
      <3> QED
        BY <3>1, <3>2 DEF ToClientKey
    <2>7. Without(Config.namespaces[m].prefix, s) = b
      BY <2>4, <2>5, OthersShow
    <2>8. x = b \/ x = Spelled(b, "upper")
      BY <2>6, <2>7 DEF ClientKeyIn
    <2>9. Spelled(x, "lower") = Spelled(k, "lower")
      BY <2>4, <2>8, SpelledIs
    <2> QED
      BY <1>2, <2>9 DEF SameWords, FieldOf
  <1> QED
    BY <1>1, <1>2

\* A login finds what it wrote, among what that is shown as.
LEMMA ShownToWriter ==
  ASSUME Apart, NEW l, NEW k \in KeysAsked
  PROVE  AsShown(l, k) \in ToClientKey(ToStorageKey(l, k))
  <1>1. CASE k \in DOMAIN Config.known
    BY <1>1, FixedShows DEF ToStorageKey, AsShown
  <1>2. CASE k \notin DOMAIN Config.known
    <2>1. PICK n \in DOMAIN Config.namespaces : NamespaceForUser(l) = Config.namespaces[n]
      BY NamespaceIs
    <2>2. IsKey(k) /\ k # <<>>
      BY KeyConstants
    <2>3. PICK b : b = IF Config.namespaces[n].storage_case = "lower" THEN Spelled(k, "lower") ELSE k
      OBVIOUS
    <2>4. IsKey(b) /\ b # <<>> /\ Spelled(b, "upper") = Spelled(k, "upper")
      BY <2>2, <2>3, SpelledIs
    <2>5. PICK s : s = ToStorageKey(l, k) /\ s = Config.namespaces[n].prefix \o b
      BY <1>2, <2>1, <2>3 DEF ToStorageKey
    <2>6. ClientKeyIn(Config.namespaces[n], s) \in ToClientKey(s)
      <3>1. n \in NamespacesOf(s)
        BY <2>4, <2>5, OthersShow
      <3> QED
        BY <3>1 DEF ToClientKey
    <2>7. Without(Config.namespaces[n].prefix, s) = b
      BY <2>4, <2>5, OthersShow
    <2>8. AsShown(l, k) = ClientKeyIn(Config.namespaces[n], s)
      BY <1>2, <2>1, <2>3, <2>4, <2>7 DEF AsShown, ClientKeyIn
    <2> QED
      BY <2>5, <2>6, <2>8
  <1> QED
    BY <1>1, <1>2

\* The storage keys that show a field to a login were written through the field.
LEMMA ShowsTheField ==
  ASSUME Apart, NEW l, NEW k \in KeysAsked, NEW ll, NEW kk \in KeysAsked,
         AsShown(l, k) \in ToClientKey(ToStorageKey(ll, kk))
  PROVE  SameWords(FieldOf(kk), FieldOf(k))
  <1>1. SameWords(AsShown(l, k), FieldOf(kk))
    BY ShownWords
  <1>2. SameWords(AsShown(l, k), FieldOf(k))
    BY ShownToWriter, ShownWords
  <1> QED
    BY <1>1, <1>2 DEF SameWords

(***************************************************************************)
(* The storage keeps the last value written under each of its keys.        *)
(***************************************************************************)
Writes == [login : Logins, key : KeysAsked, value : Fields]

StoredAt(i) == ToStorageKey(writes[i].login, writes[i].key)

KeysInv ==
  /\ KeysTypeOK /\ writes \in Seq(Writes)
  /\ \A s \in StorageKeys : metadata[s] # Unset => \E i \in DOMAIN writes : StoredAt(i) = s
  /\ \A i \in DOMAIN writes :
       (\A j \in DOMAIN writes : StoredAt(j) = StoredAt(i) => j <= i)
         => metadata[StoredAt(i)] = writes[i].value

LEMMA KeysInitInv == metadata = Nothing /\ writes = <<>> => KeysInv
  BY DEF Nothing, KeysInv, KeysTypeOK

LEMMA SetIndexStep ==
  ASSUME KeysInv, NEW l \in Logins, NEW k \in KeysAsked, NEW v \in Fields, SetIndex(l, k, v)
  PROVE  KeysInv'
  <1>1. PICK t \in StorageKeys, w \in Writes, n \in Nat :
          /\ t = ToStorageKey(l, k) /\ w = [login |-> l, key |-> k, value |-> v] /\ n = Len(writes)
    <2>1. ToStorageKey(l, k) \in StorageKeys
      BY DEF StorageKeys
    <2>2. [login |-> l, key |-> k, value |-> v] \in Writes
      BY DEF Writes
    <2>3. Len(writes) \in Nat
      BY DEF KeysInv
    <2> QED
      BY <2>1, <2>2, <2>3
  <1>2. metadata' = [metadata EXCEPT ![t] = v] /\ writes' = Append(writes, w)
    BY <1>1 DEF SetIndex
  <1>3. KeysTypeOK'
    BY <1>1, <1>2 DEF KeysInv, KeysTypeOK, StorageKeys
  <1>4. /\ writes' \in Seq(Writes) /\ DOMAIN writes = 1..n /\ DOMAIN writes' = 1..(n + 1)
        /\ writes'[n + 1] = w /\ \A i \in 1..n : writes'[i] = writes[i]
    BY <1>1, <1>2 DEF KeysInv
  <1>5. StoredAt(n + 1)' = t /\ \A i \in 1..n : StoredAt(i)' = StoredAt(i)
    BY <1>1, <1>4 DEF StoredAt
  <1>6. metadata'[t] = v /\ \A s \in StorageKeys : s # t => metadata'[s] = metadata[s]
    BY <1>1, <1>2 DEF KeysInv, KeysTypeOK
  <1>7. \A s \in StorageKeys : metadata'[s] # Unset => \E i \in 1..(n + 1) : StoredAt(i)' = s
    BY <1>4, <1>5, <1>6 DEF KeysInv
  <1>8. ASSUME NEW i \in 1..(n + 1), \A j \in 1..(n + 1) : StoredAt(j)' = StoredAt(i)' => j <= i
        PROVE  metadata'[StoredAt(i)'] = writes'[i].value
    <2>1. CASE i = n + 1
      BY <1>1, <1>4, <1>5, <1>6, <2>1
    <2>2. CASE i \in 1..n
      <3>1. StoredAt(i)' # t
        BY <1>5, <1>8, <2>2
      <3>2. \A j \in 1..n : StoredAt(j) = StoredAt(i) => j <= i
        BY <1>5, <1>8, <2>2
      <3>3. metadata[StoredAt(i)] = writes[i].value
        BY <1>4, <2>2, <3>2 DEF KeysInv
      <3>4. StoredAt(i) \in StorageKeys
        <4>1. writes[i] \in Writes
          BY <1>4, <2>2 DEF KeysInv
        <4> QED
          BY <4>1 DEF StoredAt, StorageKeys, Writes
      <3> QED
        BY <1>4, <1>5, <1>6, <2>2, <3>1, <3>3, <3>4
    <2> QED
      BY <2>1, <2>2
  <1>9. StorageKeys' = StorageKeys
    BY DEF StorageKeys
  <1> QED
    BY <1>3, <1>4, <1>7, <1>8, <1>9 DEF KeysInv

LEMMA KeysStep == KeysInv /\ [KeysNext]_keyVars => KeysInv'
  <1> SUFFICES ASSUME KeysInv, [KeysNext]_keyVars PROVE KeysInv'
    OBVIOUS
  <1>1. CASE UNCHANGED keyVars
    BY <1>1 DEF keyVars, KeysInv, KeysTypeOK, StoredAt, StorageKeys
  <1>2. CASE Anew
    BY <1>2 DEF Anew, Nothing, KeysInv, KeysTypeOK, StoredAt, StorageKeys
  <1>3. CASE \E l \in Logins, k \in KeysAsked, v \in Fields : SetIndex(l, k, v)
    BY <1>3, SetIndexStep
  <1> QED
    BY <1>1, <1>2, <1>3 DEF KeysNext

LEMMA KeysInvariant == KeysSpec => []KeysInv
  BY KeysInitInv, KeysStep, PTL DEF KeysSpec, KeysInit

\* An object carries values under the storage keys (the metadata of a CS3 resource).
THEOREM KeysTyping == KeysSpec => []KeysTypeOK
  BY KeysInvariant, PTL DEF KeysInv

\* Any login is shown the last value of a field by the client key it wrote it with, as
\* long as one key, one spelling and one namespace stand for the field
\* (ToStorageKey, ToClientKey, the update of an object's index fields).
THEOREM LastWriteShown == KeysSpec => []LastWriteIsShown
  <1>1. KeysInv => LastWriteIsShown
    <2> SUFFICES ASSUME KeysInv, NEW i \in DOMAIN writes, Apart,
                        \A k \in DOMAIN writes : SameWords(FieldOf(writes[k].key), FieldOf(writes[i].key))
                          => /\ writes[k].key = writes[i].key /\ k <= i
                             /\ NamespaceForUser(writes[k].login) = NamespaceForUser(writes[i].login)
                 PROVE  Shown(AsShown(writes[i].login, writes[i].key)) = {writes[i].value}
      BY DEF LastWriteIsShown
    <2>1. \A k \in DOMAIN writes : writes[k] \in Writes
      BY DEF KeysInv
    <2>2. PICK x : x = AsShown(writes[i].login, writes[i].key)
      OBVIOUS
    <2>3. x \in ToClientKey(StoredAt(i)) /\ StoredAt(i) \in StorageKeys
      BY <2>1, <2>2, ShownToWriter DEF StoredAt, StorageKeys, Writes
    <2>4. ASSUME NEW k \in DOMAIN writes, x \in ToClientKey(StoredAt(k))
          PROVE  k <= i /\ StoredAt(k) = StoredAt(i)
      <3>1. SameWords(FieldOf(writes[k].key), FieldOf(writes[i].key))
        BY <2>1, <2>2, <2>4, ShowsTheField DEF StoredAt, Writes
      <3> QED
        BY <3>1 DEF StoredAt, ToStorageKey
    <2>5. \A k \in DOMAIN writes : StoredAt(k) = StoredAt(i) => k <= i
      BY <2>3, <2>4
    <2>6. metadata[StoredAt(i)] = writes[i].value
      BY <2>5 DEF KeysInv
    <2>7. metadata[StoredAt(i)] # Unset
      BY <2>1, <2>6, KeyConstants DEF Writes
    <2>8. \A c \in Carried : x \in ToClientKey(c) => c = StoredAt(i)
      BY <2>4 DEF Carried, KeysInv
    <2>9. {c \in Carried : x \in ToClientKey(c)} = {StoredAt(i)}
      BY <2>3, <2>7, <2>8 DEF Carried
    <2> QED
      BY <2>2, <2>6, <2>9 DEF Shown
  <1> QED
    BY <1>1, KeysInvariant, PTL

-----------------------------------------------------------------------------
(***************************************************************************)
(* Recursive listings.  A folder is on the way of a walk twice only if     *)
(* somebody moved it in between: each open folder is remembered with the   *)
(* moves there were when it was listed, and folders listed since the last  *)
(* move are in each other, in a tree without circles.                      *)
(***************************************************************************)
LEMMA OverIs ==
  ASSUME NEW p, NEW n \in Nodes
  PROVE  Over(p, n) = {p[n]} \cup IF p[n] \in Nodes THEN Over(p, p[n]) ELSE {}
  <1> DEFINE U == Nodes \cup {p[x] : x \in Nodes}
             Downward(S) == \A y \in S : y \in Nodes => p[y] \in S
             Reach(x) == {y \in U : \A S \in SUBSET U : p[x] \in S /\ Downward(S) => y \in S}
             R == [x \in Nodes |-> Reach(x)]
             Is(f) == f = [x \in Nodes |-> {p[x]} \cup IF p[x] \in Nodes THEN f[p[x]] ELSE {}]
  <1>1. ASSUME NEW x \in Nodes, p[x] \in Nodes
        PROVE  Reach(x) = {p[x]} \cup Reach(p[x])
    <2> DEFINE T == {p[x]} \cup Reach(p[x])
    <2>1. T \subseteq Reach(x)
      <3>1. \A S \in SUBSET U : p[x] \in S /\ Downward(S) => p[p[x]] \in S
        BY <1>1
      <3> QED
        BY <1>1, <3>1
    <2>2. T \in SUBSET U /\ p[x] \in T
      BY <1>1
    <2>3. Downward(T)
      <3>1. p[p[x]] \in Reach(p[x])
        BY <1>1
      <3>2. ASSUME NEW y \in Reach(p[x]), y \in Nodes
            PROVE  p[y] \in Reach(p[x])
        BY <3>2
      <3> QED
        BY <3>1, <3>2
    <2>4. Reach(x) \subseteq T
      <3> HIDE DEF T
      <3> QED
        BY <2>2, <2>3
    <2> QED
      BY <2>1, <2>4
  <1>2. ASSUME NEW x \in Nodes, p[x] \notin Nodes
        PROVE  Reach(x) = {p[x]}
    <2>1. {p[x]} \in SUBSET U /\ Downward({p[x]})
      BY <1>2
    <2> QED
      BY <2>1
  <1>3. Is(R)
    <2> HIDE DEF Reach
    <2>1. \A x \in Nodes : R[x] = {p[x]} \cup IF p[x] \in Nodes THEN R[p[x]] ELSE {}
      BY <1>1, <1>2
    <2> QED
      BY <2>1
  <1> HIDE DEF R, Reach, Downward
  <1>4. \E f : Is(f) /\ \A x \in Nodes : Over(p, x) = f[x]
    BY <1>3 DEF Over
  <1>5. PICK f : Is(f) /\ \A x \in Nodes : Over(p, x) = f[x]
    BY <1>4
  <1> QED
    BY <1>5

\* A move never makes a circle.
LEMMA MovesKeepTree ==
  ASSUME NEW p, p = [x \in Nodes |-> p[x]], Tree(p), NEW n \in Nodes, NEW f, f \notin Under(p, n)
  PROVE  Tree([p EXCEPT ![n] = f])
  <1> DEFINE q == [p EXCEPT ![n] = f]
  <1> SUFFICES ASSUME NEW S \in SUBSET Nodes, S # {}, \A x \in S : q[x] \in S
               PROVE  FALSE
    BY DEF Tree
  <1>1. q[n] = f /\ \A x \in Nodes \ {n} : q[x] = p[x]
    OBVIOUS
  <1> HIDE DEF q
  <1>2. CASE n \notin S
    BY <1>1, <1>2 DEF Tree
  <1>3. CASE n \in S
    <2> DEFINE T == {x \in S : n # x /\ n \notin Over(p, x)}
    <2>1. f \in T
      BY <1>1, <1>3 DEF Under
    <2>2. ASSUME NEW x \in T PROVE p[x] \in T
      <3>1. p[x] \in S
        BY <1>1
      <3>2. Over(p, x) = {p[x]} \cup Over(p, p[x])
        BY <3>1, OverIs
      <3> QED
        BY <3>1, <3>2
    <2>3. T \in SUBSET Nodes
      OBVIOUS
    <2> HIDE DEF T
    <2> QED
      BY <2>1, <2>2, <2>3 DEF Tree
  <1> QED
    BY <1>2, <1>3

-----------------------------------------------------------------------------
\* The folders that are being listed, outermost first.
OneFrame(f) ==
  /\ f = [folder |-> f.folder, rest |-> f.rest, left |-> f.left, at |-> f.at]
  /\ f.rest \in Seq(Nodes)

FrameAt(f, i, limit) ==
  /\ OneFrame(f)
  /\ i > 1 => f.folder \in FolderNodes
  /\ i = 1 => f.folder = Root
  /\ IF limit = Unlimited THEN f.left = Unlimited
                          ELSE f.left = limit - i + 1 /\ f.left >= 1

FramesOK(s, limit) ==
  /\ s = [i \in 1..Len(s) |-> s[i]] /\ Len(s) \in Nat
  /\ \A i \in 1..Len(s) : FrameAt(s[i], i, limit)

\* m tells how many moves there had been when a folder was listed.
Listed(s, m) ==
  /\ m \in [1..Len(s) -> 0..moves]
  /\ \A i, j \in 1..Len(s) : i < j => m[i] <= m[j] /\ (s[i].folder = s[j].folder => m[i] < m[j])
  /\ \A i \in 1..Len(s) : m[i] = moves =>
       /\ \A k \in DOMAIN s[i].rest : parentOf[s[i].rest[k]] = s[i].folder
       /\ i < Len(s) => parentOf[s[i + 1].folder] = s[i].folder

WalkShape(w) ==
  w = [op |-> w.op, limit |-> w.limit, open |-> w.open, found |-> w.found, failed |-> w.failed]

WalkInv ==
  /\ parentOf = [n \in Nodes |-> parentOf[n]] /\ Tree(parentOf)
  /\ moves \in Nat
  /\ WalkShape(walk) /\ walk.limit \in Nat \cup {Unlimited}
  /\ FramesOK(walk.open, walk.limit)
  /\ \E m : Listed(walk.open, m)

\* The innermost folder is done with.
LEMMA FrontKeeps ==
  ASSUME NEW s, NEW limit \in Int, FramesOK(s, limit), s # <<>>, NEW m, Listed(s, m), moves \in Nat
  PROVE  /\ FramesOK(Front(s), limit) /\ (\E k : Listed(Front(s), k))
         /\ Len(Front(s)) = Len(s) - 1 /\ Len(s) \in Nat \ {0}
         /\ \A i \in 1..(Len(s) - 1) : Front(s)[i] = s[i]
  <1>1. PICK n \in Nat : n = Len(s) /\ s = [i \in 1..n |-> s[i]]
    BY DEF FramesOK
  <1>2. n > 0
    BY <1>1
  <1>a. \A i \in 1..(n - 1) : i \in 1..n
    BY <1>2
  <1>3. Front(s) = [i \in 1..(n - 1) |-> s[i]]
    BY <1>1, <1>2 DEF Front
  <1>4. PICK u : u = Front(s)
    OBVIOUS
  <1>5. Len(u) = n - 1 /\ \A i \in 1..(n - 1) : u[i] = s[i]
    BY <1>2, <1>3, <1>4
  <1>6. FramesOK(u, limit)
    <2>1. u = [i \in 1..Len(u) |-> u[i]]
      BY <1>3, <1>4, <1>5
    <2>2. \A i \in 1..Len(u) : i \in 1..n /\ u[i] = s[i]
      BY <1>a, <1>5
    <2>3. \A i \in 1..n : FrameAt(s[i], i, limit)
      BY <1>1 DEF FramesOK
    <2>4. Len(u) \in Nat
      BY <1>1, <1>2, <1>5
    <2> QED
      BY <2>1, <2>2, <2>3, <2>4 DEF FramesOK
  <1>7. PICK k : k = [i \in 1..(n - 1) |-> m[i]]
    OBVIOUS
  <1>8. Listed(u, k)
    <2>1. \A i \in 1..Len(u) : k[i] = m[i] /\ i \in 1..Len(s) /\ u[i] = s[i]
      <3>1. n = Len(s)
        BY <1>1
      <3>2. \A i \in 1..(n - 1) : k[i] = m[i]
        BY <1>7
      <3> QED
        BY <1>a, <1>5, <3>1, <3>2
    <2>2. \A i \in 1..Len(u) : i < Len(u) => u[i + 1] = s[i + 1] /\ i < Len(s)
      BY <1>1, <1>2, <1>5
    <2>3. k \in [1..Len(u) -> 0..moves]
      <3>1. \A i \in 1..(n - 1) : m[i] \in 0..moves
        BY <1>1 DEF Listed
      <3> QED
        BY <1>5, <1>7, <3>1
    <2> QED
      BY <2>1, <2>2, <2>3 DEF Listed
  <1>9. Len(s) \in Nat \ {0} /\ Len(u) = Len(s) - 1 /\ \A i \in 1..(Len(s) - 1) : u[i] = s[i]
    <2>1. n = Len(s)
      BY <1>1
    <2> QED
      BY <1>2, <1>5, <2>1
  <1> QED
    BY <1>4, <1>6, <1>8, <1>9

\* What a step adds to the front: a frame on top.
LEMMA AppendIs ==
  ASSUME NEW u, NEW e, NEW n \in Nat, u = [i \in 1..n |-> u[i]]
  PROVE  /\ Append(u, e) = [i \in 1..(n + 1) |-> Append(u, e)[i]] /\ Len(Append(u, e)) = n + 1
         /\ \A i \in 1..n : i \in 1..(n + 1) /\ Append(u, e)[i] = u[i]
         /\ Append(u, e)[n + 1] = e
         /\ \A i \in 1..(n + 1) : i \in 1..n \/ i = n + 1
  <1>1. u \in Seq({u[i] : i \in 1..n} \cup {e}) /\ Len(u) = n
    <2> DEFINE D == {u[i] : i \in 1..n} \cup {e}
    <2>1. u \in [1..n -> D]
      BY Zenon
    <2> HIDE DEF D
    <2>2. u \in Seq(D) /\ Len(u) = n
      BY <2>1
    <2> QED
      BY <2>2 DEF D
  <1> QED
    BY <1>1

\* The next object of the innermost list is taken off it.
LEMMA NextKeeps ==
  ASSUME NEW s, NEW limit \in Int, FramesOK(s, limit), s # <<>>, NEW m, Listed(s, m), moves \in Nat,
         NEW e, OneFrame(e), e.folder = s[Len(s)].folder, e.left = s[Len(s)].left,
         \A k \in DOMAIN e.rest : \E l \in DOMAIN s[Len(s)].rest : e.rest[k] = s[Len(s)].rest[l]
  PROVE  /\ FramesOK(Append(Front(s), e), limit) /\ Listed(Append(Front(s), e), m)
         /\ Len(Append(Front(s), e)) = Len(s) /\ Len(s) \in Nat \ {0}
         /\ Append(Front(s), e)[Len(s)] = e
  <1>1. PICK n, u, f, v : n = Len(s) /\ u = Front(s) /\ f = s[n] /\ v = Append(u, e)
    OBVIOUS
  <1>2. /\ FramesOK(u, limit) /\ Len(u) = n - 1 /\ n \in Nat \ {0}
        /\ \A i \in 1..(n - 1) : u[i] = s[i]
    BY <1>1, FrontKeeps
  <1>3. /\ v = [i \in 1..n |-> v[i]] /\ Len(v) = n
        /\ \A i \in 1..(n - 1) : i \in 1..n /\ v[i] = u[i]
        /\ v[n] = e
        /\ \A i \in 1..n : i \in 1..(n - 1) \/ i = n
    <2>1. u = [i \in 1..(n - 1) |-> u[i]] /\ n - 1 \in Nat /\ (n - 1) + 1 = n
      BY <1>2 DEF FramesOK
    <2>2. PICK k : k = n - 1
      OBVIOUS
    <2>3. k \in Nat /\ k + 1 = n /\ u = [i \in 1..k |-> u[i]]
      BY <2>1, <2>2
    <2> QED
      BY <1>1, <2>2, <2>3, AppendIs
  <1>4. \A i \in 1..n : FrameAt(v[i], i, limit)
    <2>1. FrameAt(f, n, limit)
      BY <1>1, <1>2 DEF FramesOK
    <2>2. FrameAt(e, n, limit)
      BY <1>1, <2>1 DEF FrameAt
    <2>3. \A i \in 1..(n - 1) : FrameAt(u[i], i, limit)
      BY <1>2 DEF FramesOK
    <2> QED
      BY <1>3, <2>2, <2>3
  <1>5. FramesOK(v, limit)
    BY <1>2, <1>3, <1>4 DEF FramesOK
  <1>6. Listed(v, m)
    <2>1. \A i \in 1..n : v[i].folder = s[i].folder
      BY <1>1, <1>2, <1>3
    <2>2. \A i \in 1..n : \A k \in DOMAIN v[i].rest : \E l \in DOMAIN s[i].rest : v[i].rest[k] = s[i].rest[l]
      BY <1>1, <1>2, <1>3
    <2>3. /\ m \in [1..n -> 0..moves]
          /\ \A i, j \in 1..n : i < j => m[i] <= m[j] /\ (s[i].folder = s[j].folder => m[i] < m[j])
          /\ \A i \in 1..n : m[i] = moves =>
               /\ \A k \in DOMAIN s[i].rest : parentOf[s[i].rest[k]] = s[i].folder
               /\ i < n => parentOf[s[i + 1].folder] = s[i].folder
      BY <1>1 DEF Listed
    <2>4. \A i \in 1..n : i < n => i + 1 \in 1..n
      BY <1>2
    <2>5. \A i, j \in 1..n : i < j => m[i] <= m[j] /\ (v[i].folder = v[j].folder => m[i] < m[j])
      BY <2>1, <2>3
    <2>6. \A i \in 1..n : m[i] = moves =>
               /\ \A k \in DOMAIN v[i].rest : parentOf[v[i].rest[k]] = v[i].folder
               /\ i < n => parentOf[v[i + 1].folder] = v[i].folder
      BY <2>1, <2>2, <2>3, <2>4
    <2> QED
      BY <1>3, <2>3, <2>5, <2>6 DEF Listed
  <1> QED
    BY <1>1, <1>2, <1>3, <1>5, <1>6

\* A folder that is listed now is inside the folders listed since the last move,
\* and in a tree none of those can be the folder itself.
LEMMA NoCircle ==
  ASSUME NEW s, NEW limit, FramesOK(s, limit), NEW m, Listed(s, m), moves \in Nat, Tree(parentOf),
         FolderNodes \subseteq Nodes, NEW x \in Nodes, Len(s) > 0,
         m[Len(s)] = moves => parentOf[x] = s[Len(s)].folder
  PROVE  \A i \in 1..Len(s) : s[i].folder = x => m[i] < moves
  <1>1. PICK n \in Nat : n = Len(s)
    BY DEF FramesOK
  <1>2. /\ m \in [1..n -> 0..moves]
        /\ \A i, j \in 1..n : i < j => m[i] <= m[j]
        /\ \A i \in 1..n : m[i] = moves => (i < n => parentOf[s[i + 1].folder] = s[i].folder)
        /\ \A i \in 1..n : i > 1 => s[i].folder \in Nodes
        /\ m[n] = moves => parentOf[x] = s[n].folder
    BY <1>1 DEF Listed, FramesOK, FrameAt
  <1> SUFFICES ASSUME NEW i \in 1..n, s[i].folder = x, m[i] = moves
               PROVE  FALSE
    <2>1. \A j \in 1..n : m[j] \in 0..moves
      BY <1>2
    <2> QED
      BY <1>1, <2>1
  <1>3. \A j \in 1..n : i <= j => m[j] = moves
    <2>1. \A j \in 1..n : m[j] <= moves
      BY <1>2
    <2>2. \A j \in 1..n : i < j => m[j] >= moves
      BY <1>2
    <2>3. \A j \in 1..n : m[j] \in Int
      BY <1>2
    <2> QED
      BY <2>1, <2>2, <2>3
  <1> DEFINE S == {x} \cup {s[j].folder : j \in (i + 1)..n}
  <1>4. S \in SUBSET Nodes /\ S # {}
    BY <1>2
  <1>5. \A j \in i..n : s[j].folder \in S
    OBVIOUS
  <1>6. parentOf[x] \in S
    BY <1>1, <1>2, <1>3, <1>5
  <1>7. \A j \in (i + 1)..n : parentOf[s[j].folder] \in S
    <2> SUFFICES ASSUME NEW j \in (i + 1)..n PROVE parentOf[s[j].folder] \in S
      OBVIOUS
    <2>1. PICK k : k = j - 1
      OBVIOUS
    <2>2. k \in 1..n /\ k \in i..n /\ k < n /\ i <= k /\ j = k + 1
      BY <2>1
    <2> QED
      BY <1>2, <1>3, <1>5, <2>2
  <1>8. \A y \in S : parentOf[y] \in S
    BY <1>6, <1>7
  <1> HIDE DEF S
  <1> QED
    BY <1>4, <1>8 DEF Tree

\* A frame for a folder listed now.
Fresh(e, x) ==
  /\ OneFrame(e) /\ e.folder = x
  /\ \A k \in DOMAIN e.rest : parentOf[e.rest[k]] = x

LEMMA EnterKeeps ==
  ASSUME NEW s, NEW limit \in Int, FramesOK(s, limit), NEW m, Listed(s, m), moves \in Nat, Tree(parentOf),
         FolderNodes \subseteq Nodes, NEW x \in FolderNodes, Len(s) \in Nat \ {0},
         m[Len(s)] = moves => parentOf[x] = s[Len(s)].folder,
         NEW e, Fresh(e, x), GoesDown(s[Len(s)].left), e.left = LeftBelow(s[Len(s)].left)
  PROVE  FramesOK(Append(s, e), limit) /\ \E k : Listed(Append(s, e), k)
  <1>1. PICK n, v : n = Len(s) /\ v = Append(s, e)
    OBVIOUS
  <1>2. /\ n \in Nat \ {0} /\ \A i \in 1..n : FrameAt(s[i], i, limit)
        /\ s = [i \in 1..n |-> s[i]]
    BY <1>1 DEF FramesOK
  <1>3. /\ v = [i \in 1..(n + 1) |-> v[i]] /\ Len(v) = n + 1
        /\ \A i \in 1..n : i \in 1..(n + 1) /\ v[i] = s[i]
        /\ v[n + 1] = e
        /\ \A i \in 1..(n + 1) : i \in 1..n \/ i = n + 1
    BY <1>1, <1>2, AppendIs
  <1>4. FramesOK(v, limit)
    <2>1. FrameAt(s[n], n, limit)
      BY <1>2
    <2>2. FrameAt(e, n + 1, limit)
      <3>1. CASE limit = Unlimited
        BY <1>1, <1>2, <2>1, <3>1 DEF FrameAt, Fresh, LeftBelow
      <3>2. CASE limit # Unlimited
        <4>1. s[n].left = limit - n + 1 /\ s[n].left >= 1 /\ s[n].left # 1
          BY <1>1, <2>1, <3>2 DEF FrameAt, GoesDown
        <4>2. e.left = s[n].left - 1
          BY <1>1, <1>2, <4>1 DEF LeftBelow, Unlimited
        <4>3. e.left = limit - (n + 1) + 1 /\ e.left >= 1
          BY <1>2, <4>1, <4>2
        <4> QED
          BY <1>2, <3>2, <4>3 DEF FrameAt, Fresh
      <3> QED
        BY <3>1, <3>2
    <2>3. \A i \in 1..(n + 1) : FrameAt(v[i], i, limit)
      BY <1>2, <1>3, <2>2
    <2> QED
      BY <1>2, <1>3, <2>3 DEF FramesOK
  <1>5. \A i \in 1..n : s[i].folder = x => m[i] < moves
    BY <1>1, <1>2, NoCircle
  <1>6. PICK k : k = [i \in 1..(n + 1) |-> IF i = n + 1 THEN moves ELSE m[i]]
    OBVIOUS
  <1>7. k[n + 1] = moves /\ \A i \in 1..n : k[i] = m[i]
    BY <1>2, <1>6
  <1>8. Listed(v, k)
    <2>1. /\ m \in [1..n -> 0..moves]
          /\ \A i, j \in 1..n : i < j => m[i] <= m[j] /\ (s[i].folder = s[j].folder => m[i] < m[j])
          /\ \A i \in 1..n : m[i] = moves =>
               /\ \A l \in DOMAIN s[i].rest : parentOf[s[i].rest[l]] = s[i].folder
               /\ i < n => parentOf[s[i + 1].folder] = s[i].folder
          /\ m[n] = moves => parentOf[x] = s[n].folder
      BY <1>1 DEF Listed
    <2>2. k \in [1..(n + 1) -> 0..moves]
      BY <1>3, <1>6, <2>1
    <2>3. ASSUME NEW i \in 1..(n + 1), NEW j \in 1..(n + 1), i < j
          PROVE  k[i] <= k[j] /\ (v[i].folder = v[j].folder => k[i] < k[j])
      <3>1. i \in 1..n
        BY <1>2, <2>3
      <3>2. CASE j \in 1..n
        BY <1>3, <1>7, <2>1, <2>3, <3>1, <3>2
      <3>3. CASE j = n + 1
        <4>1. k[i] <= moves
          BY <1>7, <2>1, <3>1
        <4>2. v[i] = s[i] /\ v[j] = e /\ e.folder = x /\ k[j] = moves
          BY <1>3, <1>7, <3>1, <3>3 DEF Fresh
        <4> QED
          BY <1>5, <1>7, <3>1, <4>1, <4>2
      <3> QED
        BY <1>3, <3>2, <3>3
    <2>4. ASSUME NEW i \in 1..(n + 1), k[i] = moves
          PROVE  /\ \A l \in DOMAIN v[i].rest : parentOf[v[i].rest[l]] = v[i].folder
                 /\ i < n + 1 => parentOf[v[i + 1].folder] = v[i].folder
      <3>1. CASE i = n + 1
        BY <1>2, <1>3, <3>1 DEF Fresh
      <3>2. CASE i \in 1..n
        <4>1. \A l \in DOMAIN v[i].rest : parentOf[v[i].rest[l]] = v[i].folder
          BY <1>3, <1>7, <2>1, <2>4, <3>2
        <4>2. CASE i = n
          BY <1>2, <1>3, <1>7, <2>1, <2>4, <3>2, <4>1, <4>2 DEF Fresh
        <4>3. CASE i # n
          <5>1. i < n /\ i + 1 \in 1..n
            BY <1>2, <3>2, <4>3
          <5> QED
            BY <1>3, <1>7, <2>1, <2>4, <3>2, <4>1, <5>1
        <4> QED
          BY <4>2, <4>3
      <3> QED
        BY <1>3, <3>1, <3>2
    <2> QED
      BY <1>3, <2>2, <2>3, <2>4 DEF Listed
  <1> QED
    BY <1>1, <1>4, <1>8

\* What a listing answers with is a frame for its folder.
LEMMA ListsFresh ==
  ASSUME parentOf = [n \in Nodes |-> parentOf[n]], NEW x, NEW ns \in Lists(x), NEW left
  PROVE  LET e == OpenFolder(x, ns, left) IN Fresh(e, x) /\ e.left = left
  <1>1. In(parentOf, x) \subseteq Nodes /\ \A y \in In(parentOf, x) : parentOf[y] = x
    BY DEF In
  <1>2. IsFiniteSet(In(parentOf, x)) /\ Cardinality(In(parentOf, x)) \in Nat
    BY <1>1, WalkConstants, FS_Subset, FS_CardinalityType
  <1>3. PICK N \in Nat : N = Cardinality(In(parentOf, x))
    BY <1>2
  <1>4. ns \in [1..N -> In(parentOf, x)]
    BY <1>3 DEF Lists, SetToSeqs
  <1>5. ns \in Seq(Nodes) /\ \A k \in DOMAIN ns : parentOf[ns[k]] = x
    <2>1. PICK D : D = In(parentOf, x)
      OBVIOUS
    <2>2. ns \in [1..N -> D] /\ D \subseteq Nodes /\ \A y \in D : parentOf[y] = x
      BY <1>1, <1>4, <2>1
    <2>3. DOMAIN ns = 1..N /\ \A k \in 1..N : ns[k] \in D
      BY <2>2
    <2>4. ns \in [1..N -> Nodes]
      BY <2>2
    <2>5. ns \in Seq(Nodes)
      BY <2>4
    <2> QED
      BY <2>2, <2>3, <2>5
  <1> QED
    BY <1>5 DEF OpenFolder, Fresh, OneFrame

LEMMA EmptyKeeps ==
  ASSUME NEW limit PROVE FramesOK(<<>>, limit) /\ \E m : Listed(<<>>, m)
  <1>1. <<>> = [i \in 1..0 |-> <<>>[i]] /\ Len(<<>>) = 0 /\ 1..0 = {}
    OBVIOUS
  <1>2. PICK m : m = [i \in 1..0 |-> 0]
    OBVIOUS
  <1>3. Listed(<<>>, m)
    BY <1>1, <1>2 DEF Listed
  <1> QED
    BY <1>1, <1>3 DEF FramesOK

\* A walk begins with one listing.
LEMMA FirstKeeps ==
  ASSUME NEW limit \in Int, limit = Unlimited \/ limit >= 1, moves \in Nat,
         NEW e, Fresh(e, Root), e.left = limit
  PROVE  FramesOK(Append(<<>>, e), limit) /\ \E m : Listed(Append(<<>>, e), m)
  <1>1. PICK v : v = Append(<<>>, e)
    OBVIOUS
  <1>2. v = [i \in 1..1 |-> v[i]] /\ Len(v) = 1 /\ v[1] = e
    BY <1>1
  <1>3. FramesOK(v, limit)
    BY <1>2 DEF FramesOK, FrameAt, Fresh, Unlimited
  <1>4. PICK m : m = [i \in 1..1 |-> moves]
    OBVIOUS
  <1>5. Listed(v, m)
    BY <1>2, <1>4 DEF Listed, Fresh
  <1> QED
    BY <1>1, <1>3, <1>5

LEMMA WalkInit == WalksInit => WalkInv
  <1> SUFFICES ASSUME WalksInit PROVE WalkInv
    OBVIOUS
  <1>1. PICK w : w = NoWalk
    OBVIOUS
  <1>2. WalkShape(w) /\ w.limit = 0 /\ w.open = <<>>
    BY <1>1 DEF NoWalk, WalkShape
  <1>3. parentOf = [n \in Nodes |-> parentOf[n]] /\ Tree(parentOf) /\ moves \in Nat /\ walk = w
    BY <1>1, WalkConstants, WalkBeginsWithTree DEF WalksInit
  <1> QED
    BY <1>2, <1>3, EmptyKeeps DEF WalkInv

\* What List makes of the walk it goes on with.
Went(f, left, then) ==
  \/ walk' = then
  \/ walk' = [then EXCEPT !.failed = @ \cup {f}]
  \/ \E ns \in Lists(f) : walk' = [then EXCEPT !.open = Append(@, OpenFolder(f, ns, left))]

LEMMA ListCases ==
  ASSUME NEW f, NEW left, NEW then, Went(f, left, then), WalkShape(then)
  PROVE  /\ WalkShape(walk') /\ walk'.limit = then.limit
         /\ \/ walk'.open = then.open
            \/ \E ns \in Lists(f) : walk'.open = Append(then.open, OpenFolder(f, ns, left))
  <1>1. CASE walk' = then \/ walk' = [then EXCEPT !.failed = @ \cup {f}]
    BY <1>1 DEF WalkShape
  <1>2. ASSUME NEW ns \in Lists(f), walk' = [then EXCEPT !.open = Append(@, OpenFolder(f, ns, left))]
        PROVE  /\ WalkShape(walk') /\ walk'.limit = then.limit
               /\ walk'.open = Append(then.open, OpenFolder(f, ns, left))
    BY <1>2 DEF WalkShape
  <1> QED
    BY <1>1, <1>2 DEF Went

LEMMA StartKeeps ==
  ASSUME WalkInv, NEW op, NEW limit \in Int, limit = Unlimited \/ limit >= 1, Starts(op, limit)
  PROVE  WalkInv'
  <1>1. PICK w : w = [NoWalk EXCEPT !.op = op, !.limit = limit]
    OBVIOUS
  <1>2. WalkShape(w) /\ w.limit = limit /\ w.open = <<>>
    BY <1>1 DEF NoWalk, WalkShape
  <1>3. Went(Root, limit, w) /\ UNCHANGED <<parentOf, moves>>
    BY <1>1 DEF Starts, List, Went
  <1>4. /\ WalkShape(walk') /\ walk'.limit = limit
        /\ \/ walk'.open = <<>>
           \/ \E ns \in Lists(Root) : walk'.open = Append(<<>>, OpenFolder(Root, ns, limit))
    <2>1. /\ WalkShape(walk') /\ walk'.limit = w.limit
          /\ \/ walk'.open = w.open
             \/ \E ns \in Lists(Root) : walk'.open = Append(w.open, OpenFolder(Root, ns, limit))
      BY <1>2, <1>3, ListCases
    <2> QED
      BY <1>2, <2>1
  <1>5. FramesOK(walk'.open, limit) /\ \E m : Listed(walk'.open, m)
    <2>1. parentOf = [n \in Nodes |-> parentOf[n]] /\ moves \in Nat
      BY DEF WalkInv
    <2>2. ASSUME NEW ns \in Lists(Root), walk'.open = Append(<<>>, OpenFolder(Root, ns, limit))
          PROVE  FramesOK(walk'.open, limit) /\ \E m : Listed(walk'.open, m)
      <3>1. PICK e : e = OpenFolder(Root, ns, limit)
        OBVIOUS
      <3>2. Fresh(e, Root) /\ e.left = limit
        BY <2>1, <3>1, ListsFresh
      <3> QED
        BY <2>1, <2>2, <3>1, <3>2, FirstKeeps
    <2> QED
      BY <1>4, <2>2, EmptyKeeps
  <1>6. \A m : Listed(walk'.open, m) => Listed(walk.open, m)'
    BY <1>3 DEF Listed
  <1> QED
    BY <1>3, <1>4, <1>5, <1>6 DEF WalkInv

LEMMA VisitKeeps ==
  ASSUME WalkInv, Visit
  PROVE  WalkInv'
  <1> DEFINE s == walk.open
             limit == walk.limit
             top == Last(s)
             n == Head(top.rest)
             passed == [walk EXCEPT !.open = Append(Front(s), [top EXCEPT !.rest = Tail(@)])]
             counted == IF n \in Keeps(walk.op) THEN [passed EXCEPT !.found[n] = @ + 1] ELSE passed
  <1>1. /\ UNCHANGED <<parentOf, moves>> /\ s # <<>>
        /\ WalkShape(walk) /\ limit \in Int /\ FramesOK(s, limit) /\ moves \in Nat /\ Tree(parentOf)
        /\ parentOf = [x \in Nodes |-> parentOf[x]]
    BY DEF Visit, WalkInv, Unlimited
  <1>2. PICK m : Listed(s, m)
    BY DEF WalkInv
  <1>3. top = s[Len(s)]
    BY DEF Last
  <1>4. SUFFICES /\ WalkShape(walk') /\ walk'.limit = limit
                 /\ FramesOK(walk'.open, limit) /\ \E k : Listed(walk'.open, k)
    <2>1. \A k : Listed(walk'.open, k) => Listed(walk.open, k)'
      BY <1>1 DEF Listed
    <2> QED
      BY <1>1, <1>4, <2>1 DEF WalkInv
  <1>5. CASE walk' = [walk EXCEPT !.open = Front(s)]
    <2>1. WalkShape(walk') /\ walk'.limit = limit /\ walk'.open = Front(s)
      BY <1>1, <1>5 DEF WalkShape
    <2> HIDE DEF s, limit
    <2> QED
      BY <1>1, <1>2, <2>1, FrontKeeps
  <1>6. CASE /\ top.rest # <<>>
             /\ IF n \in FolderNodes /\ GoesDown(top.left)
                  THEN List(n, StillThere(n, top.at[n]), LeftBelow(top.left), counted)
                  ELSE walk' = counted
    <2>1. PICK e : e = [top EXCEPT !.rest = Tail(@)]
      OBVIOUS
    <2>2. OneFrame(top) /\ Len(s) \in Nat \ {0}
      <3> HIDE DEF s, limit
      <3> QED
        BY <1>1, <1>2, <1>3, FrontKeeps DEF FramesOK, FrameAt
    <2>3. top.rest \in Seq(Nodes) /\ top.rest # <<>>
      BY <1>6, <2>2 DEF OneFrame
    <2>4. /\ OneFrame(e) /\ e.folder = top.folder /\ e.left = top.left
          /\ e.rest = Tail(top.rest)
      <3>1. PICK f, r : f = top /\ r = Tail(f.rest)
        OBVIOUS
      <3>2. r \in Seq(Nodes)
        BY <2>3, <3>1
      <3>3. e = [f EXCEPT !.rest = r]
        BY <2>1, <3>1
      <3>4. f = [folder |-> f.folder, rest |-> f.rest, left |-> f.left, at |-> f.at]
        BY <2>2, <3>1 DEF OneFrame
      <3>5. e = [folder |-> f.folder, rest |-> r, left |-> f.left, at |-> f.at]
        BY <3>3, <3>4
      <3> QED
        BY <3>1, <3>2, <3>5 DEF OneFrame
    <2>5. \A k \in DOMAIN e.rest : \E l \in DOMAIN top.rest : e.rest[k] = top.rest[l]
      <3> HIDE DEF top
      <3>1. \A k \in DOMAIN Tail(top.rest) : k + 1 \in DOMAIN top.rest /\ Tail(top.rest)[k] = top.rest[k + 1]
        BY <2>3
      <3> QED
        BY <2>4, <3>1
    <2>6. PICK v : v = Append(Front(s), e)
      OBVIOUS
    <2>7. FramesOK(v, limit) /\ Listed(v, m) /\ Len(v) = Len(s) /\ v[Len(v)] = e
      <3>1. /\ e.folder = s[Len(s)].folder /\ e.left = s[Len(s)].left
            /\ \A k \in DOMAIN e.rest : \E l \in DOMAIN s[Len(s)].rest : e.rest[k] = s[Len(s)].rest[l]
        BY <1>3, <2>4, <2>5
      <3> HIDE DEF s, limit, top
      <3>2. /\ FramesOK(Append(Front(s), e), limit) /\ Listed(Append(Front(s), e), m)
            /\ Len(Append(Front(s), e)) = Len(s) /\ Append(Front(s), e)[Len(s)] = e
        BY <1>1, <1>2, <2>4, <3>1, NextKeeps
      <3> QED
        BY <2>6, <3>2
    <2>8. WalkShape(counted) /\ counted.limit = limit /\ counted.open = v
      <3>1. PICK w : w = passed
        OBVIOUS
      <3>2. WalkShape(w) /\ w.limit = limit /\ w.open = v
        BY <1>1, <2>1, <2>6, <3>1 DEF WalkShape
      <3>3. PICK x : x = n
        OBVIOUS
      <3>4. PICK u : u = [w EXCEPT !.found[x] = @ + 1]
        OBVIOUS
      <3>5. WalkShape(u) /\ u.limit = limit /\ u.open = v
        BY <3>2, <3>4 DEF WalkShape
      <3>6. counted = u \/ counted = w
        BY <3>1, <3>3, <3>4
      <3> QED
        BY <3>2, <3>5, <3>6
    <2> HIDE DEF counted, passed
    <2>9. CASE walk' = counted
      BY <2>7, <2>8, <2>9
    <2>10. CASE n \in FolderNodes /\ GoesDown(top.left) /\ List(n, StillThere(n, top.at[n]), LeftBelow(top.left), counted)
      <3>1. /\ WalkShape(walk') /\ walk'.limit = limit
            /\ \/ walk'.open = v
               \/ \E ns \in Lists(n) : walk'.open = Append(v, OpenFolder(n, ns, LeftBelow(top.left)))
        <4>1. Went(n, LeftBelow(top.left), counted)
          BY <2>10 DEF List, Went
        <4> QED
          BY <2>8, <4>1, ListCases
      <3>2. m[Len(v)] = moves => parentOf[n] = e.folder
        <4>1. n = top.rest[1] /\ 1 \in DOMAIN top.rest
          BY <2>3
        <4>2. m[Len(s)] = moves => \A k \in DOMAIN top.rest : parentOf[top.rest[k]] = top.folder
          BY <1>2, <1>3, <2>2 DEF Listed
        <4> QED
          BY <2>4, <2>7, <4>1, <4>2
      <3>3. ASSUME NEW ns \in Lists(n)
            PROVE  LET w == Append(v, OpenFolder(n, ns, LeftBelow(top.left)))
                   IN  FramesOK(w, limit) /\ \E k : Listed(w, k)
        <4>1. PICK d, x : d = OpenFolder(n, ns, LeftBelow(top.left)) /\ x = n
          OBVIOUS
        <4>2. Fresh(d, x) /\ d.left = LeftBelow(e.left)
          BY <1>1, <2>4, <4>1, ListsFresh
        <4>3. x \in FolderNodes /\ GoesDown(e.left) /\ (m[Len(v)] = moves => parentOf[x] = e.folder)
          BY <2>4, <2>10, <3>2, <4>1
        <4>4. Len(v) \in Nat \ {0} /\ v[Len(v)] = e /\ FolderNodes \subseteq Nodes
          BY <2>2, <2>7, WalkConstants
        <4> HIDE DEF n, top, s, limit
        <4>5. FramesOK(Append(v, d), limit) /\ \E k : Listed(Append(v, d), k)
          BY <1>1, <2>7, <4>2, <4>3, <4>4, EnterKeeps
        <4> QED
          BY <4>1, <4>5
      <3> QED
        BY <2>7, <3>1, <3>3
    <2> QED
      BY <1>6, <2>9, <2>10
  <1> QED
    BY <1>5, <1>6 DEF Visit

LEMMA MoveKeeps ==
  ASSUME WalkInv, MoveNode
  PROVE  WalkInv'
  <1>1. PICK n \in Nodes, f \in FolderNodes \cup {Root, Outside} :
          /\ f \notin Under(parentOf, n) /\ parentOf' = [parentOf EXCEPT ![n] = f]
    BY DEF MoveNode
  <1>2. moves' = moves + 1 /\ walk' = walk /\ moves \in Nat
    BY DEF MoveNode, WalkInv
  <1>3. Tree(parentOf') /\ parentOf' = [x \in Nodes |-> parentOf'[x]]
    BY <1>1, MovesKeepTree DEF WalkInv
  <1>4. PICK m : Listed(walk.open, m)
    BY DEF WalkInv
  <1>5. Listed(walk.open, m)'
    <2>1. PICK s : s = walk.open
      OBVIOUS
    <2>2. Len(s) \in Nat
      BY <2>1 DEF WalkInv, FramesOK
    <2>3. /\ m \in [1..Len(s) -> 0..moves]
          /\ \A i, j \in 1..Len(s) : i < j => m[i] <= m[j] /\ (s[i].folder = s[j].folder => m[i] < m[j])
      BY <1>4, <2>1 DEF Listed
    <2>4. m \in [1..Len(s) -> 0..moves'] /\ \A i \in 1..Len(s) : m[i] # moves'
      <3>1. \A i \in 1..Len(s) : m[i] \in 0..moves' /\ m[i] # moves'
        BY <1>2, <2>3
      <3> QED
        BY <2>3, <3>1
    <2> QED
      BY <1>2, <2>1, <2>3, <2>4 DEF Listed
  <1> QED
    BY <1>2, <1>3, <1>5 DEF WalkInv

LEMMA WalkKeeps == WalkInv /\ [WalksNext]_walkVars => WalkInv'
  <1> SUFFICES ASSUME WalkInv, [WalksNext]_walkVars PROVE WalkInv'
    OBVIOUS
  <1>1. CASE UNCHANGED walkVars
    BY <1>1 DEF walkVars, WalkInv, Listed
  <1>2. ASSUME NEW op, NEW limit, Starts(op, limit), limit \in Nat \ {0} \/ limit = Unlimited
        PROVE  WalkInv'
    <2>1. limit \in Int /\ (limit = Unlimited \/ limit >= 1)
      BY <1>2 DEF Unlimited
    <2> QED
      BY <1>2, <2>1, StartKeeps
  <1>3. CASE ListRecursive \/ Crawl
    BY <1>2, <1>3, WalkConstants DEF ListRecursive, Crawl
  <1>4. CASE GetDescendants \/ GetFolderTree
    BY <1>2, <1>4, WalkConstants DEF GetDescendants, GetFolderTree
  <1>5. CASE Answer
    <2>1. PICK w : w = NoWalk
      OBVIOUS
    <2>2. WalkShape(w) /\ w.limit = 0 /\ w.open = <<>>
      BY <2>1 DEF NoWalk, WalkShape
    <2>3. \A m : Listed(<<>>, m) => Listed(<<>>, m)'
      BY <1>5 DEF Answer, Listed
    <2> QED
      BY <1>5, <2>1, <2>2, <2>3, EmptyKeeps DEF Answer, WalkInv
  <1> QED
    BY <1>1, <1>3, <1>4, <1>5, VisitKeeps, MoveKeeps DEF WalksNext

\* However folders are moved under a walk, it lists no deeper than it was asked,
\* and without a limit meets a folder no more often than folders were moved.
THEOREM DepthIsKept == WalksSpec => []StaysWithinDepth
  <1>1. WalkInv => StaysWithinDepth
    <2> SUFFICES ASSUME WalkInv PROVE StaysWithinDepth
      OBVIOUS
    <2>1. PICK s : s = walk.open
      OBVIOUS
    <2>2. FramesOK(s, walk.limit) /\ walk.limit \in Nat \cup {Unlimited} /\ moves \in Nat
      BY <2>1 DEF WalkInv
    <2>3. PICK n \in Nat : n = Len(s) /\ DOMAIN s = 1..n
      BY <2>2 DEF FramesOK
    <2>4. CASE walk.limit # Unlimited
      <3>1. CASE n = 0
        BY <2>1, <2>2, <2>3, <2>4, <3>1 DEF StaysWithinDepth
      <3>2. CASE n > 0
        <4>1. FrameAt(s[n], n, walk.limit)
          BY <2>2, <2>3, <3>2 DEF FramesOK
        <4>2. n <= walk.limit
          BY <2>2, <2>4, <4>1 DEF FrameAt
        <4> QED
          BY <2>1, <2>3, <2>4, <4>2 DEF StaysWithinDepth
      <3> QED
        BY <2>3, <3>1, <3>2
    <2>5. CASE walk.limit = Unlimited
      <3> SUFFICES ASSUME NEW f
                   PROVE  Cardinality({i \in DOMAIN s : s[i].folder = f}) <= moves + 1
        BY <2>1, <2>5 DEF StaysWithinDepth
      <3>1. PICK m : Listed(s, m)
        BY <2>1 DEF WalkInv
      <3> DEFINE I == {i \in 1..n : s[i].folder = f}
      <3>2. PICK k : k = [i \in I |-> m[i]]
        OBVIOUS
      <3>3. \A i \in 1..n : m[i] \in 0..moves
        BY <2>3, <3>1 DEF Listed
      <3>4. \A i, j \in I : i # j => m[i] # m[j]
        <4>1. \A i, j \in I : i < j => m[i] < m[j]
          BY <2>3, <3>1 DEF Listed
        <4>2. \A i, j \in I : i # j => i < j \/ j < i
          OBVIOUS
        <4> QED
          BY <3>3, <4>1, <4>2
      <3>5. k \in Injection(I, 0..moves)
        BY <3>2, <3>3, <3>4 DEF Injection, IsInjective
      <3>6. IsFiniteSet(0..moves) /\ Cardinality(0..moves) = moves + 1
        BY <2>2, FS_Interval
      <3>7. Cardinality(I) <= moves + 1
        BY <3>5, <3>6, FS_Injection
      <3> QED
        BY <2>3, <3>7
    <2> QED
      BY <2>4, <2>5
  <1> QED
    BY <1>1, WalkInit, WalkKeeps, PTL DEF WalksSpec

-----------------------------------------------------------------------------
(***************************************************************************)
(* What stays where it was is found once.  A node that was neither moved   *)
(* nor lay below what was moved is, all through a walk, either counted     *)
(* once or waits once on the way: itself in a list, or below what is in    *)
(* one (Once, Waits).                                                      *)
(***************************************************************************)
\* What holds of a node if it holds of the one above it, holds of every node.
LEMMA FromAbove ==
  ASSUME NEW p, Tree(p), NEW Good, \A n \in Nodes : (p[n] \in Nodes => p[n] \in Good) => n \in Good
  PROVE  Nodes \subseteq Good
  <1> DEFINE Bad == Nodes \ Good
  <1>1. Bad \in SUBSET Nodes
    OBVIOUS
  <1>2. ASSUME Bad # {} PROVE FALSE
    <2>1. PICK n \in Bad : p[n] \notin Bad
      <3> HIDE DEF Bad
      <3> QED
        BY <1>1, <1>2 DEF Tree
    <2> QED
      BY <2>1
  <1> QED
    BY <1>2

LEMMA OverWithin ==
  ASSUME NEW p, Tree(p), NEW S, \A y \in S : y \in Nodes => p[y] \in S,
         NEW n \in Nodes, p[n] \in S
  PROVE  Over(p, n) \subseteq S
  <1> DEFINE Good == {x \in Nodes : p[x] \in S => Over(p, x) \subseteq S}
  <1>1. ASSUME NEW x \in Nodes, p[x] \in Nodes => p[x] \in Good
        PROVE  x \in Good
    BY <1>1, OverIs
  <1>2. Nodes \subseteq Good
    <2> HIDE DEF Good
    <2> QED
      BY <1>1, FromAbove
  <1> QED
    BY <1>2

\* The folders above one above a node are above the node.
LEMMA OverUp ==
  ASSUME NEW p, Tree(p), NEW n \in Nodes, NEW x \in Over(p, n), x \in Nodes
  PROVE  p[x] \in Over(p, n) /\ Over(p, x) \subseteq Over(p, n)
  <1> DEFINE Good == {y \in Nodes : \A z \in Over(p, y) : z \in Nodes => p[z] \in Over(p, y)}
  <1>1. ASSUME NEW y \in Nodes, p[y] \in Nodes => p[y] \in Good
        PROVE  y \in Good
    <2>1. CASE p[y] \in Nodes
      <3>1. Over(p, y) = {p[y]} \cup Over(p, p[y]) /\ p[p[y]] \in Over(p, p[y])
        BY <2>1, OverIs
      <3> QED
        BY <1>1, <2>1, <3>1
    <2>2. CASE p[y] \notin Nodes
      <3>1. Over(p, y) = {p[y]}
        BY <2>2, OverIs
      <3> QED
        BY <2>2, <3>1
    <2> QED
      BY <2>1, <2>2
  <1>2. Nodes \subseteq Good
    <2> HIDE DEF Good
    <2> QED
      BY <1>1, FromAbove
  <1>3. \A z \in Over(p, n) : z \in Nodes => p[z] \in Over(p, n)
    BY <1>2
  <1>4. Over(p, x) \subseteq Over(p, n)
    BY <1>3, OverWithin
  <1> QED
    BY <1>3, <1>4

LEMMA NotOverItself ==
  ASSUME NEW p, Tree(p), NEW n \in Nodes
  PROVE  n \notin Over(p, n)
  <1> DEFINE Good == {y \in Nodes : y \notin Over(p, y)}
  <1>1. ASSUME NEW y \in Nodes, p[y] \in Nodes => p[y] \in Good
        PROVE  y \in Good
    <2>1. CASE p[y] \in Nodes
      <3>1. Over(p, y) = {p[y]} \cup Over(p, p[y]) /\ p[y] \notin Over(p, p[y])
        BY <1>1, <2>1, OverIs
      <3>2. y \in Over(p, p[y]) => p[y] \in Over(p, p[y])
        BY <2>1, OverUp
      <3> QED
        BY <3>1, <3>2
    <2>2. CASE p[y] \notin Nodes
      BY <2>2, OverIs
    <2> QED
      BY <2>1, <2>2
  <1>2. Nodes \subseteq Good
    <2> HIDE DEF Good
    <2> QED
      BY <1>1, FromAbove
  <1> QED
    BY <1>2

\* A node and the folders above it.
Way(p, n) == {n} \cup Over(p, n)

\* Each folder above a node has one of them in it, and no more.
LEMMA SomeBelow ==
  ASSUME NEW p, Tree(p), NEW n \in Nodes, NEW x \in Over(p, n)
  PROVE  \E c \in Way(p, n) \cap Nodes : p[c] = x
  <1> DEFINE Good == {y \in Nodes : \A z \in Over(p, y) : \E c \in Way(p, y) \cap Nodes : p[c] = z}
  <1>1. ASSUME NEW y \in Nodes, p[y] \in Nodes => p[y] \in Good
        PROVE  y \in Good
    <2>1. y \in Way(p, y) \cap Nodes
      BY DEF Way
    <2>2. CASE p[y] \in Nodes
      <3>1. Over(p, y) = {p[y]} \cup Over(p, p[y]) /\ Way(p, p[y]) \subseteq Way(p, y)
        BY <2>2, OverIs DEF Way
      <3> QED
        BY <1>1, <2>1, <2>2, <3>1
    <2>3. CASE p[y] \notin Nodes
      <3>1. Over(p, y) = {p[y]}
        BY <2>3, OverIs
      <3> QED
        BY <2>1, <3>1
    <2> QED
      BY <2>2, <2>3
  <1>2. Nodes \subseteq Good
    <2> HIDE DEF Good
    <2> QED
      BY <1>1, FromAbove
  <1> QED
    BY <1>2

LEMMA OneBelow ==
  ASSUME NEW p, Tree(p), NEW n \in Nodes, NEW c \in Way(p, n) \cap Nodes, NEW d \in Way(p, n) \cap Nodes,
         p[c] = p[d]
  PROVE  c = d
  <1> DEFINE Good == {y \in Nodes : \A a, b \in Way(p, y) \cap Nodes : p[a] = p[b] => a = b}
  <1>1. ASSUME NEW y \in Nodes, p[y] \in Nodes => p[y] \in Good
        PROVE  y \in Good
    <2>1. CASE p[y] \in Nodes
      <3>1. Over(p, y) = {p[y]} \cup Over(p, p[y]) /\ Way(p, y) = {y} \cup Way(p, p[y])
        BY <2>1, OverIs DEF Way
      <3>2. ASSUME NEW a \in Way(p, p[y]) \cap Nodes, p[a] = p[y] PROVE FALSE
        <4>1. p[y] \notin Over(p, p[y])
          BY <2>1, NotOverItself
        <4>2. CASE a = p[y]
          BY <2>1, <3>2, <4>1, <4>2, OverIs
        <4>3. CASE a \in Over(p, p[y])
          BY <2>1, <3>2, <4>1, <4>3, OverUp
        <4> QED
          BY <4>2, <4>3 DEF Way
      <3> QED
        BY <1>1, <2>1, <3>1, <3>2
    <2>2. CASE p[y] \notin Nodes
      <3>1. Way(p, y) \cap Nodes = {y}
        BY <2>2, OverIs DEF Way
      <3> QED
        BY <3>1
    <2> QED
      BY <2>1, <2>2
  <1>2. Nodes \subseteq Good
    <2> HIDE DEF Good
    <2> QED
      BY <1>1, FromAbove
  <1> QED
    BY <1>2

\* A move elsewhere leaves a node's path as it was.
LEMMA OverSame ==
  ASSUME NEW p, Tree(p), NEW q, Tree(q), NEW n \in Nodes, \A x \in Way(p, n) \cap Nodes : q[x] = p[x]
  PROVE  Over(q, n) = Over(p, n)
  <1>0. n \in Way(p, n) \cap Nodes
    BY DEF Way
  <1>1. Over(q, n) \subseteq Over(p, n)
    <2>1. \A y \in Over(p, n) : y \in Nodes => q[y] \in Over(p, n)
      BY OverUp DEF Way
    <2>2. q[n] \in Over(p, n)
      BY <1>0, OverIs
    <2>3. PICK S : S = Over(p, n)
      OBVIOUS
    <2>4. Over(q, n) \subseteq S
      BY <2>1, <2>2, <2>3, OverWithin
    <2> QED
      BY <2>3, <2>4
  <1>2. Over(p, n) \subseteq Over(q, n)
    <2>1. \A y \in Over(q, n) : y \in Nodes => p[y] \in Over(q, n)
      <3>1. \A y \in Over(q, n) : y \in Nodes => q[y] \in Over(q, n)
        BY OverUp
      <3> QED
        BY <1>1, <3>1 DEF Way
    <2>2. p[n] \in Over(q, n)
      BY <1>0, OverIs
    <2>3. PICK S : S = Over(q, n)
      OBVIOUS
    <2>4. Over(p, n) \subseteq S
      BY <2>1, <2>2, <2>3, OverWithin
    <2> QED
      BY <2>3, <2>4
  <1> QED
    BY <1>1, <1>2

InFolders(p) == p \in [Nodes -> FolderNodes \cup {Root, Outside}]

LEMMA Levels ==
  ASSUME NEW p, Tree(p), InFolders(p), NEW n \in Nodes
  PROVE  /\ Level(p, n) \in Nat \ {0}
         /\ p[n] \in Nodes => Level(p, n) = Level(p, p[n]) + 1
         /\ p[n] \notin Nodes => Level(p, n) = 1
         /\ \A x \in Over(p, n) : x \in Nodes => Level(p, x) < Level(p, n)
  <1> DEFINE F == FolderNodes \cup {Root, Outside}
  <1>1. IsFiniteSet(F) /\ FolderNodes \subseteq Nodes
    <2>1. IsFiniteSet(FolderNodes) /\ FolderNodes \subseteq Nodes
      BY WalkConstants, FS_Subset
    <2>2. IsFiniteSet(FolderNodes \cup {Root})
      BY <2>1, FS_AddElement
    <2>3. IsFiniteSet((FolderNodes \cup {Root}) \cup {Outside})
      BY <2>2, FS_AddElement
    <2>4. F = (FolderNodes \cup {Root}) \cup {Outside}
      OBVIOUS
    <2> QED
      BY <2>1, <2>3, <2>4
  <1>2. ASSUME NEW x \in Nodes
        PROVE  Over(p, x) \subseteq F /\ IsFiniteSet(Over(p, x)) /\ Cardinality(Over(p, x)) \in Nat
    <2>1. \A y \in F : y \in Nodes => p[y] \in F
      BY DEF InFolders
    <2>2. p[x] \in F
      BY DEF InFolders
    <2>3. Over(p, x) \subseteq F
      <3> HIDE DEF F
      <3> QED
        BY <2>1, <2>2, OverWithin
    <2> HIDE DEF F
    <2> QED
      BY <1>1, <2>3, FS_Subset, FS_CardinalityType
  <1>3. p[n] \in Nodes => Level(p, n) = Level(p, p[n]) + 1
    <2>1. ASSUME p[n] \in Nodes
          PROVE  Over(p, n) = Over(p, p[n]) \cup {p[n]} /\ p[n] \notin Over(p, p[n])
      BY <2>1, OverIs, NotOverItself
    <2> QED
      BY <1>2, <2>1, FS_AddElement DEF Level
  <1>4. p[n] \notin Nodes => Level(p, n) = 1
    <2>1. p[n] \notin Nodes => Over(p, n) = {p[n]}
      BY OverIs
    <2>2. Cardinality({p[n]}) = 1
      BY FS_Singleton
    <2> QED
      BY <2>1, <2>2 DEF Level
  <1>5. Level(p, n) \in Nat \ {0}
    <2>1. p[n] \in Nodes => Level(p, p[n]) \in Nat
      BY <1>2 DEF Level
    <2> QED
      BY <1>3, <1>4, <2>1
  <1>6. ASSUME NEW x \in Over(p, n), x \in Nodes
        PROVE  Level(p, x) < Level(p, n)
    <2>1. Over(p, x) \subseteq Over(p, n) /\ x \notin Over(p, x)
      BY <1>6, OverUp, NotOverItself
    <2>2. Cardinality(Over(p, x)) <= Cardinality(Over(p, n)) /\ Cardinality(Over(p, x)) # Cardinality(Over(p, n))
      <3>1. IsFiniteSet(Over(p, n)) /\ Over(p, x) # Over(p, n)
        BY <1>2, <2>1
      <3> QED
        BY <2>1, <3>1, FS_Subset
    <2> QED
      BY <1>2, <1>6, <2>2 DEF Level
  <1> QED
    BY <1>3, <1>4, <1>5, <1>6

(***************************************************************************)
(* What stays where it was is found once.  On the way from the root to a   *)
(* node nobody moved, at most one folder, or the node, is still to be      *)
(* visited: visiting it puts the next one in its place.                    *)
(***************************************************************************)
WaitsAt(p, s, n, i, k) == i \in 1..Len(s) /\ k \in DOMAIN s[i].rest /\ s[i].rest[k] \in Way(p, n)
Waits(p, s, n) == \E i, k : WaitsAt(p, s, n, i, k)
Single(p, s, n) == \A i, k, j, l : WaitsAt(p, s, n, i, k) /\ WaitsAt(p, s, n, j, l) => i = j /\ k = l

Sought(p, w, n) ==
  /\ w.op # "none" /\ n \in Keeps(w.op)
  /\ Root \in Over(p, n) /\ (w.limit = Unlimited \/ Level(p, n) <= w.limit)
  /\ Over(p, n) \cap w.failed = {}

Once(p, w, n) ==
  /\ Single(p, w.open, n)
  /\ Waits(p, w.open, n) => w.found[n] = 0
  /\ Sought(p, w, n) => Waits(p, w.open, n) \/ w.found[n] = 1

\* What a list tells of the nodes nobody moved is still so.
Marked(p, t, f, i) ==
  \A k \in DOMAIN f.rest :
    f.rest[k] \notin t => f.at[f.rest[k]] = Path(p, f.rest[k]) /\ Level(p, f.rest[k]) = i

StayInv ==
  /\ InFolders(parentOf)
  /\ touched \subseteq Nodes /\ \A n \in Nodes : parentOf[n] \in touched => n \in touched
  /\ walk.op = "none" => walk = NoWalk /\ touched = {}
  /\ walk.found = [n \in Nodes |-> walk.found[n]]
  /\ \A i \in 1..Len(walk.open) : Marked(parentOf, touched, walk.open[i], i)
  /\ \A n \in Nodes : n \notin touched => Once(parentOf, walk, n)

-----------------------------------------------------------------------------
\* A step on the list in front: what is waited for on the way to a node.
LEMMA TakenOff ==
  ASSUME NEW p, NEW s, NEW v, NEW n, NEW L \in Nat \ {0}, Len(s) = L, Len(v) = L,
         \A i \in 1..(L - 1) : v[i] = s[i],
         NEW r \in Seq(Nodes), r = s[L].rest, r # <<>>, v[L].rest = Tail(r),
         Single(p, s, n)
  PROVE  /\ Single(p, v, n)
         /\ Head(r) \in Way(p, n) => Waits(p, s, n) /\ ~Waits(p, v, n)
         /\ Head(r) \notin Way(p, n) => (Waits(p, v, n) <=> Waits(p, s, n))
  <1>1. /\ 1 \in DOMAIN r /\ Head(r) = r[1]
        /\ \A k \in DOMAIN Tail(r) : k \in Nat \ {0} /\ k + 1 \in DOMAIN r /\ Tail(r)[k] = r[k + 1]
        /\ \A k \in DOMAIN r : k \in Nat \ {0} /\ (k # 1 => k - 1 \in DOMAIN Tail(r) /\ (k - 1) + 1 = k)
    OBVIOUS
  <1>2. \A i \in 1..L : i \in 1..(L - 1) \/ i = L
    OBVIOUS
  <1>2a. \A i \in 1..(L - 1) : i \in 1..L /\ i # L
    OBVIOUS
  <1>3. \A k : WaitsAt(p, v, n, L, k) => k \in Nat \ {0} /\ WaitsAt(p, s, n, L, k + 1)
    BY <1>1 DEF WaitsAt
  <1>4. \A i, k : i # L => (WaitsAt(p, v, n, i, k) <=> WaitsAt(p, s, n, i, k))
    BY <1>2, <1>2a DEF WaitsAt
  <1>5. Head(r) \in Way(p, n) <=> WaitsAt(p, s, n, L, 1)
    BY <1>1 DEF WaitsAt
  <1>6. \A k : WaitsAt(p, s, n, L, k) /\ k # 1 => WaitsAt(p, v, n, L, k - 1)
    BY <1>1 DEF WaitsAt
  <1>7. Single(p, v, n)
    <2> SUFFICES ASSUME NEW i, NEW k, NEW j, NEW l, WaitsAt(p, v, n, i, k), WaitsAt(p, v, n, j, l)
                 PROVE  i = j /\ k = l
      BY DEF Single
    <2>1. CASE i = L /\ j = L
      <3>1. k \in Nat /\ l \in Nat /\ k + 1 = l + 1
        BY <1>3, <2>1 DEF Single
      <3> QED
        BY <2>1, <3>1
    <2>2. CASE i # L /\ j = L
      <3>1. i = L
        BY <1>3, <1>4, <2>2 DEF Single
      <3> QED
        BY <2>2, <3>1
    <2>3. CASE i = L /\ j # L
      <3>1. j = L
        BY <1>3, <1>4, <2>3 DEF Single
      <3> QED
        BY <2>3, <3>1
    <2>4. CASE i # L /\ j # L
      BY <1>4, <2>4 DEF Single
    <2> QED
      BY <2>1, <2>2, <2>3, <2>4
  <1>8. ASSUME Head(r) \in Way(p, n)
        PROVE  Waits(p, s, n) /\ ~Waits(p, v, n)
    <2>1. WaitsAt(p, s, n, L, 1)
      BY <1>5, <1>8
    <2>2. ASSUME NEW i, NEW k, WaitsAt(p, v, n, i, k) PROVE FALSE
      <3>1. CASE i = L
        <4>1. k \in Nat \ {0} /\ k + 1 = 1
          BY <1>3, <2>1, <2>2, <3>1 DEF Single
        <4> QED
          BY <4>1
      <3>2. CASE i # L
        BY <1>4, <2>1, <2>2, <3>2 DEF Single
      <3> QED
        BY <3>1, <3>2
    <2> QED
      BY <2>1, <2>2 DEF Waits
  <1>9. ASSUME Head(r) \notin Way(p, n)
        PROVE  Waits(p, v, n) <=> Waits(p, s, n)
    <2>1. ~WaitsAt(p, s, n, L, 1)
      BY <1>5, <1>9
    <2>2. ASSUME NEW i, NEW k, WaitsAt(p, v, n, i, k) PROVE Waits(p, s, n)
      BY <1>3, <1>4, <2>2 DEF Waits
    <2>3. ASSUME NEW i, NEW k, WaitsAt(p, s, n, i, k) PROVE Waits(p, v, n)
      BY <1>4, <1>6, <2>1, <2>3 DEF Waits
    <2> QED
      BY <2>2, <2>3 DEF Waits
  <1> QED
    BY <1>7, <1>8, <1>9

\* r has what is in x, each node once.
HasAllOf(p, r, x) ==
  /\ \A k \in DOMAIN r : r[k] \in Nodes /\ p[r[k]] = x
  /\ \A c \in Nodes : p[c] = x => \E k \in DOMAIN r : r[k] = c
  /\ \A k, l \in DOMAIN r : r[k] = r[l] => k = l

LEMMA PutOn ==
  ASSUME NEW p, Tree(p), NEW v, NEW w, NEW n \in Nodes, NEW L \in Nat, Len(v) = L, Len(w) = L + 1,
         \A i \in 1..L : w[i] = v[i], NEW x, HasAllOf(p, w[L + 1].rest, x)
  PROVE  /\ x \notin Over(p, n) => /\ Single(p, v, n) => Single(p, w, n)
                                   /\ Waits(p, w, n) <=> Waits(p, v, n)
         /\ x \in Over(p, n) /\ ~Waits(p, v, n) => Single(p, w, n) /\ Waits(p, w, n)
  <1> DEFINE r == w[L + 1].rest
  <1>1. /\ \A i \in 1..(L + 1) : i \in 1..L \/ i = L + 1
        /\ \A i \in 1..L : i \in 1..(L + 1) /\ i # L + 1
        /\ L + 1 \in 1..(L + 1)
    OBVIOUS
  <1>2. \A i, k : i # L + 1 => (WaitsAt(p, w, n, i, k) <=> WaitsAt(p, v, n, i, k))
    BY <1>1 DEF WaitsAt
  <1>3. \A k : ~WaitsAt(p, v, n, L + 1, k)
    BY <1>1 DEF WaitsAt
  <1>4. \A k : WaitsAt(p, w, n, L + 1, k) <=> k \in DOMAIN r /\ r[k] \in Way(p, n)
    BY <1>1 DEF WaitsAt
  <1>5. \A c \in Way(p, n) \cap Nodes : p[c] \in Over(p, n)
    BY OverIs, OverUp DEF Way
  <1>6. \A k : WaitsAt(p, w, n, L + 1, k) => k \in DOMAIN r /\ r[k] \in Way(p, n) \cap Nodes /\ p[r[k]] = x
    BY <1>4 DEF HasAllOf
  <1>7. ASSUME x \notin Over(p, n)
        PROVE  \A i, k : WaitsAt(p, w, n, i, k) <=> WaitsAt(p, v, n, i, k)
    BY <1>2, <1>3, <1>5, <1>6, <1>7
  <1>8. ASSUME x \in Over(p, n), ~Waits(p, v, n)
        PROVE  Single(p, w, n) /\ Waits(p, w, n)
    <2>1. \A i, k : WaitsAt(p, w, n, i, k) => i = L + 1
      BY <1>2, <1>8 DEF Waits
    <2>2. \A k, l : WaitsAt(p, w, n, L + 1, k) /\ WaitsAt(p, w, n, L + 1, l) => k = l
      <3> SUFFICES ASSUME NEW k, NEW l, WaitsAt(p, w, n, L + 1, k), WaitsAt(p, w, n, L + 1, l)
                   PROVE  k = l
        OBVIOUS
      <3>1. /\ k \in DOMAIN r /\ l \in DOMAIN r /\ p[r[k]] = x /\ p[r[l]] = x
            /\ r[k] \in Way(p, n) \cap Nodes /\ r[l] \in Way(p, n) \cap Nodes
        BY <1>6
      <3>2. r[k] = r[l]
        BY <3>1, OneBelow
      <3> QED
        BY <3>1, <3>2 DEF HasAllOf
    <2>3. \E k : WaitsAt(p, w, n, L + 1, k)
      <3>1. PICK c \in Way(p, n) \cap Nodes : p[c] = x
        BY <1>8, SomeBelow
      <3>2. PICK k \in DOMAIN r : r[k] = c
        BY <3>1 DEF HasAllOf
      <3> QED
        BY <1>4, <3>2
    <2> QED
      BY <2>1, <2>2, <2>3 DEF Single, Waits
  <1> HIDE DEF r
  <1>9. ASSUME x \notin Over(p, n)
        PROVE  /\ Single(p, v, n) => Single(p, w, n)
               /\ Waits(p, w, n) <=> Waits(p, v, n)
    BY <1>7, <1>9 DEF Single, Waits
  <1> QED
    BY <1>8, <1>9

\* Taking the next node off the list r, and counting it.
Takes(w, v, L, r) ==
  /\ v.op = w.op /\ v.limit = w.limit /\ v.failed = w.failed
  /\ Len(w.open) = L /\ Len(v.open) = L /\ \A i \in 1..(L - 1) : v.open[i] = w.open[i]
  /\ r \in Seq(Nodes) /\ r = w.open[L].rest /\ r # <<>> /\ v.open[L].rest = Tail(r)
  /\ w.found = [y \in Nodes |-> w.found[y]]
  /\ v.found = IF Head(r) \in Keeps(w.op) THEN [w.found EXCEPT ![Head(r)] = @ + 1] ELSE w.found

Freed(p, v, n, x) ==
  /\ x \notin Way(p, n) \/ x = n => Once(p, v, n)
  /\ x \in Way(p, n) => ~Waits(p, v.open, n)
  /\ x \in Way(p, n) /\ x # n => v.found[n] = 0

LEMMA OnceTaken ==
  ASSUME NEW p, NEW w, NEW v, NEW n, n \in Nodes, Once(p, w, n), NEW L, L \in Nat \ {0}, NEW r, Takes(w, v, L, r)
  PROVE  Freed(p, v, n, Head(r))
  <1> DEFINE x == Head(r)
  <1> SUFFICES /\ x \notin Way(p, n) \/ x = n => Once(p, v, n)
               /\ x \in Way(p, n) => ~Waits(p, v.open, n)
               /\ x \in Way(p, n) /\ x # n => v.found[n] = 0
    BY DEF Freed
  <1>0. /\ v.op = w.op /\ v.limit = w.limit /\ v.failed = w.failed
        /\ Len(w.open) = L /\ Len(v.open) = L /\ \A i \in 1..(L - 1) : v.open[i] = w.open[i]
        /\ r \in Seq(Nodes) /\ r = w.open[L].rest /\ r # <<>> /\ v.open[L].rest = Tail(r)
        /\ w.found = [y \in Nodes |-> w.found[y]]
        /\ v.found = IF x \in Keeps(w.op) THEN [w.found EXCEPT ![x] = @ + 1] ELSE w.found
    BY DEF Takes
  <1>1. /\ Single(p, v.open, n)
        /\ x \in Way(p, n) => Waits(p, w.open, n) /\ ~Waits(p, v.open, n)
        /\ x \notin Way(p, n) => (Waits(p, v.open, n) <=> Waits(p, w.open, n))
    <2>1. PICK s, u : s = w.open /\ u = v.open
      OBVIOUS
    <2>2. /\ Single(p, s, n) /\ Len(s) = L /\ Len(u) = L /\ \A i \in 1..(L - 1) : u[i] = s[i]
          /\ r = s[L].rest /\ u[L].rest = Tail(r)
      BY <1>0, <2>1 DEF Once
    <2>3. /\ Single(p, u, n)
          /\ Head(r) \in Way(p, n) => Waits(p, s, n) /\ ~Waits(p, u, n)
          /\ Head(r) \notin Way(p, n) => (Waits(p, u, n) <=> Waits(p, s, n))
      BY <1>0, <2>2, TakenOff
    <2> QED
      BY <1>0, <2>1, <2>3
  <1>2. x # n => v.found[n] = w.found[n]
    BY <1>0
  <1>3. x \in Way(p, n) => w.found[n] = 0
    BY <1>1 DEF Once
  <1>4. CASE x = n
    <2>1. x \in Way(p, n)
      BY <1>4 DEF Way
    <2>2. n \in Keeps(w.op) => v.found[n] = 1
      BY <1>0, <1>3, <1>4, <2>1
    <2> QED
      BY <1>0, <1>1, <1>4, <2>1, <2>2 DEF Once, Sought
  <1>5. CASE x # n
    <2>1. x \notin Way(p, n) => Once(p, v, n)
      BY <1>0, <1>1, <1>2, <1>5 DEF Once, Sought
    <2> QED
      BY <1>1, <1>2, <1>3, <1>5, <2>1
  <1> QED
    BY <1>4, <1>5

\* A listing that succeeds.
LEMMA OnceListed ==
  ASSUME NEW p, Tree(p), NEW w, NEW v, NEW n \in Nodes,
         v.op = w.op, v.limit = w.limit, v.failed = w.failed, v.found = w.found,
         NEW L \in Nat, Len(w.open) = L, Len(v.open) = L + 1, \A i \in 1..L : v.open[i] = w.open[i],
         NEW x, HasAllOf(p, v.open[L + 1].rest, x),
         x \notin Over(p, n) => Once(p, w, n),
         x \in Over(p, n) => ~Waits(p, w.open, n) /\ w.found[n] = 0
  PROVE  Once(p, v, n)
  <1>1. /\ x \notin Over(p, n) => /\ Single(p, w.open, n) => Single(p, v.open, n)
                                  /\ Waits(p, v.open, n) <=> Waits(p, w.open, n)
        /\ x \in Over(p, n) /\ ~Waits(p, w.open, n) => Single(p, v.open, n) /\ Waits(p, v.open, n)
    <2>1. PICK s, u : s = w.open /\ u = v.open
      OBVIOUS
    <2>2. /\ x \notin Over(p, n) => /\ Single(p, s, n) => Single(p, u, n)
                                    /\ Waits(p, u, n) <=> Waits(p, s, n)
          /\ x \in Over(p, n) /\ ~Waits(p, s, n) => Single(p, u, n) /\ Waits(p, u, n)
      BY <2>1, PutOn
    <2> QED
      BY <2>1, <2>2
  <1>2. CASE x \in Over(p, n)
    BY <1>1, <1>2 DEF Once
  <1>3. CASE x \notin Over(p, n)
    BY <1>1, <1>3 DEF Once, Sought
  <1> QED
    BY <1>2, <1>3

\* A listing that is not made, and one that fails.
LEMMA OnceNot ==
  ASSUME NEW p, NEW w, NEW v, NEW n \in Nodes,
         v.op = w.op, v.limit = w.limit, w.failed \subseteq v.failed, v.found = w.found, v.open = w.open,
         NEW x,
         x \notin Over(p, n) => Once(p, w, n),
         x \in Over(p, n) => ~Waits(p, w.open, n) /\ w.found[n] = 0 /\ ~Sought(p, v, n)
  PROVE  Once(p, v, n)
  <1>1. CASE x \in Over(p, n)
    BY <1>1 DEF Once, Single, Waits
  <1>2. CASE x \notin Over(p, n)
    <2>1. Sought(p, v, n) => Sought(p, w, n)
      BY DEF Sought
    <2> QED
      BY <1>2, <2>1 DEF Once
  <1> QED
    BY <1>1, <1>2

\* What a listing answers with is every node in the folder, once.
LEMMA ListsAll ==
  ASSUME NEW x, NEW ns \in Lists(x)
  PROVE  /\ HasAllOf(parentOf, ns, x)
         /\ \A left : LET d == OpenFolder(x, ns, left)
                      IN  d.rest = ns /\ \A k \in DOMAIN ns : d.at[ns[k]] = Path(parentOf, ns[k])
  <1>1. In(parentOf, x) \subseteq Nodes /\ IsFiniteSet(In(parentOf, x))
    BY WalkConstants, FS_Subset DEF In
  <1>2. PICK N, D : N = Cardinality(In(parentOf, x)) /\ D = In(parentOf, x)
    OBVIOUS
  <1>3. N \in Nat
    BY <1>1, <1>2, FS_CardinalityType
  <1>4. ns \in [1..N -> D] /\ (\A y \in D : \E k \in 1..N : ns[k] = y) /\ IsInjective(ns)
    <2>1. ns \in [1..N -> D] /\ IsInjective(ns)
      BY <1>2 DEF Lists, SetToSeqs, IsInjective
    <2>2. IsFiniteSet(1..N) /\ Cardinality(1..N) = N
      BY <1>3, FS_Interval
    <2>3. ns \in Injection(1..N, D)
      BY <2>1 DEF Injection
    <2>4. ns \in Surjection(1..N, D)
      BY <1>1, <1>2, <2>2, <2>3, FS_Injection
    <2> QED
      BY <2>1, <2>4 DEF Surjection
  <1>5. HasAllOf(parentOf, ns, x)
    BY <1>2, <1>4 DEF HasAllOf, In, IsInjective
  <1>6. ASSUME NEW left
        PROVE  LET d == OpenFolder(x, ns, left)
               IN  d.rest = ns /\ \A k \in DOMAIN ns : d.at[ns[k]] = Path(parentOf, ns[k])
    BY DEF OpenFolder, ToSet
  <1> QED
    BY <1>5, <1>6

LEMMA NobodyWaits ==
  ASSUME NEW p, NEW n PROVE ~Waits(p, <<>>, n) /\ Single(p, <<>>, n)
  <1>1. 1..Len(<<>>) = {}
    OBVIOUS
  <1> QED
    BY <1>1 DEF Waits, Single, WaitsAt

\* Nothing above a node that was not touched was touched.
LEMMA Untouched ==
  ASSUME NEW p, Tree(p), NEW t, \A y \in Nodes : p[y] \in t => y \in t,
         NEW n \in Nodes, n \notin t, NEW x \in Way(p, n), x \in Nodes
  PROVE  x \notin t
  <1> DEFINE Good == {y \in Nodes : y \notin t => \A z \in Over(p, y) : z \in Nodes => z \notin t}
  <1>1. ASSUME NEW y \in Nodes, p[y] \in Nodes => p[y] \in Good
        PROVE  y \in Good
    <2>1. CASE p[y] \in Nodes
      <3>1. Over(p, y) = {p[y]} \cup Over(p, p[y])
        BY <2>1, OverIs
      <3> QED
        BY <1>1, <2>1, <3>1
    <2>2. CASE p[y] \notin Nodes
      <3>1. Over(p, y) = {p[y]}
        BY <2>2, OverIs
      <3> QED
        BY <2>2, <3>1
    <2> QED
      BY <2>1, <2>2
  <1>2. Nodes \subseteq Good
    <2> HIDE DEF Good
    <2> QED
      BY <1>1, FromAbove
  <1> QED
    BY <1>2 DEF Way

LEMMA BeforeWalk ==
  ASSUME InFolders(parentOf), walk = NoWalk, touched = {}
  PROVE  StayInv
  <1>1. PICK w : w = NoWalk
    OBVIOUS
  <1>2. w.op = "none" /\ w.open = <<>> /\ w.found = [n \in Nodes |-> 0] /\ w = walk
    BY <1>1 DEF NoWalk
  <1>3. \A n : Once(parentOf, w, n)
    BY <1>2, NobodyWaits DEF Once, Sought
  <1>4. 1..Len(w.open) = {}
    BY <1>2
  <1>5. w.found = [n \in Nodes |-> w.found[n]]
    BY <1>2
  <1> QED
    BY <1>2, <1>3, <1>4, <1>5 DEF StayInv

LEMMA StayInit == WalksInit => StayInv
  BY WalkConstants, BeforeWalk DEF WalksInit, InFolders

LEMMA StartStays ==
  ASSUME WalkInv, StayInv, NEW op, op # "none", NEW limit, Starts(op, limit)
  PROVE  StayInv'
  <1> DEFINE p == parentOf
  <1>1. /\ walk = NoWalk /\ touched = {} /\ parentOf' = parentOf /\ touched' = {}
        /\ Tree(p) /\ InFolders(p)
    BY DEF Starts, StayInv, WalkInv, NoWalk
  <1>2. PICK w : w = [NoWalk EXCEPT !.op = op, !.limit = limit]
    OBVIOUS
  <1>3. /\ w.op # "none"
        /\ w = [op |-> op, limit |-> limit, open |-> <<>>, found |-> [n \in Nodes |-> 0], failed |-> {}]
        /\ w.open = <<>> /\ Len(w.open) = 0 /\ w.found = [n \in Nodes |-> 0]
    BY <1>2 DEF NoWalk
  <1>4. SUFFICES /\ walk'.op # "none" /\ walk'.found = w.found
                 /\ \A i \in 1..Len(walk'.open) : Marked(p, {}, walk'.open[i], i)
                 /\ \A n \in Nodes : Once(p, walk', n)
    <2>1. walk'.found = [n \in Nodes |-> walk'.found[n]]
      BY <1>3, <1>4
    <2> QED
      BY <1>1, <1>4, <2>1 DEF StayInv
  <1>5. CASE walk' = [w EXCEPT !.failed = @ \cup {Root}]
    <2>1. PICK v : v = walk'
      OBVIOUS
    <2>2. /\ v.op = w.op /\ v.limit = w.limit /\ v.found = w.found /\ v.open = w.open
          /\ w.failed = {} /\ v.failed = {Root}
      BY <1>3, <1>5, <2>1
    <2>3. ASSUME NEW n \in Nodes PROVE Once(p, v, n)
      <3>1. Root \notin Over(p, n) => Once(p, w, n)
        BY <1>3, NobodyWaits DEF Once, Sought
      <3>2. Root \in Over(p, n) => ~Waits(p, w.open, n) /\ w.found[n] = 0 /\ ~Sought(p, v, n)
        BY <1>3, <2>2, NobodyWaits DEF Sought
      <3>3. w.failed \subseteq v.failed
        BY <2>2
      <3> HIDE DEF p
      <3> QED
        BY <2>2, <3>1, <3>2, <3>3, OnceNot
    <2>4. 1..Len(v.open) = {}
      BY <1>3, <2>2
    <2> QED
      BY <1>3, <2>1, <2>2, <2>3, <2>4
  <1>6. ASSUME NEW ns \in Lists(Root), walk' = [w EXCEPT !.open = Append(@, OpenFolder(Root, ns, limit))]
        PROVE  /\ walk'.op # "none" /\ walk'.found = w.found
               /\ \A i \in 1..Len(walk'.open) : Marked(p, {}, walk'.open[i], i)
               /\ \A n \in Nodes : Once(p, walk', n)
    <2>1. PICK v, d, s : v = walk' /\ d = OpenFolder(Root, ns, limit) /\ s = Append(<<>>, d)
      OBVIOUS
    <2>2. /\ v.op = w.op /\ v.limit = w.limit /\ v.found = w.found /\ v.open = s /\ v.failed = w.failed
          /\ Len(s) = 1 /\ s[1] = d
      BY <1>3, <1>6, <2>1
    <2>3. /\ d.rest = ns /\ HasAllOf(p, ns, Root)
          /\ \A k \in DOMAIN ns : d.at[ns[k]] = Path(p, ns[k])
      BY <2>1, ListsAll
    <2>4. ASSUME NEW n \in Nodes PROVE Once(p, v, n)
      <3>1. Root \notin Over(p, n) => Once(p, w, n)
        BY <1>3, NobodyWaits DEF Once, Sought
      <3>2. Root \in Over(p, n) => ~Waits(p, w.open, n) /\ w.found[n] = 0
        BY <1>3, NobodyWaits
      <3>3. PICK L \in Nat : L = 0
        OBVIOUS
      <3>4. /\ Len(w.open) = L /\ Len(v.open) = L + 1 /\ HasAllOf(p, v.open[L + 1].rest, Root)
            /\ \A i \in 1..L : v.open[i] = w.open[i]
        BY <1>3, <2>2, <2>3, <3>3
      <3> HIDE DEF p
      <3> QED
        BY <1>1, <2>2, <3>1, <3>2, <3>4, OnceListed
    <2>5. Marked(p, {}, d, 1)
      <3>1. \A k \in DOMAIN ns : ns[k] \in Nodes /\ p[ns[k]] = Root /\ Root \notin Nodes
        BY <2>3, WalkConstants DEF HasAllOf
      <3>2. \A c \in Nodes : p[c] \notin Nodes => Level(p, c) = 1
        BY <1>1, Levels
      <3> QED
        BY <2>3, <3>1, <3>2 DEF Marked
    <2> QED
      BY <1>3, <2>1, <2>2, <2>4, <2>5
  <1> QED
    BY <1>2, <1>5, <1>6 DEF Starts, List

\* The innermost list with another in its place.
Swapped(s, e, v) ==
  /\ Len(s) \in Nat \ {0} /\ Len(v) = Len(s) /\ v[Len(s)] = e
  /\ \A i \in 1..(Len(s) - 1) : v[i] = s[i]
  /\ v = [i \in 1..Len(s) |-> v[i]]

LEMMA SwapTop ==
  ASSUME NEW s, NEW limit, limit \in Int, FramesOK(s, limit), s # <<>>, NEW m, Listed(s, m), moves \in Nat, NEW e
  PROVE  Swapped(s, e, Append(Front(s), e))
  <1> DEFINE v == Append(Front(s), e)
  <1> SUFFICES /\ Len(s) \in Nat \ {0} /\ Len(v) = Len(s) /\ v[Len(s)] = e
               /\ \A i \in 1..(Len(s) - 1) : v[i] = s[i]
               /\ v = [i \in 1..Len(s) |-> v[i]]
    BY DEF Swapped
  <1>1. PICK n, u : n = Len(s) /\ u = Front(s) /\ v = Append(u, e)
    OBVIOUS
  <1>2. /\ FramesOK(u, limit) /\ Len(u) = n - 1 /\ n \in Nat \ {0}
        /\ \A i \in 1..(n - 1) : u[i] = s[i]
    BY <1>1, FrontKeeps
  <1>3. PICK l \in Nat : l = n - 1
    BY <1>2
  <1>4. u = [i \in 1..l |-> u[i]]
    BY <1>2, <1>3 DEF FramesOK
  <1>5. /\ v = [i \in 1..(l + 1) |-> v[i]] /\ Len(v) = l + 1
        /\ (\A i \in 1..l : v[i] = u[i]) /\ v[l + 1] = e
    BY <1>1, <1>4, AppendIs
  <1>6. l + 1 = n /\ l = n - 1
    BY <1>2, <1>3
  <1>7. \A i \in 1..(n - 1) : v[i] = s[i]
    BY <1>2, <1>5, <1>6
  <1>8. n \in Nat \ {0} /\ Len(v) = n /\ v[n] = e /\ v = [i \in 1..n |-> v[i]]
    BY <1>2, <1>5, <1>6
  <1> QED
    BY <1>1, <1>7, <1>8

\* A folder on the way to what is sought is listed, and is there.
LEMMA OnTheWay ==
  ASSUME WalkInv, StayInv, NEW L \in Nat \ {0}, Len(walk.open) = L,
         NEW f, f = walk.open[L], NEW x, x = Head(f.rest), f.rest # <<>>,
         NEW n \in Nodes, n \notin touched, x \in Over(parentOf, n)
  PROVE  /\ x \in Nodes /\ x \in FolderNodes /\ x \notin touched
         /\ StillThere(x, f.at[x])
         /\ walk.limit = Unlimited \/ Level(parentOf, n) <= walk.limit => GoesDown(f.left)
  <1>1. FrameAt(f, L, walk.limit) /\ Marked(parentOf, touched, f, L)
    BY DEF WalkInv, FramesOK, StayInv
  <1>2. f.rest \in Seq(Nodes) /\ 1 \in DOMAIN f.rest /\ x = f.rest[1] /\ x \in Nodes
    BY <1>1 DEF FrameAt, OneFrame
  <1>3. x \notin touched
    BY <1>2, Untouched DEF StayInv, WalkInv, Way
  <1>4. Level(parentOf, x) = L /\ f.at[x] = Path(parentOf, x)
    BY <1>1, <1>2, <1>3 DEF Marked
  <1>5. x \in FolderNodes
    <2>1. PICK c \in Nodes : parentOf[c] = x
      BY SomeBelow DEF WalkInv
    <2> QED
      BY <1>2, <2>1, WalkConstants DEF StayInv, InFolders
  <1>6. L < Level(parentOf, n) /\ Level(parentOf, n) \in Nat
    BY <1>2, <1>4, Levels DEF StayInv, WalkInv
  <1>7. walk.limit = Unlimited \/ Level(parentOf, n) <= walk.limit => GoesDown(f.left)
    <2>1. walk.limit = Unlimited => f.left = -1
      BY <1>1 DEF FrameAt, Unlimited
    <2>2. walk.limit # Unlimited => walk.limit \in Nat /\ f.left = walk.limit - L + 1
      BY <1>1 DEF FrameAt, WalkInv
    <2> QED
      BY <1>6, <2>1, <2>2 DEF GoesDown
  <1> QED
    BY <1>2, <1>3, <1>4, <1>5, <1>7 DEF StillThere

LEMMA VisitStays ==
  ASSUME WalkInv, StayInv, Visit
  PROVE  StayInv'
  <1> DEFINE frames == walk.open
             top == Last(frames)
             item == Head(top.rest)
             passed == [walk EXCEPT !.open = Append(Front(frames), [top EXCEPT !.rest = Tail(@)])]
             counted == IF item \in Keeps(walk.op) THEN [passed EXCEPT !.found[item] = @ + 1] ELSE passed
  <1>1. /\ UNCHANGED <<parentOf, touched>> /\ frames # <<>>
        /\ WalkShape(walk) /\ walk.limit \in Int /\ FramesOK(frames, walk.limit) /\ moves \in Nat /\ Tree(parentOf)
        /\ InFolders(parentOf) /\ (\A n \in Nodes : parentOf[n] \in touched => n \in touched)
        /\ walk.found = [n \in Nodes |-> walk.found[n]] /\ walk.op # "none"
    BY DEF Visit, WalkInv, StayInv, Unlimited, NoWalk
  <1>2. PICK m : Listed(frames, m)
    BY DEF WalkInv
  <1>3. PICK L \in Nat \ {0} : L = Len(frames)
    <2> HIDE DEF frames
    <2> QED
      BY <1>1, <1>2, FrontKeeps
  <1>4. top = frames[L] /\ FrameAt(top, L, walk.limit) /\ Marked(parentOf, touched, top, L)
    BY <1>3 DEF Last, WalkInv, FramesOK, StayInv
  <1>5. \A n \in Nodes : n \notin touched => Once(parentOf, walk, n)
    BY DEF StayInv
  <1>6. \A i \in 1..L : Marked(parentOf, touched, frames[i], i)
    BY <1>3 DEF StayInv
  <1>7. SUFFICES /\ walk'.op # "none"
                 /\ walk'.found = [n \in Nodes |-> walk'.found[n]]
                 /\ \A i \in 1..Len(walk'.open) : Marked(parentOf, touched, walk'.open[i], i)
                 /\ \A n \in Nodes : n \notin touched => Once(parentOf, walk', n)
    BY <1>1, <1>7 DEF StayInv
  <1>8. CASE top.rest = <<>> /\ walk' = [walk EXCEPT !.open = Front(frames)]
    <2>1. PICK v, u : v = walk' /\ u = Front(frames)
      OBVIOUS
    <2>2. /\ v.op = walk.op /\ v.limit = walk.limit /\ v.found = walk.found /\ v.failed = walk.failed
          /\ v.open = u /\ v.op # "none"
      BY <1>1, <1>8, <2>1 DEF WalkShape
    <2>3. Len(u) = L - 1 /\ \A i \in 1..(L - 1) : u[i] = frames[i] /\ i \in 1..L
      <3>1. Len(u) = L - 1 /\ \A i \in 1..(L - 1) : u[i] = frames[i]
        <4> HIDE DEF frames
        <4> QED
          BY <1>1, <1>2, <1>3, <2>1, FrontKeeps
      <3> QED
        BY <3>1
    <2>4. ASSUME NEW n \in Nodes, n \notin touched PROVE Once(parentOf, v, n)
      <3>1. \A i, k : WaitsAt(parentOf, frames, n, i, k) <=> WaitsAt(parentOf, u, n, i, k)
        <4>1. DOMAIN frames[L].rest = {}
          BY <1>4, <1>8
        <4>2. \A i \in 1..L : i = L \/ i \in 1..(L - 1)
          OBVIOUS
        <4> HIDE DEF frames
        <4> QED
          BY <1>3, <2>3, <4>1, <4>2 DEF WaitsAt
      <3> QED
        BY <1>5, <2>2, <2>4, <3>1 DEF Once, Single, Waits, Sought
    <2> QED
      BY <1>1, <1>6, <2>1, <2>2, <2>3, <2>4
  <1>9. CASE /\ top.rest # <<>>
             /\ IF item \in FolderNodes /\ GoesDown(top.left)
                  THEN List(item, StillThere(item, top.at[item]), LeftBelow(top.left), counted)
                  ELSE walk' = counted
    <2>1. PICK f, e, v : f = top /\ e = [f EXCEPT !.rest = Tail(@)] /\ v = Append(Front(frames), e)
      OBVIOUS
    <2>2. /\ f.rest \in Seq(Nodes) /\ f.rest # <<>> /\ item = f.rest[1] /\ 1 \in DOMAIN f.rest /\ item \in Nodes
          /\ e.rest = Tail(f.rest) /\ e.at = f.at
      BY <1>4, <1>9, <2>1 DEF FrameAt, OneFrame
    <2>3. Len(v) = L /\ v[L] = e /\ (\A i \in 1..(L - 1) : v[i] = frames[i]) /\ v = [i \in 1..L |-> v[i]]
      <3>1. v = Append(Front(frames), e)
        BY <2>1
      <3>2. PICK lim \in Int : lim = walk.limit
        BY <1>1
      <3>3. FramesOK(frames, lim) /\ frames # <<>> /\ moves \in Nat
        BY <1>1, <3>2
      <3> HIDE DEF frames, top, item, passed, counted
      <3>4. PICK t : t = frames
        OBVIOUS
      <3>5. FramesOK(t, lim) /\ t # <<>> /\ Listed(t, m) /\ v = Append(Front(t), e)
        BY <1>2, <3>1, <3>3, <3>4
      <3>6. Swapped(t, e, v)
        BY <3>2, <3>3, <3>5, SwapTop
      <3> QED
        BY <1>3, <3>4, <3>6 DEF Swapped
    <2>4. PICK w : w = counted
      OBVIOUS
    <2>5. /\ w.op = walk.op /\ w.limit = walk.limit /\ w.failed = walk.failed /\ w.open = v /\ WalkShape(w)
          /\ w.found = IF item \in Keeps(walk.op) THEN [walk.found EXCEPT ![item] = @ + 1] ELSE walk.found
      <3>1. PICK u : u = passed
        OBVIOUS
      <3>2. /\ WalkShape(u) /\ u.limit = walk.limit /\ u.open = v /\ u.op = walk.op /\ u.failed = walk.failed
            /\ u.found = walk.found
        BY <1>1, <2>1, <3>1 DEF WalkShape
      <3>3. PICK y : y = item
        OBVIOUS
      <3>4. ASSUME NEW t, t = [u EXCEPT !.found[y] = @ + 1]
            PROVE  /\ WalkShape(t) /\ t.limit = walk.limit /\ t.open = v /\ t.op = walk.op
                   /\ t.failed = walk.failed /\ t.found = [walk.found EXCEPT ![y] = @ + 1]
        BY <3>2, <3>4 DEF WalkShape
      <3>5. w = IF y \in Keeps(walk.op) THEN [u EXCEPT !.found[y] = @ + 1] ELSE u
        BY <2>4, <3>1, <3>3
      <3> HIDE DEF item, counted, passed
      <3>6. CASE y \in Keeps(walk.op)
        BY <3>3, <3>4, <3>5, <3>6
      <3>7. CASE y \notin Keeps(walk.op)
        BY <3>2, <3>3, <3>5, <3>7
      <3> QED
        BY <3>6, <3>7
    <2>6. \A i \in 1..L : Marked(parentOf, touched, v[i], i)
      <3>1. Marked(parentOf, touched, e, L)
        <4>1. \A k \in DOMAIN Tail(f.rest) : k + 1 \in DOMAIN f.rest /\ Tail(f.rest)[k] = f.rest[k + 1]
          BY <2>2
        <4> QED
          BY <1>4, <2>1, <2>2, <4>1 DEF Marked
      <3>2. \A i \in 1..L : i = L \/ i \in 1..(L - 1)
        OBVIOUS
      <3> QED
        BY <1>6, <2>3, <3>1, <3>2
    <2>7. w.found = [n \in Nodes |-> w.found[n]]
      <3> HIDE DEF item
      <3> QED
        BY <1>1, <2>5
    <2>8. ASSUME NEW n \in Nodes, n \notin touched
          PROVE  /\ item \notin Over(parentOf, n) => Once(parentOf, w, n)
                 /\ item \in Over(parentOf, n) => ~Waits(parentOf, w.open, n) /\ w.found[n] = 0
      <3>1. PICK r, y : r = f.rest /\ y = item
        OBVIOUS
      <3>2. /\ r \in Seq(Nodes) /\ r = walk.open[L].rest /\ r # <<>> /\ w.open[L].rest = Tail(r) /\ y = Head(r)
            /\ Len(walk.open) = L /\ Len(w.open) = L /\ \A i \in 1..(L - 1) : w.open[i] = walk.open[i]
        BY <1>3, <1>4, <2>1, <2>2, <2>3, <2>5, <3>1
      <3>3. w.found = IF y \in Keeps(walk.op) THEN [walk.found EXCEPT ![y] = @ + 1] ELSE walk.found
        BY <2>5, <3>1
      <3>4. /\ y \notin Way(parentOf, n) \/ y = n => Once(parentOf, w, n)
            /\ y \in Way(parentOf, n) => ~Waits(parentOf, w.open, n)
            /\ y \in Way(parentOf, n) /\ y # n => w.found[n] = 0
        <4>1. Once(parentOf, walk, n) /\ w.op = walk.op /\ w.limit = walk.limit /\ w.failed = walk.failed
          BY <1>5, <2>5, <2>8
        <4>2. walk.found = [a \in Nodes |-> walk.found[a]]
          BY <1>1
        <4>3. PICK q, u : q = parentOf /\ u = walk
          OBVIOUS
        <4> HIDE DEF frames, item, top, passed, counted
        <4>4. Takes(u, w, L, r)
          BY <3>1, <3>2, <3>3, <4>1, <4>2, <4>3 DEF Takes
        <4>5. Once(q, u, n) /\ y = Head(r)
          BY <3>2, <4>1, <4>3
        <4>6. Freed(q, w, n, y)
          BY <1>3, <2>8, <4>4, <4>5, OnceTaken, SMT
        <4> QED
          BY <4>3, <4>6 DEF Freed
      <3>5. n \notin Over(parentOf, n)
        BY <1>1, NotOverItself
      <3> QED
        BY <3>1, <3>4, <3>5 DEF Way
    <2>9. ASSUME NEW n \in Nodes, n \notin touched, item \in Over(parentOf, n)
          PROVE  /\ item \in FolderNodes /\ item \notin touched /\ StillThere(item, top.at[item])
                 /\ walk.limit = Unlimited \/ Level(parentOf, n) <= walk.limit => GoesDown(top.left)
      <3>1. PICK g, y : g = top /\ y = item
        OBVIOUS
      <3>2. g = walk.open[L] /\ y = Head(g.rest) /\ g.rest # <<>> /\ Len(walk.open) = L /\ y \in Over(parentOf, n)
        BY <1>3, <1>4, <1>9, <2>9, <3>1
      <3>3. /\ y \in FolderNodes /\ y \notin touched /\ StillThere(y, g.at[y])
            /\ walk.limit = Unlimited \/ Level(parentOf, n) <= walk.limit => GoesDown(g.left)
        <4> HIDE DEF item, top, frames
        <4> QED
          BY <2>9, <3>2, OnTheWay
      <3> QED
        BY <3>1, <3>3
    <2>10. PICK z : z = walk'
      OBVIOUS
    <2>11. CASE /\ walk' = counted
                /\ ~(item \in FolderNodes /\ GoesDown(top.left)) \/ ~StillThere(item, top.at[item])
      <3>1. ASSUME NEW n \in Nodes, n \notin touched PROVE Once(parentOf, w, n)
        <4>1. item \in Over(parentOf, n) => ~Sought(parentOf, w, n)
          BY <2>5, <2>9, <2>11, <3>1 DEF Sought
        <4>2. PICK y : y = item
          OBVIOUS
        <4>3. /\ y \notin Over(parentOf, n) => Once(parentOf, w, n)
              /\ y \in Over(parentOf, n) => ~Waits(parentOf, w.open, n) /\ w.found[n] = 0 /\ ~Sought(parentOf, w, n)
          BY <2>8, <3>1, <4>1, <4>2
        <4> HIDE DEF item
        <4> QED
          BY <4>3, OnceNot
      <3>2. w.op # "none"
        BY <1>1, <2>5
      <3>3. walk' = w
        BY <2>4, <2>11
      <3> HIDE DEF counted, passed, top, item, frames
      <3> QED
        BY <2>3, <2>5, <2>6, <2>7, <3>1, <3>2, <3>3
    <2>12. CASE z = [w EXCEPT !.failed = @ \cup {item}]
      <3>1. /\ z.op = w.op /\ z.limit = w.limit /\ z.failed = w.failed \cup {item} /\ z.open = v /\ z.found = w.found
            /\ z.open = w.open
        BY <2>5, <2>12 DEF WalkShape
      <3>2. ASSUME NEW n \in Nodes, n \notin touched PROVE Once(parentOf, z, n)
        <4>1. item \in Over(parentOf, n) => ~Sought(parentOf, z, n)
          BY <3>1 DEF Sought
        <4>2. PICK y : y = item
          OBVIOUS
        <4>3. /\ y \notin Over(parentOf, n) => Once(parentOf, w, n)
              /\ y \in Over(parentOf, n) => ~Waits(parentOf, w.open, n) /\ w.found[n] = 0 /\ ~Sought(parentOf, z, n)
          BY <2>8, <3>2, <4>1, <4>2
        <4>4. w.failed \subseteq z.failed
          BY <3>1
        <4> HIDE DEF item
        <4> QED
          BY <3>1, <4>3, <4>4, OnceNot
      <3>3. z.op # "none"
        BY <1>1, <2>5, <3>1
      <3> QED
        BY <2>3, <2>6, <2>7, <2>10, <3>1, <3>2, <3>3
    <2>13. ASSUME NEW ns \in Lists(item), z = [w EXCEPT !.open = Append(@, OpenFolder(item, ns, LeftBelow(top.left)))]
           PROVE  /\ z.op # "none"
                  /\ z.found = [n \in Nodes |-> z.found[n]]
                  /\ \A i \in 1..Len(z.open) : Marked(parentOf, touched, z.open[i], i)
                  /\ \A n \in Nodes : n \notin touched => Once(parentOf, z, n)
      <3>1. PICK d, u, y : d = OpenFolder(item, ns, LeftBelow(top.left)) /\ u = Append(v, d) /\ y = item
        OBVIOUS
      <3>2. /\ z.op = w.op /\ z.limit = w.limit /\ z.failed = w.failed /\ z.open = u /\ z.found = w.found
        BY <2>5, <2>13, <3>1 DEF WalkShape
      <3>3. /\ Len(u) = L + 1 /\ u[L + 1] = d
            /\ \A i \in 1..L : u[i] = v[i]
            /\ \A i \in 1..(L + 1) : i \in 1..L \/ i = L + 1
        BY <2>3, <3>1, AppendIs
      <3>4. /\ d.rest = ns /\ HasAllOf(parentOf, ns, y) /\ \A k \in DOMAIN ns : d.at[ns[k]] = Path(parentOf, ns[k])
        <4>1. ns \in Lists(y) /\ d = OpenFolder(y, ns, LeftBelow(top.left))
          BY <2>13, <3>1
        <4> HIDE DEF item
        <4> QED
          BY <4>1, ListsAll
      <3>5. Marked(parentOf, touched, d, L + 1)
        <4> SUFFICES ASSUME NEW k \in DOMAIN ns, ns[k] \notin touched
                     PROVE  d.at[ns[k]] = Path(parentOf, ns[k]) /\ Level(parentOf, ns[k]) = L + 1
          BY <3>4 DEF Marked
        <4>1. PICK c : c = ns[k]
          OBVIOUS
        <4>2. c \in Nodes /\ parentOf[c] = y /\ y \in Nodes /\ y \notin touched
          BY <1>1, <2>2, <3>1, <3>4, <4>1 DEF HasAllOf
        <4>3. Level(parentOf, y) = L
          BY <1>4, <2>1, <2>2, <3>1, <4>2 DEF Marked
        <4>4. Level(parentOf, c) = Level(parentOf, parentOf[c]) + 1
          BY <1>1, <4>2, Levels
        <4> QED
          BY <3>4, <4>1, <4>2, <4>3, <4>4
      <3>6. ASSUME NEW n \in Nodes, n \notin touched PROVE Once(parentOf, z, n)
        <4>1. /\ y \notin Over(parentOf, n) => Once(parentOf, w, n)
              /\ y \in Over(parentOf, n) => ~Waits(parentOf, w.open, n) /\ w.found[n] = 0
          BY <2>8, <3>1, <3>6
        <4>2. /\ L \in Nat /\ Len(w.open) = L /\ Len(z.open) = L + 1 /\ \A i \in 1..L : z.open[i] = w.open[i]
              /\ HasAllOf(parentOf, z.open[L + 1].rest, y)
          BY <2>3, <2>5, <3>2, <3>3, <3>4
        <4> HIDE DEF item
        <4> QED
          BY <1>1, <3>2, <4>1, <4>2, OnceListed
      <3>7. z.op # "none"
        BY <1>1, <2>5, <3>2
      <3>8. \A i \in 1..Len(z.open) : Marked(parentOf, touched, z.open[i], i)
        BY <2>6, <3>2, <3>3, <3>5
      <3>9. z.found = [n \in Nodes |-> z.found[n]]
        BY <2>7, <3>2
      <3> QED
        BY <3>6, <3>7, <3>8, <3>9
    <2>14. CASE \E ns \in Lists(item) : z = [w EXCEPT !.open = Append(@, OpenFolder(item, ns, LeftBelow(top.left)))]
      <3> HIDE DEF item, top, frames, counted, passed
      <3> QED
        BY <2>10, <2>13, <2>14
    <2> QED
      BY <1>9, <2>4, <2>10, <2>11, <2>12, <2>14 DEF List
  <1> QED
    BY <1>8, <1>9 DEF Visit

\* A move leaves the way to what it does not touch.
LEMMA WaySame ==
  ASSUME NEW p, p = [x \in Nodes |-> p[x]], Tree(p), NEW n \in Nodes, NEW f, f \notin Under(p, n),
         NEW y \in Nodes, y \notin Under(p, n)
  PROVE  /\ Over([p EXCEPT ![n] = f], y) = Over(p, y) /\ Way([p EXCEPT ![n] = f], y) = Way(p, y)
         /\ Level([p EXCEPT ![n] = f], y) = Level(p, y) /\ Path([p EXCEPT ![n] = f], y) = Path(p, y)
  <1> DEFINE q == [p EXCEPT ![n] = f]
  <1>1. Tree(q)
    BY MovesKeepTree
  <1>2. n \notin Way(p, y)
    BY DEF Under, Way
  <1>3. \A x \in Way(p, y) \cap Nodes : q[x] = p[x]
    BY <1>2
  <1>4. Over(q, y) = Over(p, y)
    <2> HIDE DEF q
    <2> QED
      BY <1>1, <1>3, OverSame
  <1>5. Path(q, y) = Path(p, y)
    <2> HIDE DEF q
    <2> QED
      BY <1>3, <1>4 DEF Path, Way
  <1> HIDE DEF q
  <1>6. /\ Over(q, y) = Over(p, y) /\ Way(q, y) = Way(p, y)
        /\ Level(q, y) = Level(p, y) /\ Path(q, y) = Path(p, y)
    BY <1>4, <1>5 DEF Way, Level
  <1> QED
    BY <1>6 DEF q

LEMMA MoveStays ==
  ASSUME WalkInv, StayInv, MoveNode
  PROVE  StayInv'
  <1>1. PICK n \in Nodes, f \in FolderNodes \cup {Root, Outside} :
          /\ f \notin Under(parentOf, n) /\ parentOf' = [parentOf EXCEPT ![n] = f]
          /\ touched' = touched \cup Under(parentOf, n)
    BY DEF MoveNode
  <1>2. walk' = walk /\ walk.op # "none"
    BY DEF MoveNode
  <1>3. /\ Tree(parentOf) /\ InFolders(parentOf) /\ parentOf = [x \in Nodes |-> parentOf[x]]
        /\ Under(parentOf, n) \subseteq Nodes /\ n \in Under(parentOf, n)
    BY DEF WalkInv, StayInv, Under
  <1>4. PICK p, q, t, u : p = parentOf /\ q = parentOf' /\ t = touched /\ u = touched'
    OBVIOUS
  <1>5. InFolders(q)
    BY <1>1, <1>3, <1>4 DEF InFolders
  <1>6. /\ u \subseteq Nodes /\ t \subseteq u
        /\ \A y \in Nodes : y \notin u => y \notin t /\ y \notin Under(p, n)
    BY <1>1, <1>3, <1>4 DEF StayInv
  <1>7. \A y \in Nodes : q[y] \in u => y \in u
    <2> SUFFICES ASSUME NEW y \in Nodes, q[y] \in u PROVE y \in u
      OBVIOUS
    <2>1. CASE y = n
      BY <1>1, <1>3, <2>1, <1>4
    <2>2. CASE y # n
      <3>1. q[y] = p[y] /\ u = t \cup Under(p, n)
        BY <1>1, <1>3, <1>4, <2>2
      <3>2. CASE p[y] \in t
        BY <1>4, <3>1, <3>2 DEF StayInv
      <3>3. CASE p[y] \in Under(p, n)
        <4>1. p[y] \in Nodes /\ n \in {p[y]} \cup Over(p, p[y])
          BY <3>3 DEF Under
        <4>2. n \in Over(p, y)
          BY <4>1, OverIs
        <4>3. y \in Under(p, n)
          BY <4>2 DEF Under
        <4> QED
          BY <3>1, <4>3
      <3> QED
        BY <3>1, <3>2, <3>3
    <2> QED
      BY <2>1, <2>2
  <1>8. ASSUME NEW y \in Nodes, y \notin u
        PROVE  Over(q, y) = Over(p, y) /\ Way(q, y) = Way(p, y) /\ Level(q, y) = Level(p, y) /\ Path(q, y) = Path(p, y)
    <2>1. /\ p = [x \in Nodes |-> p[x]] /\ Tree(p) /\ f \notin Under(p, n) /\ y \notin Under(p, n)
          /\ q = [p EXCEPT ![n] = f]
      BY <1>1, <1>3, <1>4, <1>6, <1>8
    <2>2. /\ Over([p EXCEPT ![n] = f], y) = Over(p, y) /\ Way([p EXCEPT ![n] = f], y) = Way(p, y)
          /\ Level([p EXCEPT ![n] = f], y) = Level(p, y) /\ Path([p EXCEPT ![n] = f], y) = Path(p, y)
      BY <2>1, WaySame
    <2> QED
      BY <2>1, <2>2
  <1>9. ASSUME NEW i \in 1..Len(walk.open) PROVE Marked(q, u, walk.open[i], i)
    <2>1. PICK e : e = walk.open[i]
      OBVIOUS
    <2>2. Marked(p, t, e, i) /\ \A k \in DOMAIN e.rest : e.rest[k] \in Nodes
      <3>1. FrameAt(walk.open[i], i, walk.limit)
        BY DEF WalkInv, FramesOK
      <3>2. e.rest \in Seq(Nodes)
        BY <2>1, <3>1 DEF FrameAt, OneFrame
      <3> QED
        BY <1>4, <2>1, <3>2 DEF StayInv
    <2>3. Marked(q, u, e, i)
      BY <1>6, <1>8, <2>2 DEF Marked
    <2> QED
      BY <2>1, <2>3
  <1>10. ASSUME NEW y \in Nodes, y \notin u PROVE Once(q, walk, y)
    <2>1. Once(p, walk, y)
      BY <1>4, <1>6, <1>10 DEF StayInv
    <2>2. PICK w, a, b, l : w = walk /\ a = Over(p, y) /\ b = Way(p, y) /\ l = Level(p, y)
      OBVIOUS
    <2>3. Over(q, y) = a /\ Way(q, y) = b /\ Level(q, y) = l
      BY <1>8, <1>10, <2>2
    <2>4. \A i, k : WaitsAt(q, w.open, y, i, k) <=> WaitsAt(p, w.open, y, i, k)
      BY <2>2, <2>3 DEF WaitsAt
    <2>5. Sought(q, w, y) <=> Sought(p, w, y)
      BY <2>2, <2>3 DEF Sought
    <2>6. Once(p, w, y)
      BY <2>1, <2>2
    <2>7. Once(q, w, y)
      BY <2>4, <2>5, <2>6 DEF Once, Single, Waits
    <2> QED
      BY <2>2, <2>7
  <1> QED
    BY <1>2, <1>4, <1>5, <1>6, <1>7, <1>9, <1>10 DEF StayInv

LEMMA AnswerStays ==
  ASSUME StayInv, Answer
  PROVE  StayInv'
  <1>1. parentOf' = parentOf /\ walk' = NoWalk /\ touched' = {}
    BY DEF Answer
  <1>2. InFolders(parentOf')
    BY <1>1 DEF StayInv
  <1>3. PICK w : w = NoWalk
    OBVIOUS
  <1>4. w.op = "none" /\ w.open = <<>> /\ w.found = [n \in Nodes |-> 0] /\ w = walk'
    BY <1>1, <1>3 DEF NoWalk
  <1>5. \A n : Once(parentOf', w, n)
    BY <1>4, NobodyWaits DEF Once, Sought
  <1>6. 1..Len(w.open) = {} /\ w.found = [n \in Nodes |-> w.found[n]]
    BY <1>4
  <1> QED
    BY <1>1, <1>2, <1>3, <1>4, <1>5, <1>6 DEF StayInv

LEMMA StayKeeps == WalkInv /\ StayInv /\ [WalksNext]_walkVars => StayInv'
  <1> SUFFICES ASSUME WalkInv, StayInv, [WalksNext]_walkVars PROVE StayInv'
    OBVIOUS
  <1>1. CASE UNCHANGED walkVars
    BY <1>1 DEF walkVars, StayInv
  <1>2. CASE ListRecursive
    BY <1>2, StartStays DEF ListRecursive
  <1>3. CASE GetDescendants
    <2>1. PICK depth : Starts("descendants", depth)
      BY <1>3 DEF GetDescendants
    <2> QED
      BY <2>1, StartStays
  <1>4. CASE GetFolderTree
    <2>1. PICK depth : Starts("foldertree", depth)
      BY <1>4 DEF GetFolderTree
    <2> QED
      BY <2>1, StartStays
  <1>5. CASE Crawl
    <2>1. PICK depth : Starts("crawl", depth)
      BY <1>5 DEF Crawl
    <2> QED
      BY <2>1, StartStays
  <1> QED
    BY <1>1, <1>2, <1>3, <1>4, <1>5, VisitStays, MoveStays, AnswerStays DEF WalksNext

\* A finished recursive listing (descendants, folder tree, a query IN_TREE, the crawl)
\* has everything it was asked for exactly once, save what was moved or lay below what
\* was moved meanwhile, and what lies in a folder that could not be listed.
THEOREM StayersFound == WalksSpec => []StayersFoundOnce
  <1>1. StayInv => StayersFoundOnce
    <2> SUFFICES ASSUME StayInv, Ended, NEW n \in Keeps(walk.op) \ touched, Within(n),
                        Over(parentOf, n) \cap walk.failed = {}
                 PROVE  walk.found[n] = 1
      BY DEF StayersFoundOnce
    <2>1. n \in Nodes /\ walk.open = <<>> /\ walk.op # "none"
      BY WalkConstants DEF Keeps, Ended
    <2>2. Sought(parentOf, walk, n)
      BY <2>1 DEF Sought, Within
    <2>3. Once(parentOf, walk, n)
      BY <2>1 DEF StayInv
    <2>4. ~Waits(parentOf, walk.open, n)
      BY <2>1, NobodyWaits
    <2> QED
      BY <2>2, <2>3, <2>4 DEF Once
  <1>2. WalksInit => WalkInv /\ StayInv
    BY WalkInit, StayInit
  <1>3. (WalkInv /\ StayInv) /\ [WalksNext]_walkVars => (WalkInv /\ StayInv)'
    BY WalkKeeps, StayKeeps
  <1> QED
    BY <1>1, <1>2, <1>3, PTL DEF WalksSpec

\* What the counts are, and what can fail to be listed.
Counted(w) ==
  /\ WalkShape(w) /\ w.failed \subseteq FolderNodes \cup {Root}
  /\ w.found = [n \in Nodes |-> w.found[n]] /\ \A n \in Nodes : w.found[n] \in Nat

LEMMA ListCounts ==
  ASSUME NEW w, Counted(w), NEW f \in FolderNodes \cup {Root}, NEW there, NEW left, List(f, there, left, w)
  PROVE  Counted(walk')
  <1>1. PICK u : u = walk'
    OBVIOUS
  <1>2. CASE \E ns \in Lists(f) : u = [w EXCEPT !.open = Append(@, OpenFolder(f, ns, left))]
    <2>1. PICK s : u = [w EXCEPT !.open = s]
      BY <1>2
    <2> QED
      BY <1>1, <2>1 DEF Counted, WalkShape
  <1>3. CASE u = [w EXCEPT !.failed = @ \cup {f}]
    BY <1>1, <1>3 DEF Counted, WalkShape
  <1>4. CASE u = w
    BY <1>1, <1>4
  <1> QED
    BY <1>1, <1>2, <1>3, <1>4 DEF List

LEMMA NoneCounted == Counted(NoWalk)
  <1>1. PICK w : w = NoWalk
    OBVIOUS
  <1>2. Counted(w)
    BY <1>1 DEF NoWalk, Counted, WalkShape
  <1> QED
    BY <1>1, <1>2

LEMMA StartCounts ==
  ASSUME NEW op, NEW limit, Starts(op, limit)
  PROVE  Counted(walk') /\ moves' = moves
  <1>1. PICK w : w = [NoWalk EXCEPT !.op = op, !.limit = limit]
    OBVIOUS
  <1>2. Counted(w)
    BY <1>1 DEF NoWalk, Counted, WalkShape
  <1>3. List(Root, TRUE, limit, w)
    BY <1>1 DEF Starts
  <1>4. Counted(walk')
    BY <1>2, <1>3, ListCounts
  <1> QED
    BY <1>4 DEF Starts

LEMMA VisitCounts ==
  ASSUME WalkInv, Counted(walk), Visit
  PROVE  Counted(walk')
  <1> DEFINE top == Last(walk.open)
             item == Head(top.rest)
             passed == [walk EXCEPT !.open = Append(Front(walk.open), [top EXCEPT !.rest = Tail(@)])]
             counted == IF item \in Keeps(walk.op) THEN [passed EXCEPT !.found[item] = @ + 1] ELSE passed
  <1>1. ASSUME NEW s, walk' = [walk EXCEPT !.open = s] PROVE Counted(walk')
    BY <1>1 DEF Counted, WalkShape
  <1>2. Counted(counted)
    <2>1. PICK s, y, w : s = Append(Front(walk.open), [top EXCEPT !.rest = Tail(@)]) /\ y = item /\ w = passed
      OBVIOUS
    <2>2. Counted(w) /\ w = [walk EXCEPT !.open = s]
      BY <2>1 DEF Counted, WalkShape
    <2>3. Counted([w EXCEPT !.found[y] = @ + 1])
      <3>1. PICK v, g : v = [w EXCEPT !.found[y] = @ + 1] /\ g = [w.found EXCEPT ![y] = @ + 1]
        OBVIOUS
      <3>2. WalkShape(v) /\ v.failed = w.failed /\ v.found = g
        BY <2>2, <3>1 DEF Counted, WalkShape
      <3>3. g = [n \in Nodes |-> g[n]] /\ \A n \in Nodes : g[n] \in Nat
        BY <2>2, <3>1 DEF Counted
      <3> QED
        BY <2>2, <3>1, <3>2, <3>3 DEF Counted
    <2> QED
      BY <2>1, <2>2, <2>3
  <1>3. PICK w, y, g : w = counted /\ y = item /\ g = top
    OBVIOUS
  <1>4. CASE y \in FolderNodes /\ List(y, StillThere(y, g.at[y]), LeftBelow(g.left), w)
    BY <1>2, <1>3, <1>4, ListCounts
  <1>5. CASE walk' = w
    BY <1>2, <1>3, <1>5
  <1> QED
    BY <1>1, <1>3, <1>4, <1>5 DEF Visit

LEMMA CountsKept ==
  (WalkInv /\ moves \in 0..MaxMoves /\ Counted(walk)) /\ [WalksNext]_walkVars
    => (moves \in 0..MaxMoves /\ Counted(walk))'
  <1> SUFFICES ASSUME WalkInv, moves \in 0..MaxMoves, Counted(walk), [WalksNext]_walkVars
               PROVE  moves' \in 0..MaxMoves /\ Counted(walk')
    OBVIOUS
  <1>1. CASE UNCHANGED walkVars
    BY <1>1 DEF walkVars
  <1>2. CASE ListRecursive \/ GetDescendants \/ GetFolderTree \/ Crawl
    <2>1. PICK op, limit : Starts(op, limit)
      BY <1>2 DEF ListRecursive, GetDescendants, GetFolderTree, Crawl
    <2> QED
      BY <2>1, StartCounts
  <1>3. CASE Visit
    <2>1. moves' = moves
      BY <1>3 DEF Visit
    <2> QED
      BY <1>3, <2>1, VisitCounts
  <1>4. CASE MoveNode
    BY <1>4, WalkConstants DEF MoveNode
  <1>5. CASE Answer
    BY <1>5, NoneCounted DEF Answer
  <1> QED
    BY <1>1, <1>2, <1>3, <1>4, <1>5 DEF WalksNext

\* The walk's counts, failures and moves are well typed, and every node stays in a
\* folder, at the root or outside.
THEOREM WalksTyping == WalksSpec => []WalksTypeOK
  <1>1. WalkInv /\ StayInv /\ moves \in 0..MaxMoves /\ Counted(walk) => WalksTypeOK
    BY DEF StayInv, Counted, WalksTypeOK, InFolders
  <1>2. WalksInit => WalkInv /\ StayInv /\ moves \in 0..MaxMoves /\ Counted(walk)
    BY WalkInit, StayInit, NoneCounted, WalkConstants DEF WalksInit
  <1> QED
    BY <1>1, <1>2, WalkKeeps, StayKeeps, CountsKept, PTL DEF WalksSpec

-----------------------------------------------------------------------------
(***************************************************************************)
(* All of them together.                                                   *)
(***************************************************************************)
\* No component's step touches another: a behaviour of all is one of each, so that
\* whatever is proved of a component alone is true of it beside the others.
THEOREM Composition ==
  Spec => /\ SessionsSpec /\ ConfigsSpec /\ WalksSpec
          /\ IdsSpec /\ KeysSpec /\ QueriesSpec
  <1>1. Init => /\ SessionsInit /\ ConfigsInit /\ WalksInit
                /\ IdsInit /\ KeysInit /\ QueriesInit
    BY DEF Init
  <1>2. [Next]_vars => /\ [SessionsNext]_sessionVars /\ [ConfigsNext]_configVars
                       /\ [WalksNext]_walkVars
                       /\ [IdsNext]_idVars /\ [KeysNext]_keyVars /\ [QueriesNext]_client
    <2>1. CASE UNCHANGED vars
      BY <2>1 DEF vars
    <2>2. CASE Next
      BY <2>2 DEF Next
    <2> QED
      BY <2>1, <2>2
  <1> QED
    BY <1>1, <1>2, PTL DEF Spec, SessionsSpec, ConfigsSpec, WalksSpec, IdsSpec, KeysSpec, QueriesSpec

\* The state of every component is well typed.
THEOREM ServicesTyping == Spec => []ServicesTypeOK
  BY Composition, SessionsTyping, ConfigsTyping, WalksTyping, IdsTyping, KeysTyping, QueriesTyping, PTL
    DEF ServicesTypeOK
=============================================================================
