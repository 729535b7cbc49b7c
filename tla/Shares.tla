------------------------------- MODULE Shares -------------------------------
(***************************************************************************)
(* The access-control list of one object: the CMIS calls that read and     *)
(* change it, and the grant of a space, over the gateway's shares.         *)
(***************************************************************************)
EXTENDS Naturals, Sequences, FiniteSets

CONSTANTS
  Callers,    \* requests in flight at once
  Names,      \* names of users and of groups
  Wanted,     \* the requests: sequences of principals to remove, of entries to add
  Foreign,    \* what shares made by other clients of the gateway allow
  MaxFailures, MaxForeign \* calls that fail, changes by other clients

ASSUME FailureBound == MaxFailures \in Nat /\ MaxForeign \in Nat

(***************************************************************************)
(* Permissions: what CMIS and the roles name, as what the storage allows.  *)
(***************************************************************************)
Viewing == {"Stat", "ListContainer", "InitiateFileDownload"}
Editing == Viewing \cup {"InitiateFileUpload", "CreateContainer", "Move"}

CmisPermToCS3(perm) ==
  CASE perm = "cmis:all"   -> Editing \cup {"Delete", "AddGrant", "RemoveGrant", "UpdateGrant"}
    [] perm = "cmis:write" -> Editing
    [] OTHER               -> Viewing

RoleToPermissions(role) ==
  CASE role = "manager" -> Editing \cup {"Delete", "AddGrant", "RemoveGrant", "UpdateGrant", "DenyGrant"}
    [] role = "editor"  -> Editing \cup {"Delete"}
    [] OTHER            -> Viewing

\* The other way a role is told by some of what it stands for.
SignsOfAll == {"InitiateFileUpload", "Delete", "AddGrant"}
SignsOfWrite == {"InitiateFileUpload", "CreateContainer"}

SharePermsUngranted(p) ==
  IF SignsOfAll \ {"AddGrant"} \subseteq p THEN {"cmis:all"}
  ELSE IF SignsOfWrite \cap p # {} THEN {"cmis:read", "cmis:write"}
  ELSE {"cmis:read"}

SharePermsToCMIS(p) ==
  IF SignsOfAll \subseteq p THEN {"cmis:all"}
  ELSE IF SignsOfWrite \cap p # {} THEN {"cmis:read", "cmis:write"}
  ELSE {"cmis:read"}

(***************************************************************************)
(* A grantee is a user or a group; an entry names it by one string, a      *)
(* group's with the prefix group:.                                         *)
(***************************************************************************)
Grantee(type, name) == [type |-> type, name |-> name]
Grantees == [type : {"user", "group"}, name : Names]

PrincipalBare(g) == <<g.name>>
Principal(g) == IF g.type = "group" THEN <<"group:", g.name>> ELSE <<g.name>>

VARIABLES
  shares,     \* the gateway's shares of the object: grantee -> {what it allows}, {} for none
  failures,   \* calls that failed so far
  foreign,    \* changes by other clients so far
  acl         \* the requests

shareVars == <<shares, failures, foreign, acl>>

ToAdd(g, perm) == [who |-> g, perm |-> perm]
Entries == [who : Grantees, perm : STRING]

\* ApplyACL has the principals of two forms, GrantSpaceAccess one grantee.
ASSUME WantedRequests ==
  \A w \in Wanted :
    /\ w.op \in {"get", "apply", "grant"}
    /\ w.remove \in Seq(Grantees) /\ w.add \in Seq(Entries)
    /\ w.op = "grant" => w.add # <<>>

Free == [at |-> "free", op |-> "none", remove |-> <<>>, add |-> <<>>, listed |-> {}, gone |-> {},
         owner |-> {}, answer |-> {}, clean |-> TRUE, known |-> {}]

NoneOr(S) == {{}} \cup {{x} : x \in S}

SharesInit ==
  /\ shares \in [Grantees -> NoneOr(Foreign)]
  /\ failures = 0 /\ foreign = 0
  /\ acl = [c \in Callers |-> Free]

Shared == {g \in Grantees : shares[g] # {}}
May(g) == UNION shares[g]

Unclean(j) == [j EXCEPT !.clean = FALSE]

\* A call that reads: its caller goes on as `then' says, or as `otherwise' does.
Goes(c, then) == acl' = [acl EXCEPT ![c] = then] /\ UNCHANGED <<shares, failures, foreign>>

Asks(c, then, otherwise) ==
  \/ Goes(c, then)
  \/ /\ failures < MaxFailures
     /\ failures' = failures + 1
     /\ acl' = [acl EXCEPT ![c] = Unclean(otherwise)]
     /\ UNCHANGED <<shares, foreign>>

\* Of the shares a request listed, `gone' are those whose id no longer names one,
\* whether or not their grantee has another.  The history: `known' are the
\* shares there all the time since the request began.
Seen ==
  [c \in Callers |->
     [acl[c] EXCEPT !.gone = @ \cup {g \in acl[c].listed : shares[g] # {} /\ shares'[g] = {}},
                    !.known = @ \cap {g \in Shared : shares'[g] = shares[g]}]]

\* A call that makes the shares `to': it can fail before its effect or after it.
Changes(c, to, then) ==
  /\ \/ shares' = to /\ acl' = [Seen EXCEPT ![c] = [then EXCEPT !.known = Seen[c].known]] /\ UNCHANGED failures
     \/ /\ failures < MaxFailures /\ failures' = failures + 1
        /\ shares' \in {shares, to}
        /\ acl' = [Seen EXCEPT ![c] = [Unclean(then) EXCEPT !.known = Seen[c].known]]
  /\ UNCHANGED foreign

\* Another client makes a share, changes or removes one.
ForeignChange ==
  /\ foreign < MaxForeign
  /\ foreign' = foreign + 1
  /\ \E g \in Grantees, p \in NoneOr(Foreign) : shares' = [shares EXCEPT ![g] = p]
  /\ acl' = Seen
  /\ UNCHANGED failures

Begin(c) ==
  /\ acl[c].at = "free"
  /\ \E w \in Wanted :
       Goes(c, [Free EXCEPT !.at = IF w.op = "grant" THEN "add" ELSE "stat", !.op = w.op,
                            !.remove = w.remove, !.add = w.add, !.known = Shared])

\* What comes next: a principal to remove, an entry to add, the list to read.
NextStep(j) == [j EXCEPT !.at = IF j.remove # <<>> THEN "find" ELSE IF j.add # <<>> THEN "add" ELSE "restat"]

\* The answer begins with another Stat, which tells the owner, if there is one.
Owners == NoneOr({Grantee("user", n) : n \in Names})

AclStat(c) ==
  LET j == acl[c]
  IN  \/ /\ j.at = "stat" /\ j.op = "apply"
         /\ Asks(c, NextStep(j), Free)
      \/ /\ j.at = "restat" \/ (j.at = "stat" /\ j.op = "get")
         /\ \E o \in Owners : Asks(c, [j EXCEPT !.at = "list", !.owner = o], Free)

\* removeShareByPrincipal lists the shares and removes those of the principal;
\* when the list cannot be had there is nothing to remove.
Matching(g) == {h \in Shared : Principal(h) = Principal(g)}

FindShare(c) ==
  LET j == acl[c]
      rest == [j EXCEPT !.remove = Tail(@)]
  IN  /\ j.at = "find"
      /\ Asks(c, IF Matching(Head(j.remove)) = {} THEN NextStep(rest)
                  ELSE [j EXCEPT !.at = "remove", !.listed = Matching(Head(j.remove)), !.gone = {}],
               NextStep(rest))

AfterRemove(j, g) ==
  LET rest == [j EXCEPT !.listed = @ \ {g}, !.gone = @ \ {g}]
  IN  IF rest.listed = {} THEN NextStep([rest EXCEPT !.remove = Tail(@)]) ELSE rest

\* A share is removed by its id, so that one made since then stays.
RemoveShare(c) ==
  LET j == acl[c]
  IN  /\ j.at = "remove"
      /\ \E g \in j.listed :
           Changes(c, IF g \in j.gone THEN shares ELSE [shares EXCEPT ![g] = {}], AfterRemove(j, g))

\* The gateway refuses a second share for a grantee.  ApplyACL passes over a
\* refusal and a failure, GrantSpaceAccess answers with an error.
CreateShareAs(c, perms) ==
  LET j == acl[c]
      g == Head(j.add).who
  IN  /\ j.at = "add"
      /\ Changes(c, IF shares[g] = {} THEN [shares EXCEPT ![g] = {perms}] ELSE shares,
                 IF j.op = "grant" THEN Free ELSE NextStep([j EXCEPT !.add = Tail(@)]))

CreateShareForPrincipal(c) == acl[c].op = "apply" /\ CreateShareAs(c, CmisPermToCS3(Head(acl[c].add).perm))
GrantSpaceAccess(c)        == acl[c].op = "grant" /\ CreateShareAs(c, RoleToPermissions(Head(acl[c].add).perm))

ShareToACE(g) == [who |-> Principal(g), perms |-> SharePermsToCMIS(May(g))]
OwnerACE(g) == [who |-> Principal(g), perms |-> {"cmis:all"}]

AcesOfUsers(owner) == {OwnerACE(g) : g \in owner} \cup {ShareToACE(g) : g \in {h \in Shared : h.type = "user"}}
Aces(owner) == {OwnerACE(g) : g \in owner} \cup {ShareToACE(g) : g \in Shared}

\* When the shares cannot be listed the answer has the owner's entry alone, and is
\* called exact.
ListShares(c) ==
  LET j == acl[c]
  IN  /\ j.at = "list"
      /\ Asks(c, [j EXCEPT !.at = "done", !.answer = Aces(j.owner)],
                  [j EXCEPT !.at = "done", !.answer = {OwnerACE(g) : g \in j.owner}])

Close(c) == acl[c].at = "done" /\ Goes(c, Free)

SharesNext ==
  \/ ForeignChange
  \/ \E c \in Callers : \/ Begin(c) \/ AclStat(c) \/ FindShare(c) \/ RemoveShare(c) \/ ListShares(c)
                        \/ CreateShareForPrincipal(c) \/ GrantSpaceAccess(c) \/ Close(c)

SharesSpec == SharesInit /\ [][SharesNext]_shareVars

-----------------------------------------------------------------------------
\* What the service itself grants, by its two ways of naming it.
Granted ==
  {CmisPermToCS3(p) : p \in {"cmis:read", "cmis:write", "cmis:all"}}
    \cup {RoleToPermissions(r) : r \in {"viewer", "editor", "manager"}}

SharesTypeOK ==
  /\ shares \in [Grantees -> NoneOr(Foreign \cup Granted)]
  /\ failures \in 0..MaxFailures /\ foreign \in 0..MaxForeign
  /\ \A c \in Callers : acl[c].gone \subseteq acl[c].listed /\ acl[c].listed \subseteq Grantees

Members(q) == {q[i] : i \in DOMAIN q}

\* The service changes a share only by a request that names its grantee, of its
\* type.
Moves(c) == [acl'[c] EXCEPT !.gone = {}, !.known = {}] # [acl[c] EXCEPT !.gone = {}, !.known = {}]

OnlyNamedShares ==
  [][\A g \in Grantees : shares'[g] # shares[g] /\ foreign' = foreign =>
       \E c \in Callers : Moves(c)
         /\ g \in Members(acl[c].remove) \cup {e.who : e \in Members(acl[c].add)}]_shareVars

\* An answer without otherwise calls has every share that was there from the
\* beginning of the request to its end, as the roles its permissions are told by.
AclShowsShares ==
  \A c \in Callers : acl[c].at = "done" /\ acl[c].clean
    => \A g \in acl[c].known : ShareToACE(g) \in acl[c].answer

\* Whoever is shown a role, and is not the owner, may do what the role stands for
\* if the service made his share.  A share made by another client allows what
\* the role is told by, which may be less than the role.
AclShowsNoMore ==
  \A c \in Callers : \A a \in acl[c].answer \ {OwnerACE(g) : g \in acl[c].owner}, g \in acl[c].known :
    a.who = Principal(g) =>
      /\ May(g) \in Granted => UNION {CmisPermToCS3(p) : p \in a.perms} \subseteq May(g)
      /\ "cmis:all" \in a.perms => SignsOfAll \subseteq May(g)
      /\ "cmis:write" \in a.perms => SignsOfWrite \cap May(g) # {}

\* The list of access is complete, and no wider than the shares as far as those
\* are the service's own.
AclIsTrue == AclShowsShares /\ AclShowsNoMore
=============================================================================
