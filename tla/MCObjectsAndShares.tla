-------------------------- MODULE MCObjectsAndShares --------------------------
(***************************************************************************)
(* The tree and the requests of MCObjects; and one object, a user and a    *)
(* group of one name, two requests on its shares and another client of the *)
(* gateway.                                                                *)
(***************************************************************************)
EXTENDS MCObjects, ObjectsAndShares

CONSTANT grp

Apply(remove, add) == [op |-> "apply", remove |-> remove, add |-> add]
User == Grantee("user", grp)
Group == Grantee("group", grp)

MCWanted ==
  {[op |-> "get", remove |-> <<>>, add |-> <<>>],
   [op |-> "grant", remove |-> <<>>, add |-> <<ToAdd(Group, "editor")>>],
   [op |-> "grant", remove |-> <<>>, add |-> <<ToAdd(User, "manager")>>],
   Apply(<<User>>, <<>>), Apply(<<Group, User>>, <<ToAdd(User, "cmis:all")>>),
   Apply(<<User>>, <<ToAdd(User, "cmis:write"), ToAdd(Group, "cmis:read")>>)}

\* Other clients' shares: as little as is told as cmis:all, and nothing at all.
MCForeign == {SignsOfAll, {}}
=============================================================================
