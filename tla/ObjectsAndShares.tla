--------------------------- MODULE ObjectsAndShares ---------------------------
(***************************************************************************)
(* The handlers on the objects of a tree, and those on the shares of one   *)
(* object.  They share no state; a behaviour is one of either.             *)
(***************************************************************************)
EXTENDS Objects, Shares

VARIABLE scene    \* the handlers that act

accessVars == <<vars, shareVars, scene>>

AccessInit ==
  /\ Init /\ SharesInit
  /\ scene \in {"objects", "shares"}
  /\ scene = "objects" => Shared = {}

AccessNext ==
  /\ UNCHANGED scene
  /\ \/ scene = "objects" /\ Next /\ UNCHANGED shareVars
     \/ scene = "shares" /\ SharesNext /\ UNCHANGED vars

AccessSpec == AccessInit /\ [][AccessNext]_accessVars
=============================================================================
