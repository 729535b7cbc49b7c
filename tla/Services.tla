------------------------------ MODULE Services ------------------------------
(***************************************************************************)
(* The components that share no state: sessions, application               *)
(* configurations, recursive listings, object ids, metadata keys and       *)
(* queries.  A behaviour is one of any of them.                            *)
(***************************************************************************)
EXTENDS Sessions, AppConfigs, TreeWalks, ObjectIds, MetadataKeys, Queries

VARIABLE scene    \* the component that acts

vars == <<sessionVars, configVars, walkVars, idVars, keyVars, client, scene>>

Init ==
  /\ SessionsInit /\ ConfigsInit /\ WalksInit /\ IdsInit /\ KeysInit /\ QueriesInit
  /\ scene \in {"sessions", "configs", "walks", "ids", "keys", "queries"}

Next ==
  /\ UNCHANGED scene
  /\ \/ scene = "sessions" /\ SessionsNext
        /\ UNCHANGED <<configVars, walkVars, idVars, keyVars, client>>
     \/ scene = "configs" /\ ConfigsNext
        /\ UNCHANGED <<sessionVars, walkVars, idVars, keyVars, client>>
     \/ scene = "walks" /\ WalksNext
        /\ UNCHANGED <<sessionVars, configVars, idVars, keyVars, client>>
     \/ scene = "ids" /\ IdsNext
        /\ UNCHANGED <<sessionVars, configVars, walkVars, keyVars, client>>
     \/ scene = "keys" /\ KeysNext
        /\ UNCHANGED <<sessionVars, configVars, walkVars, idVars, client>>
     \/ scene = "queries" /\ QueriesNext
        /\ UNCHANGED <<sessionVars, configVars, walkVars, idVars, keyVars>>

Spec == Init /\ [][Next]_vars

ServicesTypeOK ==
  /\ SessionsTypeOK /\ ConfigsTypeOK
  /\ WalksTypeOK /\ IdsTypeOK /\ KeysTypeOK /\ QueriesTypeOK
=============================================================================
