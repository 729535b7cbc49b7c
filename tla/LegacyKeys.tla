----------------------------- MODULE LegacyKeys -----------------------------
(***************************************************************************)
(* The keys and the lookups of the migration map                           *)
(* (openyard-service/pkg/migration/migration.go).                          *)
(*                                                                         *)
(* A legacy id is a GUID written in some letter case.  The map is keyed by *)
(* the string, so the same GUID in two cases is two keys: a key is a GUID  *)
(* with the case it is written in.  A map is a total function in which     *)
(* Absent stands for a missing key and NoId for an entry whose OpenYard id *)
(* is the empty string (a legacy object that was listed but not migrated). *)
(***************************************************************************)

CONSTANTS Guids,   \* the legacy GUIDs
          OyIds,   \* the non-empty OpenYard ids
          NoId,    \* the empty OpenYard id of a preloaded entry
          Absent   \* no entry

ASSUME KeyAssumption ==
    /\ NoId \notin OyIds
    /\ Absent \notin OyIds \cup {NoId}

Cases == {"lower", "upper", "mixed"}
Keys == [guid : Guids, case : Cases]

\* strings.ToLower and strings.ToUpper, on a GUID that contains a letter.
ToLower(k) == [guid |-> k.guid, case |-> "lower"]
ToUpper(k) == [guid |-> k.guid, case |-> "upper"]

\* The one other spelling a lookup tries, after a form that gets it wrong for
\* the ids MapID has written.
OtherCaseUpper(k) == ToUpper(k)
OtherCase(k) == IF ToLower(k) = k THEN ToUpper(k) ELSE ToLower(k)

Maps == [Keys -> OyIds \cup {NoId, Absent}]
EmptyMap == [k \in Keys |-> Absent]

\* The entry a lookup lands on: the key as given, else its other spelling.
Find(m, k) == IF m[k] # Absent THEN m[k] ELSE m[OtherCase(k)]

\* LookupOpenYardID answers "" both for no entry and for an entry without id.
LookupOpenYardID(m, k) == IF Find(m, k) = Absent THEN NoId ELSE Find(m, k)

FilterMissing(m, ids) == {k \in ids : Find(m, k) \in {Absent, NoId}}

\* The map holds no key but lowercase ones.
LowercaseOnly(m) == \A k \in Keys : k.case # "lower" => m[k] = Absent
=============================================================================
