---------------------------- MODULE MCMigration -----------------------------
(***************************************************************************)
(* Small instances of Migration.                                           *)
(***************************************************************************)
EXTENDS Migration

\* A deployed file whose keys are all lowercase, one of them without an id.
LowercaseFiles == {m \in Maps : LowercaseOnly(m)}

\* A deployed file with uppercase keys, as the second spelling of a lookup
\* expects to meet them.
UppercaseFiles == {m \in Maps : \A k \in Keys : k.case # "upper" => m[k] = Absent}
=============================================================================
