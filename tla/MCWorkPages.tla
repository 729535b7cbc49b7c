---------------------------- MODULE MCWorkPages -----------------------------
(***************************************************************************)
(* Small instances of WorkPages.                                           *)
(***************************************************************************)
EXTENDS WorkPages
=============================================================================
