---------------------------- MODULE MCCS3Client -----------------------------
(***************************************************************************)
(* Small instances of CS3Client.  Connections and callers are              *)
(* interchangeable, which the safety runs use.                             *)
(***************************************************************************)
EXTENDS CS3Client, TLC

Symmetry == Permutations(Conns) \cup Permutations(Callers)
=============================================================================
