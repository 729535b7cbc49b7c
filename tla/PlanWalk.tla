------------------------------ MODULE PlanWalk ------------------------------
(***************************************************************************)
(* The tree walk of an Aktenplan (aktenplan-setup/pkg/schema/schema.go).   *)
(*                                                                         *)
(* A plan is given by its Kinder: a function from every node, and from Top *)
(* for the plan itself, to the sequence of its children.                   *)
(***************************************************************************)
EXTENDS Sequences, SequencesExt

\* Walk calls its function for a node before it walks the node's children: the
\* order of the calls, from the children of Top on.
Walk(kinder, Top) ==
    LET walk[n \in DOMAIN kinder] ==
            FlattenSeq([i \in DOMAIN kinder[n] |-> <<kinder[n][i]>> \o walk[kinder[n][i]]])
    IN  walk[Top]
=============================================================================
