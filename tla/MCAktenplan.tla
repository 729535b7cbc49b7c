---------------------------- MODULE MCAktenplan -----------------------------
(* A plan of four nodes: a, below it a Vorgang v and then b, and c below v. *)
EXTENDS Aktenplan, PlanWalk

CONSTANTS a, b, c, v

MCKinder == (Top :> <<a>>) @@ (a :> <<v, b>>) @@ (v :> <<c>>) @@ (b :> <<>>) @@ (c :> <<>>)
MCOrder == (1 :> a) @@ (2 :> v) @@ (3 :> c) @@ (4 :> b)
MCParent == (a :> Top) @@ (v :> a) @@ (c :> v) @@ (b :> a)

\* The constants are this plan's.
ASSUME MCOrder = Walk(MCKinder, Top)
ASSUME \A m \in DOMAIN MCKinder : \A i \in DOMAIN MCKinder[m] : MCParent[MCKinder[m][i]] = m

\* Walk visits every node once and a parent before its children, for every forest on
\* the nodes 1 .. 5 (numbered so that a parent comes before its children).
Forests == {par \in [1 .. 5 -> 0 .. 4] : \A n \in 1 .. 5 : par[n] < n}
KinderOf(par) == [m \in 0 .. 5 |-> SetToSortSeq({n \in 1 .. 5 : par[n] = m}, >)]

ASSUME \A par \in Forests :
    LET order == Walk(KinderOf(par), 0) IN
    /\ Len(order) = 5
    /\ {order[i] : i \in 1 .. 5} = 1 .. 5
    /\ \A i \in 1 .. 5 : par[order[i]] # 0 => \E j \in 1 .. (i - 1) : order[j] = par[order[i]]
=============================================================================
