------------------------------ MODULE Aktenplan -----------------------------
(***************************************************************************)
(* aktenplan-apply: a folder plan brought into a storage space             *)
(* (aktenplan-setup/pkg/apply/apply.go, schema/schema.go).                 *)
(*                                                                         *)
(* A run lists the spaces, takes the one with the plan's name or creates   *)
(* it, and then goes through the plan's nodes in the order of Walk: Stat,  *)
(* CreateContainer if there was nothing, SetArbitraryMetadata.  Nothing is *)
(* remembered between runs; runs are repeated, overlap, and die half way.  *)
(*                                                                         *)
(* The storage is external: a container needs the one above it, and one    *)
(* that exists is not made again.  A call may fail, before or after its    *)
(* effect.                                                                 *)
(***************************************************************************)
EXTENDS Naturals, FiniteSets

CONSTANTS Runners,   \* the processes that apply the plan
          Nodes,     \* the nodes of the plan (no two have the same path)
          Top,       \* the space's root, above the plan's first level
          Parent,    \* the node above each node, or Top
          Order,     \* the node Walk visits first, second, ...
          Slashed,   \* the nodes whose Kennung contains a "/" (Vorgang, Band)
          Roots,     \* the spaces that can be created under the plan's name
          NoRoot     \* a run that has no space yet

Places == 1 .. Cardinality(Nodes)

ASSUME PlanAssumption ==
    /\ IsFiniteSet(Nodes)
    /\ Top \notin Nodes
    /\ Parent \in [Nodes -> Nodes \cup {Top}]
    /\ Order \in [Places -> Nodes]
    /\ \A n \in Nodes : \E i \in Places : Order[i] = n
    /\ Slashed \subseteq Nodes
    /\ NoRoot \notin Roots

\* Walk visits a node after the one above it.
ASSUME WalkAssumption ==
    \A i \in Places : Parent[Order[i]] # Top => \E j \in 1 .. (i - 1) : Order[j] = Parent[Order[i]]

VARIABLES
    spaces,  \* storage: the spaces that exist under the plan's name
    tree,    \* storage: per space, the nodes whose container exists
    marked,  \* storage: per space, the nodes whose metadata is set
    pc,      \* where each run is
    root,    \* the space of each run
    at,      \* the place in Order each run has come to
    errors,  \* the nodes each run has reported an ERROR for
    faulty,  \* history: a call of the run failed
    blind,   \* history: a space was created after a listing that failed
    overlap  \* history: two runs were under way at once

storage == <<spaces, tree, marked>>
locals == <<pc, root, at, errors>>
history == <<faulty, blind, overlap>>
vars == <<storage, locals, history>>

PCs == {"idle", "list", "create", "stat", "make", "mark", "done"}
Inside == {"stat", "make", "mark"}
Active == {p \in Runners : pc[p] \notin {"idle", "done"}}

TypeOK ==
    /\ spaces \subseteq Roots
    /\ tree \in [Roots -> SUBSET Nodes]
    /\ marked \in [Roots -> SUBSET Nodes]
    /\ pc \in [Runners -> PCs]
    /\ root \in [Runners -> Roots \cup {NoRoot}]
    /\ \A p \in Runners : pc[p] \in Inside \cup {"done"} => root[p] \in spaces
    /\ at \in [Runners -> Nat \ {0}]
    /\ \A p \in Runners : pc[p] \in Inside => at[p] \in Places
    /\ \A p \in Runners : pc[p] \in {"list", "create"} => at[p] = 1
    /\ errors \in [Runners -> SUBSET Nodes]
    /\ faulty \in [Runners -> BOOLEAN]
    /\ blind \in BOOLEAN
    /\ overlap \in BOOLEAN

Init ==
    /\ spaces = {}
    /\ tree = [s \in Roots |-> {}]
    /\ marked = [s \in Roots |-> {}]
    /\ pc = [p \in Runners |-> "idle"]
    /\ root = [p \in Runners |-> NoRoot]
    /\ at = [p \in Runners |-> 1]
    /\ errors = [p \in Runners |-> {}]
    /\ faulty = [p \in Runners |-> FALSE]
    /\ blind = FALSE
    /\ overlap = FALSE

Goto(p, label) == pc' = [pc EXCEPT ![p] = label]
Fault(p) == faulty' = [faulty EXCEPT ![p] = TRUE] /\ UNCHANGED <<blind, overlap>>
NoFault == UNCHANGED history

-----------------------------------------------------------------------------
\* A run begins, and authenticates.  (One that may not changes nothing.)
Start(p) ==
    /\ pc[p] \in {"idle", "done"}
    /\ Goto(p, "list")
    /\ root' = [root EXCEPT ![p] = NoRoot]
    /\ at' = [at EXCEPT ![p] = 1]
    /\ errors' = [errors EXCEPT ![p] = {}]
    /\ faulty' = [faulty EXCEPT ![p] = FALSE]
    /\ overlap' = (overlap \/ Active # {})
    /\ UNCHANGED <<storage, blind>>

\* The walk, over a plan that is not empty (validate), starts in space s.
Enter(p, s) ==
    /\ root' = [root EXCEPT ![p] = s]
    /\ Goto(p, IF 1 \in Places THEN "stat" ELSE "done")

\* ensureSpace: a space of that name is in the list.  Of the forms before the
\* match, one compares nothing and takes none.
MatchNone == {}
Match == spaces

ListFound(p) ==
    /\ pc[p] = "list"
    /\ \E s \in Match : Enter(p, s)
    /\ NoFault
    /\ UNCHANGED <<storage, at, errors>>

\* ... or none is ...
ListEmpty(p) ==
    /\ pc[p] = "list"
    /\ Match = {}
    /\ Goto(p, "create")
    /\ NoFault
    /\ UNCHANGED <<storage, root, at, errors>>

\* ... or the listing fails, which counts as none.  Bound: as long as there is a
\* space for every run that may create one.
ListFailed(p) ==
    /\ pc[p] = "list"
    /\ Cardinality(Roots \ spaces) > Cardinality({q \in Runners : pc[q] \in {"list", "create"}})
    /\ Goto(p, "create")
    /\ faulty' = [faulty EXCEPT ![p] = TRUE]
    /\ blind' = TRUE
    /\ UNCHANGED <<storage, root, at, errors, overlap>>

\* CreateStorageSpace: the storage does not mind a second space of that name.
CreateSpace(p) ==
    /\ pc[p] = "create"
    /\ \E s \in Roots \ spaces :
          /\ spaces' = spaces \cup {s}
          /\ Enter(p, s)
    /\ NoFault
    /\ UNCHANGED <<tree, marked, at, errors>>

\* It fails, with or without a new space: the run ends with an error.
CreateFailed(p) ==
    /\ pc[p] = "create"
    /\ \/ UNCHANGED spaces
       \/ \E s \in Roots \ spaces : spaces' = spaces \cup {s}
    /\ Goto(p, "idle")
    /\ Fault(p)
    /\ UNCHANGED <<tree, marked, root, at, errors>>

-----------------------------------------------------------------------------
Here(p) == Order[at[p]]

\* The node is done with, or given up: on to the next one in the order of Walk.
Advance(p) ==
    /\ at' = [at EXCEPT ![p] = @ + 1]
    /\ Goto(p, IF at[p] + 1 \in Places THEN "stat" ELSE "done")

\* ensureContainer: there is such a container, made by an earlier run or by
\* another one.  The form before AfterStat trusts it to have its metadata.
AfterStatNext(p) == Advance(p)
AfterStat(p) == Goto(p, "mark") /\ UNCHANGED at

StatFound(p) ==
    /\ pc[p] = "stat"
    /\ Here(p) \in tree[root[p]]
    /\ AfterStat(p)
    /\ NoFault
    /\ UNCHANGED <<storage, root, errors>>

StatNotFound(p) ==
    /\ pc[p] = "stat"
    /\ Here(p) \notin tree[root[p]]
    /\ Goto(p, "make")
    /\ NoFault
    /\ UNCHANGED <<storage, root, at, errors>>

\* A Stat that fails counts as "not found".
StatFailed(p) ==
    /\ pc[p] = "stat"
    /\ Goto(p, "make")
    /\ Fault(p)
    /\ UNCHANGED <<storage, root, at, errors>>

\* What the storage makes: a container whose parent exists.  The path of a slashed
\* node names a container above it that is not a node of the plan, and that the run
\* never makes.
CanExist(s, n) == n \notin Slashed /\ Parent[n] \in tree[s] \cup {Top}
Put(s, n) == tree' = [tree EXCEPT ![s] = @ \cup {n}]

\* CreateContainer makes the container, or finds that it exists by now.  The form
\* before Accepted takes that for an error.
AcceptedIfNew(p) == Here(p) \notin tree[root[p]] /\ CanExist(root[p], Here(p))
Accepted(p) == Here(p) \in tree[root[p]] \/ CanExist(root[p], Here(p))

Make(p) ==
    /\ pc[p] = "make"
    /\ Accepted(p)
    /\ Put(root[p], Here(p))
    /\ Goto(p, "mark")
    /\ NoFault
    /\ UNCHANGED <<spaces, marked, root, at, errors>>

\* "ERROR": the walk goes on with the next node, the children of this one included.
\* The form before it reports nothing.
ReportNothing(p) == UNCHANGED errors
Report(p) == errors' = [errors EXCEPT ![p] = @ \cup {Here(p)}]

MakeRefused(p) ==
    /\ pc[p] = "make"
    /\ ~Accepted(p)
    /\ Report(p)
    /\ Advance(p)
    /\ NoFault
    /\ UNCHANGED <<storage, root>>

MakeFailed(p) ==
    /\ pc[p] = "make"
    /\ \/ UNCHANGED tree
       \/ CanExist(root[p], Here(p)) /\ Put(root[p], Here(p))
    /\ Report(p)
    /\ Advance(p)
    /\ Fault(p)
    /\ UNCHANGED <<spaces, marked, root>>

\* setMetadata, whose result is dropped.
Mark(p) ==
    /\ pc[p] = "mark"
    /\ marked' = [marked EXCEPT ![root[p]] = @ \cup {Here(p)}]
    /\ Advance(p)
    /\ NoFault
    /\ UNCHANGED <<spaces, tree, root, errors>>

MarkFailed(p) ==
    /\ pc[p] = "mark"
    /\ \/ UNCHANGED marked
       \/ marked' = [marked EXCEPT ![root[p]] = @ \cup {Here(p)}]
    /\ Advance(p)
    /\ Fault(p)
    /\ UNCHANGED <<spaces, tree, root, errors>>

\* The process is killed.
Die(p) ==
    /\ p \in Active
    /\ Goto(p, "idle")
    /\ root' = [root EXCEPT ![p] = NoRoot]
    /\ at' = [at EXCEPT ![p] = 1]
    /\ errors' = [errors EXCEPT ![p] = {}]
    /\ Fault(p)
    /\ UNCHANGED storage

-----------------------------------------------------------------------------
Step(p) ==
    \/ ListFound(p)
    \/ ListEmpty(p)
    \/ CreateSpace(p)
    \/ StatFound(p)
    \/ StatNotFound(p)
    \/ Make(p)
    \/ MakeRefused(p)
    \/ Mark(p)

Disturbance(p) ==
    \/ ListFailed(p)
    \/ CreateFailed(p)
    \/ StatFailed(p)
    \/ MakeFailed(p)
    \/ MarkFailed(p)
    \/ Die(p)

Next == \E p \in Runners : Start(p) \/ Step(p) \/ Disturbance(p)

Spec == Init /\ [][Next]_vars

\* A run that was begun goes on, and somebody repeats it.
FairSpec == Spec /\ \A p \in Runners : WF_vars(Start(p) \/ Step(p))

-----------------------------------------------------------------------------
\* The plan is in a space: every node whose container can exist has it, and every
\* container has its metadata.
Complete(s) ==
    /\ tree[s] = {n \in Nodes : CanExist(s, n)}
    /\ marked[s] = tree[s]

\* When a run without a failed call is done, the plan is in its space, whatever
\* earlier runs left half done and other runs do at the same time.
CleanRunIsComplete ==
    \A p \in Runners : pc[p] = "done" /\ ~faulty[p] => Complete(root[p])

\* Calls that fail included: what a run does not report as an ERROR is there when it
\* is done.
SilenceMeansThere ==
    \A p \in Runners : pc[p] = "done" => Nodes \ errors[p] \subseteq tree[root[p]]

\* "creates a storage space or finds an existing one by name": there is one space
\* of that name, whichever runs died and whichever creations failed, unless two runs
\* overlapped or a listing failed.
OneSpace == blind \/ overlap \/ Cardinality(spaces) <= 1

\* Once the disturbances stop, repeated runs bring the whole plan into the storage.
RunsConverge ==
    <>[][~\E p \in Runners : Disturbance(p)]_vars => <>[](\E s \in spaces : Complete(s))
=============================================================================
