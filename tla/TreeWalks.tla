----------------------------- MODULE TreeWalks -----------------------------
(***************************************************************************)
(* The recursive listings: the IN_TREE query, the CMIS descendants and     *)
(* folder tree, and the crawl that extracts an Aktenplan.  Each lists one  *)
(* folder per call while others move folders and listings fail.            *)
(***************************************************************************)
EXTENDS Integers, Sequences, SequencesExt, FiniteSets

CONSTANTS
  Nodes,        \* folders and files
  FolderNodes,
  Root,         \* the folder a walk begins at
  Outside,      \* where no walk looks
  Parent0,      \* the tree at the start: node -> folder
  QueryDepth,   \* the depth of a query, 10 in the code
  CrawlDepth,   \* the depth of a crawl that asks for 0, 20 in the code
  MaxDepth,     \* the largest depth asked for
  MaxMoves,     \* moves of others during a walk
  MaxFailed     \* listings that fail

ASSUME WalkConstants ==
  /\ IsFiniteSet(Nodes) /\ FolderNodes \subseteq Nodes
  /\ Root \notin Nodes /\ Outside \notin Nodes /\ Root # Outside
  /\ Parent0 \in [Nodes -> FolderNodes \cup {Root, Outside}]
  /\ {QueryDepth, CrawlDepth} \subseteq Nat \ {0}
  /\ {MaxDepth, MaxMoves} \subseteq Nat

\* No folder is inside itself.
Tree(p) == \A S \in SUBSET Nodes : S # {} => \E n \in S : p[n] \notin S

ASSUME WalkBeginsWithTree == Tree(Parent0)

Unlimited == -1

VARIABLES
  parentOf,   \* node -> the folder it is in
  moves,      \* moves so far
  touched,    \* nodes that moved, or were below one that did, since the walk began
  walk        \* the walk

walkVars == <<parentOf, moves, touched, walk>>

\* The folders above a node; its path, which has each of them in the next; and
\* what is in a folder, however deep.
Over(p, n) ==
  LET up[x \in Nodes] == {p[x]} \cup IF p[x] \in Nodes THEN up[p[x]] ELSE {}
  IN  up[n]

Path(p, n) == [x \in Nodes \cap ({n} \cup Over(p, n)) |-> p[x]]
Level(p, n) == Cardinality(Over(p, n))
Under(p, f) == {n \in Nodes : f \in {n} \cup Over(p, n)}
In(p, f) == {n \in Nodes : p[n] = f}

\* `open' holds the folders being listed, innermost last: what is left of each
\* list, how many levels may still be listed, and the paths the list told.
\* `found' counts how often each node was added to the result.
NoWalk == [op |-> "none", limit |-> 0, open |-> <<>>, found |-> [n \in Nodes |-> 0], failed |-> {}]

WalksInit ==
  /\ parentOf = Parent0
  /\ moves = 0
  /\ touched = {}
  /\ walk = NoWalk

\* What a listing answers with, in an order of the gateway's choice; that the
\* crawl sorts its folders by name makes it one of these.
Lists(f) == SetToSeqs(In(parentOf, f))

OpenFolder(f, ns, left) ==
  [folder |-> f, rest |-> ns, left |-> left,
   at |-> [n \in ToSet(ns) |-> Path(parentOf, n)]]

\* A listing succeeds with its folder's contents or fails; a failure, or asking for
\* a folder where it no longer is, leaves it without children.
List(f, there, left, then) ==
  \/ there /\ \E ns \in Lists(f) : walk' = [then EXCEPT !.open = Append(@, OpenFolder(f, ns, left))]
  \/ /\ there /\ Cardinality(walk.failed) < MaxFailed
     /\ walk' = [then EXCEPT !.failed = @ \cup {f}]
  \/ ~there /\ walk' = then

Starts(op, limit) ==
  /\ walk = NoWalk
  /\ List(Root, TRUE, limit, [NoWalk EXCEPT !.op = op, !.limit = limit])
  /\ UNCHANGED <<parentOf, moves, touched>>

ListRecursive   == Starts("query", QueryDepth)
GetDescendants  == \E depth \in (1..MaxDepth) \cup {Unlimited} : Starts("descendants", depth)
GetFolderTree   == \E depth \in (1..MaxDepth) \cup {Unlimited} : Starts("foldertree", depth)
Crawl == \E depth \in 0..MaxDepth : Starts("crawl", IF depth = 0 THEN CrawlDepth ELSE depth)

\* The folder tree and the crawl keep folders only.
Keeps(op) == IF op \in {"foldertree", "crawl"} THEN FolderNodes ELSE Nodes

\* The crawl asks for a folder by the path it had when its parent was listed,
\* the others by its id.
StillThere(n, at) == walk.op # "crawl" \/ at = Path(parentOf, n)

GoesDownAlways(left) == TRUE
GoesDownPositive(left) == left > 1
GoesDown(left) == left # 1
LeftBelow(left) == IF left = Unlimited THEN Unlimited ELSE left - 1

\* The next object of the innermost list; a folder is listed before what follows it.
Visit ==
  /\ walk.open # <<>>
  /\ LET top == Last(walk.open)
         outer == Front(walk.open)
     IN  \/ /\ top.rest = <<>>
            /\ walk' = [walk EXCEPT !.open = outer]
         \/ /\ top.rest # <<>>
            /\ LET n == Head(top.rest)
                   passed == [walk EXCEPT !.open = Append(outer, [top EXCEPT !.rest = Tail(@)])]
                   kept == IF n \in Keeps(walk.op)
                             THEN [passed EXCEPT !.found[n] = @ + 1]
                             ELSE passed
               IN  IF n \in FolderNodes /\ GoesDown(top.left)
                     THEN List(n, StillThere(n, top.at[n]), LeftBelow(top.left), kept)
                     ELSE walk' = kept
  /\ UNCHANGED <<parentOf, moves, touched>>

\* Another request moves a folder or a file; never into itself.
MoveNode ==
  /\ walk.op # "none" /\ walk.open # <<>> /\ moves < MaxMoves
  /\ \E n \in Nodes, f \in FolderNodes \cup {Root, Outside} :
       /\ f \notin Under(parentOf, n) /\ f # parentOf[n]
       /\ parentOf' = [parentOf EXCEPT ![n] = f]
       /\ touched' = touched \cup Under(parentOf, n)
  /\ moves' = moves + 1
  /\ UNCHANGED walk

Ended == walk.op # "none" /\ walk.open = <<>>

Answer == Ended /\ walk' = NoWalk /\ touched' = {} /\ UNCHANGED <<parentOf, moves>>

WalksNext ==
  ListRecursive \/ GetDescendants \/ GetFolderTree \/ Crawl \/ Visit \/ MoveNode \/ Answer

WalksSpec == WalksInit /\ [][WalksNext]_walkVars

-----------------------------------------------------------------------------
WalksTypeOK ==
  /\ parentOf \in [Nodes -> FolderNodes \cup {Root, Outside}]
  /\ moves \in 0..MaxMoves
  /\ touched \subseteq Nodes
  /\ walk.failed \subseteq FolderNodes \cup {Root}
  /\ walk.found \in [Nodes -> Nat]

Within(n) == Root \in Over(parentOf, n) /\ (walk.limit = Unlimited \/ Level(parentOf, n) <= walk.limit)

\* A finished walk has every wanted object in the depth asked for exactly once, if
\* neither it nor a folder above it was moved meanwhile, and no listing of a
\* folder above it failed.
StayersFoundOnce ==
  Ended => \A n \in Keeps(walk.op) \ touched :
             Within(n) /\ Over(parentOf, n) \cap walk.failed = {} => walk.found[n] = 1

\* However folders are moved under a walk, it lists no deeper than it was asked;
\* a walk without a limit can list a folder inside itself, but no more often
\* than folders were moved.
StaysWithinDepth ==
  IF walk.limit # Unlimited THEN Len(walk.open) <= walk.limit
  ELSE \A f \in FolderNodes \cup {Root} :
         Cardinality({i \in DOMAIN walk.open : walk.open[i].folder = f}) <= moves + 1
=============================================================================
