-------------------------- MODULE AktenplanProofs ---------------------------
(***************************************************************************)
(* What holds of Aktenplan for any plan, any number of runs and spaces.    *)
(*                                                                         *)
(* A run leaves behind it only nodes that are there, or that it reported   *)
(* (BehindInv).  As long as none of its calls failed, a node behind it has *)
(* its metadata or is out of reach for good: it is slashed, or it is below *)
(* another node behind the run that is not there (CleanInv).  This uses    *)
(* that Walk visits parents first, and that the storage never makes a      *)
(* container without the one above it (TreeInv).                           *)
(***************************************************************************)
EXTENDS Aktenplan, FiniteSetTheorems, TLAPS

Behind(p) == {j \in Places : j < at[p]}
Beyond(p) == pc[p] \in Inside \cup {"done"}

TreeInv ==
    \A s \in Roots :
        /\ marked[s] \subseteq tree[s]
        /\ \A n \in tree[s] : CanExist(s, n)

PlaceOK(p) ==
    /\ pc[p] = "mark" => Here(p) \in tree[root[p]]
    /\ pc[p] = "done" => Behind(p) = Places

BehindOK(p) ==
    Beyond(p) => \A j \in Behind(p) : Order[j] \in tree[root[p]] \cup errors[p]

OutOfReach(p, j) ==
    /\ Order[j] \notin tree[root[p]]
    /\ \/ Order[j] \in Slashed
       \/ \E k \in Behind(p) : Parent[Order[j]] = Order[k] /\ Order[k] \notin tree[root[p]]

CleanOK(p) ==
    Beyond(p) /\ ~faulty[p] =>
        \A j \in Behind(p) : Order[j] \in marked[root[p]] \/ OutOfReach(p, j)

RunsInv == \A p \in Runners : PlaceOK(p) /\ BehindOK(p) /\ CleanOK(p)

SpaceInv ==
    /\ ~overlap => \A p, q \in Active : p = q
    /\ ~overlap /\ ~blind =>
          /\ \A s, t \in spaces : s = t
          /\ \A p \in Runners : pc[p] = "create" => spaces = {}

IInv == TypeOK /\ TreeInv /\ RunsInv /\ SpaceInv

-----------------------------------------------------------------------------
LEMMA PlacesType == \E N \in Nat : Places = 1 .. N
  BY PlanAssumption, FS_CardinalityType DEF Places

LEMMA OrderType == \A j \in Places : Order[j] \in Nodes /\ Parent[Order[j]] \in Nodes \cup {Top}
  BY PlanAssumption

LEMMA InitIInv == Init => IInv
  <1> SUFFICES ASSUME Init PROVE IInv
    OBVIOUS
  <1> USE DEF Init
  <1>1. TypeOK
    <2>1. \A p \in Runners : pc[p] = "idle" /\ at[p] = 1
      OBVIOUS
    <2>2. pc \in [Runners -> PCs] /\ at \in [Runners -> Nat \ {0}]
      BY DEF PCs
    <2> QED
      BY <2>1, <2>2 DEF TypeOK, Inside
  <1>2. TreeInv
    BY DEF TreeInv
  <1>3. RunsInv
    BY DEF RunsInv, PlaceOK, BehindOK, CleanOK, Beyond, Inside
  <1>4. SpaceInv
    BY DEF SpaceInv, Active
  <1> QED
    BY <1>1, <1>2, <1>3, <1>4 DEF IInv

\* A run moves on to the next node, or is done.
LEMMA AdvanceType ==
    ASSUME TypeOK, NEW p \in Runners, pc[p] \in Inside, Advance(p), UNCHANGED <<spaces, root>>
    PROVE  /\ pc' \in [Runners -> PCs]
           /\ at' \in [Runners -> Nat \ {0}]
           /\ \A q \in Runners : pc'[q] \in Inside \cup {"done"} => root'[q] \in spaces'
           /\ \A q \in Runners : pc'[q] \in Inside => at'[q] \in Places
           /\ \A q \in Runners : pc'[q] \in {"list", "create"} => at'[q] = 1
  BY DEF Advance, Goto, TypeOK, PCs, Inside

\* A run has found or made its space.
LEMMA EnterType ==
    ASSUME TypeOK, NEW p \in Runners, NEW s \in spaces', Enter(p, s), pc[p] \in {"list", "create"},
           spaces \subseteq spaces', spaces' \subseteq Roots, UNCHANGED at
    PROVE  /\ pc' \in [Runners -> PCs]
           /\ root' \in [Runners -> Roots \cup {NoRoot}]
           /\ \A q \in Runners : pc'[q] \in Inside \cup {"done"} => root'[q] \in spaces'
           /\ \A q \in Runners : pc'[q] \in Inside => at'[q] \in Places
           /\ \A q \in Runners : pc'[q] \in {"list", "create"} => at'[q] = 1
  BY DEF Enter, Goto, TypeOK, PCs, Inside

\* Every action keeps the types.
LEMMA StepTypeOK == TypeOK /\ [Next]_vars => TypeOK'
  <1> SUFFICES ASSUME TypeOK, [Next]_vars PROVE TypeOK'
    OBVIOUS
  <1> USE OrderType DEF Goto, Fault, NoFault, history, storage, Here, Put, Report
  <1>1. ASSUME NEW p \in Runners, Start(p) PROVE TypeOK'
    BY <1>1 DEF Start, TypeOK, PCs, Inside
  <1>2. ASSUME NEW p \in Runners, ListFound(p) PROVE TypeOK'
    <2>1. PICK s \in spaces : Enter(p, s)
      BY <1>2 DEF ListFound, Match
    <2> QED
      BY <1>2, <2>1, EnterType DEF ListFound, TypeOK
  <1>3. ASSUME NEW p \in Runners, ListEmpty(p) PROVE TypeOK'
    BY <1>3 DEF ListEmpty, TypeOK, PCs, Inside
  <1>4. ASSUME NEW p \in Runners, ListFailed(p) PROVE TypeOK'
    BY <1>4 DEF ListFailed, TypeOK, PCs, Inside
  <1>5. ASSUME NEW p \in Runners, CreateSpace(p) PROVE TypeOK'
    <2>1. PICK s \in Roots \ spaces : spaces' = spaces \cup {s} /\ Enter(p, s)
      BY <1>5 DEF CreateSpace
    <2>2. spaces' \subseteq Roots /\ s \in spaces' /\ spaces \subseteq spaces'
      BY <2>1 DEF TypeOK
    <2> QED
      BY <1>5, <2>1, <2>2, EnterType DEF CreateSpace, TypeOK
  <1>6. ASSUME NEW p \in Runners, CreateFailed(p) PROVE TypeOK'
    BY <1>6 DEF CreateFailed, TypeOK, PCs, Inside
  <1>7. ASSUME NEW p \in Runners, StatFound(p) PROVE TypeOK'
    BY <1>7 DEF StatFound, AfterStat, TypeOK, PCs, Inside
  <1>8. ASSUME NEW p \in Runners, StatNotFound(p) PROVE TypeOK'
    BY <1>8 DEF StatNotFound, TypeOK, PCs, Inside
  <1>9. ASSUME NEW p \in Runners, StatFailed(p) PROVE TypeOK'
    BY <1>9 DEF StatFailed, TypeOK, PCs, Inside
  <1>10. ASSUME NEW p \in Runners, Make(p) PROVE TypeOK'
    BY <1>10 DEF Make, TypeOK, PCs, Inside
  <1>11. ASSUME NEW p \in Runners, MakeRefused(p) PROVE TypeOK'
    <2>1. pc[p] \in Inside /\ Advance(p) /\ UNCHANGED <<spaces, root>>
      BY <1>11 DEF MakeRefused, Inside
    <2>2. at[p] \in Places
      BY <2>1 DEF TypeOK
    <2> QED
      BY <1>11, <2>1, <2>2, AdvanceType DEF MakeRefused, TypeOK
  <1>12. ASSUME NEW p \in Runners, MakeFailed(p) PROVE TypeOK'
    <2>1. pc[p] \in Inside /\ Advance(p) /\ UNCHANGED <<spaces, root>>
      BY <1>12 DEF MakeFailed, Inside
    <2>2. at[p] \in Places
      BY <2>1 DEF TypeOK
    <2> QED
      BY <1>12, <2>1, <2>2, AdvanceType DEF MakeFailed, TypeOK
  <1>13. ASSUME NEW p \in Runners, Mark(p) PROVE TypeOK'
    <2>1. pc[p] \in Inside /\ Advance(p) /\ UNCHANGED <<spaces, root>>
      BY <1>13 DEF Mark, Inside
    <2>2. at[p] \in Places
      BY <2>1 DEF TypeOK
    <2> QED
      BY <1>13, <2>1, <2>2, AdvanceType DEF Mark, TypeOK
  <1>14. ASSUME NEW p \in Runners, MarkFailed(p) PROVE TypeOK'
    <2>1. pc[p] \in Inside /\ Advance(p) /\ UNCHANGED <<spaces, root>>
      BY <1>14 DEF MarkFailed, Inside
    <2>2. at[p] \in Places
      BY <2>1 DEF TypeOK
    <2> QED
      BY <1>14, <2>1, <2>2, AdvanceType DEF MarkFailed, TypeOK
  <1>15. ASSUME NEW p \in Runners, Die(p) PROVE TypeOK'
    BY <1>15 DEF Die, TypeOK, PCs, Inside
  <1>16. CASE UNCHANGED vars
    BY <1>16 DEF vars, locals, TypeOK
  <1> QED
    BY <1>1, <1>2, <1>3, <1>4, <1>5, <1>6, <1>7, <1>8, <1>9, <1>10, <1>11, <1>12, <1>13, <1>14,
       <1>15, <1>16 DEF Next, Step, Disturbance

-----------------------------------------------------------------------------
(* What a step means for one run. *)

\* Containers and metadata only ever come in addition, a container below the one
\* above it.
Grows ==
    \A s \in Roots :
        /\ tree[s] \subseteq tree'[s]
        /\ marked[s] \subseteq marked'[s]
        /\ \A n \in tree'[s] \ tree[s] : CanExist(s, n)

\* A run that stays where it is keeps what it left behind.
LEMMA Stays ==
    ASSUME TypeOK, TreeInv, TypeOK', Grows, NEW q \in Runners, BehindOK(q), CleanOK(q),
           Beyond(q) \/ ~Beyond(q)', root'[q] = root[q], at'[q] = at[q], errors[q] \subseteq errors'[q],
           faulty[q] => faulty'[q]
    PROVE  BehindOK(q)' /\ CleanOK(q)'
  <1> USE OrderType
  <1>1. Behind(q)' = Behind(q)
    BY DEF Behind
  <1>2. SUFFICES ASSUME Beyond(q), Beyond(q)'
                 PROVE  BehindOK(q)' /\ CleanOK(q)'
    BY DEF BehindOK, CleanOK
  <1>3. root[q] \in Roots /\ root'[q] = root[q]
    BY <1>2 DEF Beyond, TypeOK
  <1>4. BehindOK(q)'
    BY <1>1, <1>2, <1>3 DEF BehindOK, Grows
  <1>5. ASSUME ~faulty'[q], NEW j \in Behind(q), Order[j] \notin marked'[root[q]]
        PROVE  OutOfReach(q, j)'
    <2>1. OutOfReach(q, j)
      BY <1>2, <1>3, <1>5 DEF CleanOK, Grows
    <2>2. ASSUME NEW k \in Behind(q), Order[k] \notin tree[root[q]]
          PROVE  Order[k] \notin tree'[root[q]]
      <3>1. OutOfReach(q, k)
        BY <1>2, <1>3, <1>5, <2>2 DEF CleanOK, TreeInv
      <3> QED
        BY <1>3, <2>2, <3>1, PlanAssumption DEF OutOfReach, Grows, CanExist, Behind
    <2> QED
      BY <1>1, <1>3, <1>5, <2>1, <2>2 DEF OutOfReach
  <1> QED
    BY <1>1, <1>2, <1>3, <1>4, <1>5 DEF CleanOK

\* A run that moves on leaves one more node behind: it is there or reported, and it
\* has its metadata or is out of reach unless a call failed.
LEMMA MovesOn ==
    ASSUME TypeOK, TreeInv, TypeOK', Grows, NEW p \in Runners, BehindOK(p), CleanOK(p),
           pc[p] \in Inside, Advance(p), root'[p] = root[p], errors[p] \subseteq errors'[p],
           Here(p) \in tree'[root[p]] \cup errors'[p],
           ~faulty'[p] => /\ ~faulty[p]
                          /\ Here(p) \in marked'[root[p]] \/ (tree' = tree /\ OutOfReach(p, at[p]))
    PROVE  PlaceOK(p)' /\ BehindOK(p)' /\ CleanOK(p)'
  <1> USE OrderType
  <1>1. at[p] \in Places /\ at'[p] = at[p] + 1 /\ root[p] \in Roots
    BY DEF Advance, TypeOK, Inside
  <1>2. Behind(p)' = Behind(p) \cup {at[p]}
    BY <1>1, PlacesType DEF Behind
  <1>3. Beyond(p)
    BY DEF Beyond
  <1>4. PlaceOK(p)'
    <2>1. pc'[p] \in {"stat", "done"}
      BY DEF Advance, Goto, TypeOK
    <2>2. pc'[p] = "done" => at[p] + 1 \notin Places
      BY DEF Advance, Goto, TypeOK
    <2>3. at[p] + 1 \notin Places => Behind(p)' = Places
      BY <1>1, PlacesType DEF Behind
    <2> QED
      BY <2>1, <2>2, <2>3, <1>1 DEF PlaceOK
  <1>5. BehindOK(p)'
    BY <1>1, <1>2, <1>3 DEF BehindOK, Grows, Here
  <1>6. ASSUME ~faulty'[p], NEW j \in Behind(p)', Order[j] \notin marked'[root[p]]
        PROVE  OutOfReach(p, j)'
    <2>1. Order[j] \notin marked[root[p]]
      BY <1>1, <1>6 DEF Grows
    <2>2. OutOfReach(p, j)
      BY <1>1, <1>2, <1>3, <1>6, <2>1 DEF CleanOK, Here
    <2>3. ASSUME NEW k \in Behind(p), Order[k] \notin tree[root[p]]
          PROVE  Order[k] \notin tree'[root[p]]
      <3>1. OutOfReach(p, k)
        BY <1>1, <1>3, <1>6, <2>3 DEF CleanOK, TreeInv
      <3> QED
        BY <1>1, <2>3, <3>1, PlanAssumption DEF OutOfReach, Grows, CanExist, Behind
    <2>4. Order[j] \notin tree'[root[p]]
      BY <1>1, <1>2, <1>6, <2>2, <2>3 DEF OutOfReach, Here
    <2> QED
      BY <1>1, <1>2, <2>2, <2>3, <2>4 DEF OutOfReach
  <1> QED
    BY <1>1, <1>4, <1>5, <1>6 DEF CleanOK

\* Who does not take the step.
Rests(q) ==
    /\ pc'[q] = pc[q]
    /\ root'[q] = root[q]
    /\ at'[q] = at[q]
    /\ errors'[q] = errors[q]
    /\ faulty'[q] = faulty[q]

RunOK(q) == PlaceOK(q) /\ BehindOK(q) /\ CleanOK(q)

\* The frame of every step: it is enough to look at the run that takes it.
LEMMA OneRunSteps ==
    ASSUME IInv, TypeOK', NEW p \in Runners, Grows, \A s \in Roots : marked'[s] \subseteq tree'[s],
           \A q \in Runners \ {p} : Rests(q), RunOK(p)', SpaceInv'
    PROVE  IInv'
  <1>1. TreeInv'
    <2> SUFFICES ASSUME NEW s \in Roots, NEW n \in tree'[s] PROVE CanExist(s, n)'
      BY DEF TreeInv
    <2>1. CanExist(s, n)
      BY DEF IInv, TreeInv, Grows
    <2> QED
      BY <2>1 DEF CanExist, Grows
  <1>2. ASSUME NEW q \in Runners \ {p} PROVE RunOK(q)'
    <2>1. Rests(q) /\ RunOK(q) /\ TypeOK /\ TreeInv
      BY DEF IInv, RunsInv, RunOK
    <2>2. PlaceOK(q)'
      BY <2>1 DEF RunOK, PlaceOK, Rests, Here, Behind, Grows, TypeOK, Inside
    <2>3. BehindOK(q)' /\ CleanOK(q)'
      BY <2>1, Stays DEF RunOK, Rests, Beyond
    <2> QED
      BY <2>2, <2>3 DEF RunOK
  <1> QED
    BY <1>1, <1>2 DEF IInv, RunsInv, RunOK

\* Nothing is different in the storage.
LEMMA NothingGrows ==
    ASSUME TreeInv, UNCHANGED <<tree, marked>>
    PROVE  Grows /\ \A s \in Roots : marked'[s] \subseteq tree'[s]
  BY DEF Grows, TreeInv

\* A container is made: the storage has the one above it.
LEMMA PutGrows ==
    ASSUME TypeOK, TreeInv, NEW s \in Roots, NEW n \in Nodes, n \in tree[s] \/ CanExist(s, n),
           Put(s, n), UNCHANGED marked
    PROVE  Grows /\ \A t \in Roots : marked'[t] \subseteq tree'[t]
  BY DEF Put, Grows, TreeInv, TypeOK

\* Metadata is set on a container that is there.
LEMMA MarkGrows ==
    ASSUME TypeOK, TreeInv, NEW s \in Roots, NEW n \in tree[s], UNCHANGED tree,
           marked' = [marked EXCEPT ![s] = @ \cup {n}]
    PROVE  Grows /\ \A t \in Roots : marked'[t] \subseteq tree'[t]
  BY DEF Grows, TreeInv, TypeOK

\* A run goes on, or ends, past ensureSpace.
LEMMA SpaceKept ==
    ASSUME SpaceInv, UNCHANGED <<spaces, blind, overlap>>,
           \A q \in Runners : /\ pc'[q] \notin {"idle", "done"} => pc[q] \notin {"idle", "done"}
                              /\ pc'[q] = "create" => pc[q] = "create"
    PROVE  SpaceInv'
  BY DEF SpaceInv, Active

-----------------------------------------------------------------------------
(* The steps. *)

LEMMA StartStep ==
    ASSUME IInv, TypeOK', NEW p \in Runners, Start(p)
    PROVE  IInv'
  <1> USE DEF Goto, storage
  <1>1. Grows /\ \A s \in Roots : marked'[s] \subseteq tree'[s]
    BY NothingGrows DEF IInv, Start
  <1>2. \A q \in Runners \ {p} : Rests(q)
    BY DEF IInv, TypeOK, Start, Rests
  <1>3. RunOK(p)'
    BY DEF IInv, TypeOK, Start, RunOK, PlaceOK, BehindOK, CleanOK, Beyond, Inside
  <1>4. SpaceInv'
    BY DEF IInv, TypeOK, Start, SpaceInv, Active
  <1> QED
    BY <1>1, <1>2, <1>3, <1>4, OneRunSteps

\* A run that begins its walk has nothing behind it.
LEMMA Entered ==
    ASSUME TypeOK, NEW p \in Runners, pc[p] \in {"list", "create"}, NEW s \in Roots, Enter(p, s), UNCHANGED at
    PROVE  RunOK(p)'
  <1>1. at'[p] = 1 /\ Behind(p)' = {}
    BY PlacesType DEF TypeOK, Behind
  <1>2. pc'[p] \in {"stat", "done"} /\ (pc'[p] = "done" => Places = {})
    BY PlacesType DEF Enter, Goto, TypeOK
  <1> QED
    BY <1>1, <1>2 DEF RunOK, PlaceOK, BehindOK, CleanOK

LEMMA ListFoundStep ==
    ASSUME IInv, TypeOK', NEW p \in Runners, ListFound(p)
    PROVE  IInv'
  <1> USE DEF NoFault, history, storage
  <1>0. PICK s \in spaces : Enter(p, s)
    BY DEF ListFound, Match
  <1>1. Grows /\ \A t \in Roots : marked'[t] \subseteq tree'[t]
    BY NothingGrows DEF IInv, ListFound
  <1>2. \A q \in Runners \ {p} : Rests(q)
    BY <1>0 DEF IInv, TypeOK, ListFound, Enter, Goto, Rests
  <1>3. RunOK(p)'
    BY <1>0, Entered DEF IInv, TypeOK, ListFound
  <1>4. SpaceInv'
    BY <1>0, SpaceKept DEF IInv, TypeOK, ListFound, Enter, Goto
  <1> QED
    BY <1>1, <1>2, <1>3, <1>4, OneRunSteps

LEMMA ListEmptyStep ==
    ASSUME IInv, TypeOK', NEW p \in Runners, ListEmpty(p)
    PROVE  IInv'
  <1> USE DEF NoFault, history, storage, Goto
  <1>1. Grows /\ \A t \in Roots : marked'[t] \subseteq tree'[t]
    BY NothingGrows DEF IInv, ListEmpty
  <1>2. \A q \in Runners \ {p} : Rests(q)
    BY DEF IInv, TypeOK, ListEmpty, Rests
  <1>3. RunOK(p)'
    BY DEF IInv, TypeOK, ListEmpty, RunOK, PlaceOK, BehindOK, CleanOK, Beyond, Inside
  <1>4. SpaceInv'
    BY DEF IInv, TypeOK, ListEmpty, Match, SpaceInv, Active
  <1> QED
    BY <1>1, <1>2, <1>3, <1>4, OneRunSteps

LEMMA ListFailedStep ==
    ASSUME IInv, TypeOK', NEW p \in Runners, ListFailed(p)
    PROVE  IInv'
  <1> USE DEF storage, Goto
  <1>1. Grows /\ \A t \in Roots : marked'[t] \subseteq tree'[t]
    BY NothingGrows DEF IInv, ListFailed
  <1>2. \A q \in Runners \ {p} : Rests(q)
    BY DEF IInv, TypeOK, ListFailed, Rests
  <1>3. RunOK(p)'
    BY DEF IInv, TypeOK, ListFailed, RunOK, PlaceOK, BehindOK, CleanOK, Beyond, Inside
  <1>4. SpaceInv'
    BY DEF IInv, TypeOK, ListFailed, SpaceInv, Active
  <1> QED
    BY <1>1, <1>2, <1>3, <1>4, OneRunSteps

LEMMA CreateSpaceStep ==
    ASSUME IInv, TypeOK', NEW p \in Runners, CreateSpace(p)
    PROVE  IInv'
  <1> USE DEF NoFault, history
  <1>0. PICK s \in Roots \ spaces : spaces' = spaces \cup {s} /\ Enter(p, s)
    BY DEF CreateSpace
  <1>1. Grows /\ \A t \in Roots : marked'[t] \subseteq tree'[t]
    BY NothingGrows DEF IInv, CreateSpace
  <1>2. \A q \in Runners \ {p} : Rests(q)
    BY <1>0 DEF IInv, TypeOK, CreateSpace, Enter, Goto, Rests
  <1>3. RunOK(p)'
    BY <1>0, Entered DEF IInv, CreateSpace
  <1>4. SpaceInv'
    BY <1>0 DEF IInv, TypeOK, CreateSpace, Enter, Goto, SpaceInv, Active
  <1> QED
    BY <1>1, <1>2, <1>3, <1>4, OneRunSteps

LEMMA CreateFailedStep ==
    ASSUME IInv, TypeOK', NEW p \in Runners, CreateFailed(p)
    PROVE  IInv'
  <1> USE DEF Fault, Goto
  <1>1. Grows /\ \A t \in Roots : marked'[t] \subseteq tree'[t]
    BY NothingGrows DEF IInv, CreateFailed
  <1>2. \A q \in Runners \ {p} : Rests(q)
    BY DEF IInv, TypeOK, CreateFailed, Rests
  <1>3. RunOK(p)'
    BY DEF IInv, TypeOK, CreateFailed, RunOK, PlaceOK, BehindOK, CleanOK, Beyond, Inside
  <1>4. SpaceInv'
    BY DEF IInv, TypeOK, CreateFailed, SpaceInv, Active
  <1> QED
    BY <1>1, <1>2, <1>3, <1>4, OneRunSteps

LEMMA StatFoundStep ==
    ASSUME IInv, TypeOK', NEW p \in Runners, StatFound(p)
    PROVE  IInv'
  <1> USE DEF NoFault, history, storage, AfterStat, Goto
  <1>0. TypeOK /\ TreeInv /\ BehindOK(p) /\ CleanOK(p)
    BY DEF IInv, RunsInv
  <1>1. Grows /\ \A t \in Roots : marked'[t] \subseteq tree'[t]
    BY <1>0, NothingGrows DEF StatFound
  <1>2. \A q \in Runners \ {p} : Rests(q)
    BY <1>0 DEF TypeOK, StatFound, Rests
  <1>3. RunOK(p)'
    <2>1. PlaceOK(p)'
      BY <1>0 DEF TypeOK, StatFound, PlaceOK, Here
    <2>2. BehindOK(p)' /\ CleanOK(p)'
      BY <1>0, <1>1, Stays DEF TypeOK, StatFound, Beyond, Inside
    <2> QED
      BY <2>1, <2>2 DEF RunOK
  <1>4. SpaceInv'
    BY <1>0, SpaceKept DEF IInv, TypeOK, StatFound
  <1> QED
    BY <1>1, <1>2, <1>3, <1>4, OneRunSteps

LEMMA StatNotFoundStep ==
    ASSUME IInv, TypeOK', NEW p \in Runners, StatNotFound(p)
    PROVE  IInv'
  <1> USE DEF NoFault, history, storage, Goto
  <1>0. TypeOK /\ TreeInv /\ BehindOK(p) /\ CleanOK(p)
    BY DEF IInv, RunsInv
  <1>1. Grows /\ \A t \in Roots : marked'[t] \subseteq tree'[t]
    BY <1>0, NothingGrows DEF StatNotFound
  <1>2. \A q \in Runners \ {p} : Rests(q)
    BY <1>0 DEF TypeOK, StatNotFound, Rests
  <1>3. RunOK(p)'
    <2>1. PlaceOK(p)'
      BY <1>0 DEF TypeOK, StatNotFound, PlaceOK, Here
    <2>2. BehindOK(p)' /\ CleanOK(p)'
      BY <1>0, <1>1, Stays DEF TypeOK, StatNotFound, Beyond, Inside
    <2> QED
      BY <2>1, <2>2 DEF RunOK
  <1>4. SpaceInv'
    BY <1>0, SpaceKept DEF IInv, TypeOK, StatNotFound
  <1> QED
    BY <1>1, <1>2, <1>3, <1>4, OneRunSteps

LEMMA StatFailedStep ==
    ASSUME IInv, TypeOK', NEW p \in Runners, StatFailed(p)
    PROVE  IInv'
  <1> USE DEF Fault, storage, Goto
  <1>0. TypeOK /\ TreeInv /\ BehindOK(p) /\ CleanOK(p)
    BY DEF IInv, RunsInv
  <1>1. Grows /\ \A t \in Roots : marked'[t] \subseteq tree'[t]
    BY <1>0, NothingGrows DEF StatFailed
  <1>2. \A q \in Runners \ {p} : Rests(q)
    BY <1>0 DEF TypeOK, StatFailed, Rests
  <1>3. RunOK(p)'
    <2>1. PlaceOK(p)'
      BY <1>0 DEF TypeOK, StatFailed, PlaceOK, Here
    <2>2. BehindOK(p)' /\ CleanOK(p)'
      BY <1>0, <1>1, Stays DEF TypeOK, StatFailed, Beyond, Inside
    <2> QED
      BY <2>1, <2>2 DEF RunOK
  <1>4. SpaceInv'
    BY <1>0, SpaceKept DEF IInv, TypeOK, StatFailed
  <1> QED
    BY <1>1, <1>2, <1>3, <1>4, OneRunSteps

LEMMA MakeStep ==
    ASSUME IInv, TypeOK', NEW p \in Runners, Make(p)
    PROVE  IInv'
  <1> USE DEF NoFault, history, Goto
  <1>0. TypeOK /\ TreeInv /\ BehindOK(p) /\ CleanOK(p)
    BY DEF IInv, RunsInv
  <1>a. root[p] \in Roots /\ Here(p) \in Nodes
    BY <1>0, OrderType DEF Make, TypeOK, Inside, Here
  <1>1. Grows /\ \A t \in Roots : marked'[t] \subseteq tree'[t]
    BY <1>0, <1>a, PutGrows DEF Make, Accepted
  <1>2. \A q \in Runners \ {p} : Rests(q)
    BY <1>0 DEF TypeOK, Make, Rests
  <1>3. RunOK(p)'
    <2>1. PlaceOK(p)'
      BY <1>0, <1>a DEF TypeOK, Make, Put, PlaceOK, Here
    <2>2. BehindOK(p)' /\ CleanOK(p)'
      BY <1>0, <1>1, Stays DEF TypeOK, Make, Beyond, Inside
    <2> QED
      BY <2>1, <2>2 DEF RunOK
  <1>4. SpaceInv'
    BY <1>0, SpaceKept DEF IInv, TypeOK, Make
  <1> QED
    BY <1>1, <1>2, <1>3, <1>4, OneRunSteps

LEMMA MakeRefusedStep ==
    ASSUME IInv, TypeOK', NEW p \in Runners, MakeRefused(p)
    PROVE  IInv'
  <1> USE DEF NoFault, history, storage
  <1>0. TypeOK /\ TreeInv /\ PlaceOK(p) /\ BehindOK(p) /\ CleanOK(p)
    BY DEF IInv, RunsInv
  <1>a. /\ pc[p] \in Inside
        /\ at[p] \in Places
        /\ root[p] \in Roots
        /\ Here(p) \in Nodes
    BY <1>0, OrderType DEF MakeRefused, TypeOK, Inside, Here
  <1>1. Grows /\ \A t \in Roots : marked'[t] \subseteq tree'[t]
    BY <1>0, NothingGrows DEF MakeRefused
  <1>2. \A q \in Runners \ {p} : Rests(q)
    BY <1>0 DEF TypeOK, MakeRefused, Advance, Goto, Report, Rests
  <1>3. RunOK(p)'
    <2>1. Here(p) \in tree'[root[p]] \cup errors'[p] /\ errors[p] \subseteq errors'[p]
      BY <1>0 DEF MakeRefused, Report, TypeOK
    <2>2. ~faulty'[p] => /\ ~faulty[p]
                         /\ Here(p) \in marked'[root[p]] \/ (tree' = tree /\ OutOfReach(p, at[p]))
      <3>1. Here(p) \notin tree[root[p]] /\ ~CanExist(root[p], Here(p))
        BY DEF MakeRefused, Accepted
      <3>2. Here(p) \in Slashed
              \/ \E k \in Behind(p) : Parent[Here(p)] = Order[k] /\ Order[k] \notin tree[root[p]]
        <4>1. CASE Here(p) \notin Slashed
          <5>1. Parent[Here(p)] # Top /\ Parent[Here(p)] \notin tree[root[p]]
            BY <3>1, <4>1 DEF CanExist
          <5>2. PICK k \in 1 .. (at[p] - 1) : Order[k] = Parent[Here(p)]
            BY <1>a, <5>1, WalkAssumption DEF Here
          <5>3. k \in Behind(p)
            BY <1>a, <5>2, PlacesType DEF Behind
          <5> QED
            BY <5>1, <5>2, <5>3
        <4> QED
          BY <4>1
      <3> QED
        BY <3>1, <3>2 DEF OutOfReach, MakeRefused, Here
    <2> QED
      BY <1>0, <1>a, <1>1, <2>1, <2>2, MovesOn DEF MakeRefused, RunOK
  <1>4. SpaceInv'
    BY <1>0, <1>a, SpaceKept DEF IInv, TypeOK, MakeRefused, Advance, Goto, Inside
  <1> QED
    BY <1>1, <1>2, <1>3, <1>4, OneRunSteps

LEMMA MakeFailedStep ==
    ASSUME IInv, TypeOK', NEW p \in Runners, MakeFailed(p)
    PROVE  IInv'
  <1> USE DEF Fault
  <1>0. TypeOK /\ TreeInv /\ PlaceOK(p) /\ BehindOK(p) /\ CleanOK(p)
    BY DEF IInv, RunsInv
  <1>a. /\ pc[p] \in Inside
        /\ at[p] \in Places
        /\ root[p] \in Roots
        /\ Here(p) \in Nodes
    BY <1>0, OrderType DEF MakeFailed, TypeOK, Inside, Here
  <1>1. Grows /\ \A t \in Roots : marked'[t] \subseteq tree'[t]
    <2>1. CASE UNCHANGED tree
      BY <2>1, <1>0, NothingGrows DEF MakeFailed
    <2>2. CASE CanExist(root[p], Here(p)) /\ Put(root[p], Here(p))
      BY <2>2, <1>0, <1>a, PutGrows DEF MakeFailed
    <2> QED
      BY <2>1, <2>2 DEF MakeFailed
  <1>2. \A q \in Runners \ {p} : Rests(q)
    BY <1>0 DEF TypeOK, MakeFailed, Advance, Goto, Report, Rests
  <1>3. RunOK(p)'
    <2>1. Here(p) \in tree'[root[p]] \cup errors'[p] /\ errors[p] \subseteq errors'[p]
      BY <1>0 DEF MakeFailed, Report, TypeOK
    <2>2. ~faulty'[p] => /\ ~faulty[p]
                         /\ Here(p) \in marked'[root[p]] \/ (tree' = tree /\ OutOfReach(p, at[p]))
      BY <1>0 DEF MakeFailed, TypeOK
    <2> QED
      BY <1>0, <1>a, <1>1, <2>1, <2>2, MovesOn DEF MakeFailed, RunOK
  <1>4. SpaceInv'
    BY <1>0, <1>a, SpaceKept DEF IInv, TypeOK, MakeFailed, Advance, Goto, Inside
  <1> QED
    BY <1>1, <1>2, <1>3, <1>4, OneRunSteps

LEMMA MarkStep ==
    ASSUME IInv, TypeOK', NEW p \in Runners, Mark(p)
    PROVE  IInv'
  <1> USE DEF NoFault, history
  <1>0. TypeOK /\ TreeInv /\ PlaceOK(p) /\ BehindOK(p) /\ CleanOK(p)
    BY DEF IInv, RunsInv
  <1>a. /\ pc[p] \in Inside
        /\ at[p] \in Places
        /\ root[p] \in Roots
        /\ Here(p) \in Nodes
    BY <1>0, OrderType DEF Mark, TypeOK, Inside, Here
  <1>1. Grows /\ \A t \in Roots : marked'[t] \subseteq tree'[t]
    BY <1>0, <1>a, MarkGrows DEF Mark, PlaceOK
  <1>2. \A q \in Runners \ {p} : Rests(q)
    BY <1>0 DEF TypeOK, Mark, Advance, Goto, Report, Rests
  <1>3. RunOK(p)'
    <2>1. Here(p) \in tree'[root[p]] \cup errors'[p] /\ errors[p] \subseteq errors'[p]
      BY <1>0 DEF Mark, PlaceOK, TypeOK
    <2>2. ~faulty'[p] => /\ ~faulty[p]
                         /\ Here(p) \in marked'[root[p]] \/ (tree' = tree /\ OutOfReach(p, at[p]))
      BY <1>0, <1>a DEF Mark, TypeOK
    <2> QED
      BY <1>0, <1>a, <1>1, <2>1, <2>2, MovesOn DEF Mark, RunOK
  <1>4. SpaceInv'
    BY <1>0, <1>a, SpaceKept DEF IInv, TypeOK, Mark, Advance, Goto, Inside
  <1> QED
    BY <1>1, <1>2, <1>3, <1>4, OneRunSteps

LEMMA MarkFailedStep ==
    ASSUME IInv, TypeOK', NEW p \in Runners, MarkFailed(p)
    PROVE  IInv'
  <1> USE DEF Fault
  <1>0. TypeOK /\ TreeInv /\ PlaceOK(p) /\ BehindOK(p) /\ CleanOK(p)
    BY DEF IInv, RunsInv
  <1>a. /\ pc[p] \in Inside
        /\ at[p] \in Places
        /\ root[p] \in Roots
        /\ Here(p) \in Nodes
    BY <1>0, OrderType DEF MarkFailed, TypeOK, Inside, Here
  <1>1. Grows /\ \A t \in Roots : marked'[t] \subseteq tree'[t]
    <2>1. CASE UNCHANGED marked
      BY <2>1, <1>0, NothingGrows DEF MarkFailed
    <2>2. CASE marked' = [marked EXCEPT ![root[p]] = @ \cup {Here(p)}]
      BY <2>2, <1>0, <1>a, MarkGrows DEF MarkFailed, PlaceOK
    <2> QED
      BY <2>1, <2>2 DEF MarkFailed
  <1>2. \A q \in Runners \ {p} : Rests(q)
    BY <1>0 DEF TypeOK, MarkFailed, Advance, Goto, Report, Rests
  <1>3. RunOK(p)'
    <2>1. Here(p) \in tree'[root[p]] \cup errors'[p] /\ errors[p] \subseteq errors'[p]
      BY <1>0 DEF MarkFailed, PlaceOK, TypeOK
    <2>2. ~faulty'[p] => /\ ~faulty[p]
                         /\ Here(p) \in marked'[root[p]] \/ (tree' = tree /\ OutOfReach(p, at[p]))
      BY <1>0 DEF MarkFailed, TypeOK
    <2> QED
      BY <1>0, <1>a, <1>1, <2>1, <2>2, MovesOn DEF MarkFailed, RunOK
  <1>4. SpaceInv'
    BY <1>0, <1>a, SpaceKept DEF IInv, TypeOK, MarkFailed, Advance, Goto, Inside
  <1> QED
    BY <1>1, <1>2, <1>3, <1>4, OneRunSteps

LEMMA DieStep ==
    ASSUME IInv, TypeOK', NEW p \in Runners, Die(p)
    PROVE  IInv'
  <1> USE DEF Fault, Goto, storage
  <1>1. Grows /\ \A t \in Roots : marked'[t] \subseteq tree'[t]
    BY NothingGrows DEF IInv, Die
  <1>2. \A q \in Runners \ {p} : Rests(q)
    BY DEF IInv, TypeOK, Die, Rests
  <1>3. RunOK(p)'
    BY DEF IInv, TypeOK, Die, RunOK, PlaceOK, BehindOK, CleanOK, Beyond, Inside
  <1>4. SpaceInv'
    BY DEF IInv, TypeOK, Die, SpaceInv, Active
  <1> QED
    BY <1>1, <1>2, <1>3, <1>4, OneRunSteps

LEMMA StutterStep == IInv /\ UNCHANGED vars => IInv'
  BY DEF IInv, vars, storage, locals, history, TypeOK, TreeInv, CanExist, RunsInv, PlaceOK, Behind,
         Here, BehindOK, CleanOK, OutOfReach, Beyond, SpaceInv, Active

LEMMA StepIInv == IInv /\ [Next]_vars => IInv'
  <1> SUFFICES ASSUME IInv, [Next]_vars PROVE IInv'
    OBVIOUS
  <1>1. TypeOK'
    BY StepTypeOK DEF IInv
  <1> QED
    BY <1>1, StutterStep, StartStep, ListFoundStep, ListEmptyStep, ListFailedStep, CreateSpaceStep,
       CreateFailedStep, StatFoundStep, StatNotFoundStep, StatFailedStep, MakeStep, MakeRefusedStep,
       MakeFailedStep, MarkStep, MarkFailedStep, DieStep
       DEF Next, Step, Disturbance

LEMMA Invariance == Spec => []IInv
  BY InitIInv, StepIInv, PTL DEF Spec

-----------------------------------------------------------------------------
\* Every run has a space of the plan's name while it walks, and stays within the plan.
THEOREM Typing == Spec => []TypeOK
  <1>1. IInv => TypeOK
    BY DEF IInv
  <1> QED
    BY <1>1, Invariance, PTL

\* For every plan and any number of runs: a run of which no call failed has brought
\* the whole plan, and the metadata of all its nodes, into its space.
THEOREM CleanRuns == Spec => []CleanRunIsComplete
  <1>1. IInv => CleanRunIsComplete
    <2> SUFFICES ASSUME IInv, NEW p \in Runners, pc[p] = "done", ~faulty[p]
                 PROVE  Complete(root[p])
      BY DEF CleanRunIsComplete
    <2> DEFINE s == root[p]
    <2>1. s \in Roots
      BY DEF IInv, TypeOK, Inside
    <2>2. \A j \in Places : Order[j] \in marked[s] \/ OutOfReach(p, j)
      BY DEF IInv, RunsInv, PlaceOK, CleanOK, Beyond
    <2>3. \A n \in Nodes : \E j \in Places : Order[j] = n
      BY PlanAssumption
    <2>4. marked[s] \subseteq tree[s] /\ tree[s] \subseteq Nodes
      BY <2>1 DEF IInv, TreeInv, TypeOK
    <2>5. ASSUME NEW n \in Nodes, CanExist(s, n) PROVE n \in marked[s]
      <3>1. PICK j \in Places : Order[j] = n
        BY <2>3
      <3>2. ~OutOfReach(p, j)
        BY <2>5, <3>1, PlanAssumption DEF OutOfReach, CanExist, Behind
      <3> QED
        BY <2>2, <3>1, <3>2
    <2>6. \A n \in tree[s] : CanExist(s, n)
      BY <2>1 DEF IInv, TreeInv
    <2> QED
      BY <2>4, <2>5, <2>6 DEF Complete
  <1> QED
    BY <1>1, Invariance, PTL

\* For every plan, with failing calls: a node that a run which is done did not report
\* is there.
THEOREM Silence == Spec => []SilenceMeansThere
  <1>1. IInv => SilenceMeansThere
    <2> SUFFICES ASSUME IInv, NEW p \in Runners, pc[p] = "done", NEW n \in Nodes \ errors[p]
                 PROVE  n \in tree[root[p]]
      BY DEF SilenceMeansThere
    <2>1. PICK j \in Places : Order[j] = n
      BY PlanAssumption
    <2> QED
      BY <2>1 DEF IInv, RunsInv, PlaceOK, BehindOK, Beyond
  <1> QED
    BY <1>1, Invariance, PTL

\* However many runs died on the way: there are two spaces of the plan's name only if
\* runs overlapped or a listing failed.
THEOREM SingleSpace == Spec => []OneSpace
  <1>1. IInv => OneSpace
    <2> SUFFICES ASSUME IInv, ~blind, ~overlap PROVE Cardinality(spaces) <= 1
      BY DEF OneSpace
    <2>1. \A s, t \in spaces : s = t
      BY DEF IInv, SpaceInv
    <2>2. CASE spaces = {}
      BY <2>2, FS_EmptySet
    <2>3. CASE spaces # {}
      <3>1. PICK s \in spaces : spaces = {s}
        BY <2>1, <2>3
      <3> QED
        <4>1. Cardinality({s}) = 1
          BY FS_Singleton
        <4> QED
          BY <3>1, <4>1
    <2> QED
      BY <2>2, <2>3
  <1> QED
    BY <1>1, Invariance, PTL
=============================================================================
