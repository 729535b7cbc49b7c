--------------------------- MODULE ObjectsProofs ---------------------------
(***************************************************************************)
(* Proofs about the requests on objects: a success is answered only for    *)
(* what was done, what is created or moved by id lands where it was asked, *)
(* absence is told only where the storage told it, a bulk operation tries  *)
(* every item, an object changes only by a request that names it, and      *)
(* every step of a handler takes it nearer to its answer.                  *)
(*                                                                         *)
(* The invariant speaks of one request at a time: of its history, of what  *)
(* it remembers and of what is left of its list.  A step of a request      *)
(* leaves the others alone, so each handler is shown to keep it on its own.*)
(***************************************************************************)
EXTENDS Objects, TLAPS

(***************************************************************************)
(* The storage: a call leaves a tree of nodes, and tells the id of an      *)
(* object or none.                                                         *)
(***************************************************************************)
\* A result of a call on the tree of the moment.
Called(r, call) ==
  /\ r = [code |-> r.code, tree |-> r.tree, info |-> r.info, did |-> r.did]
  /\ r.did = [call |-> call, code |-> r.code, obj |-> r.did.obj, into |-> r.did.into, name |-> r.did.name]
  /\ r.info.id \in Ids \cup {NoId}
  /\ r.info.name = r.did.name \/ r.info.id = NoId
  /\ r.info.id # NoId => r.info.id = r.did.obj
  /\ TreeOK(r.tree)

LEMMA ResultOK ==
  ASSUME NEW t, TreeOK(t), NEW call, NEW code, NEW o
  PROVE  /\ Called(Result(call, code, t, o), call)
         /\ Result(call, code, t, o).code = code /\ Result(call, code, t, o).tree = t
         /\ Result(call, code, t, o).did.obj = o
         /\ Result(call, code, t, o).info.id = IF o \in Ids THEN o ELSE NoId
         /\ o \in Ids => /\ Result(call, code, t, o).did.into = t[o].parent
                         /\ Result(call, code, t, o).did.name = t[o].name
  BY StoreIds DEF Result, Called, Info, NoInfo

LEMMA BornOK ==
  ASSUME NEW t, TreeOK(t), NEW ref, NEW kind \in {"file", "folder"}, NEW body
  PROVE  TreeOK(Born(t, ref, kind, body))
  <1>1. Into(t, ref) \in Ids \cup {NoId}
    BY DEF Into, Folders, Live
  <1> DEFINE n == Node("live", Into(t, ref), Last(ref.path), kind, body)
  <1>2. NodeOK(n)
    BY <1>1 DEF NodeOK, Node
  <1> HIDE DEF n
  <1> QED
    BY <1>2 DEF TreeOK, Born, n

\* A tree with one of its nodes changed is one.
LEMMA NodesChange ==
  ASSUME NEW n, NodeOK(n), NEW v, NEW st \in {"live", "bin", "unused"}, st = "bin" => v \in Ids,
         NEW p \in Ids \cup {Slash, NoId}, NEW w
  PROVE  /\ NodeOK([n EXCEPT !.body = w]) /\ NodeOK([n EXCEPT !.meta = w])
         /\ NodeOK([n EXCEPT !.state = st, !.bin = v]) /\ NodeOK([n EXCEPT !.parent = p, !.name = w])
  <1> DEFINE N(state, parent, name, body, meta, bin) ==
               [state |-> state, parent |-> parent, name |-> name, kind |-> n.kind,
                body |-> body, meta |-> meta, bin |-> bin]
  <1>1. n = N(n.state, n.parent, n.name, n.body, n.meta, n.bin)
    BY DEF NodeOK
  <1>2. /\ [n EXCEPT !.body = w] = N(n.state, n.parent, n.name, w, n.meta, n.bin)
        /\ [n EXCEPT !.meta = w] = N(n.state, n.parent, n.name, n.body, w, n.bin)
    BY <1>1
  <1>3. [n EXCEPT !.state = st, !.bin = v] = N(st, n.parent, n.name, n.body, n.meta, v)
    <2>1. PICK m : m = [n EXCEPT !.state = st]
      OBVIOUS
    <2>2. m = N(st, n.parent, n.name, n.body, n.meta, n.bin)
      BY <1>1, <2>1
    <2>3. [m EXCEPT !.bin = v] = N(st, n.parent, n.name, n.body, n.meta, v)
      BY <2>2
    <2> QED
      BY <2>1, <2>3
  <1>4. [n EXCEPT !.parent = p, !.name = w] = N(n.state, p, w, n.body, n.meta, n.bin)
    <2>1. PICK m : m = [n EXCEPT !.parent = p]
      OBVIOUS
    <2>2. m = N(n.state, p, n.name, n.body, n.meta, n.bin)
      BY <1>1, <2>1
    <2>3. [m EXCEPT !.name = w] = N(n.state, p, w, n.body, n.meta, n.bin)
      BY <2>2
    <2> QED
      BY <2>1, <2>3
  <1>5. ASSUME NEW state \in {"live", "bin", "unused"}, NEW parent \in Ids \cup {Slash, NoId},
               NEW name, NEW body, NEW meta, NEW bin, state = "bin" => bin \in Ids
        PROVE  NodeOK(N(state, parent, name, body, meta, bin))
    BY <1>5 DEF NodeOK
  <1>6. /\ n.state \in {"live", "bin", "unused"} /\ n.parent \in Ids \cup {Slash, NoId}
        /\ n.state = "bin" => n.bin \in Ids
    BY DEF NodeOK
  <1> HIDE DEF N
  <1>7. NodeOK([n EXCEPT !.body = w]) /\ NodeOK([n EXCEPT !.meta = w])
    <2>1. /\ NodeOK(N(n.state, n.parent, n.name, w, n.meta, n.bin))
          /\ NodeOK(N(n.state, n.parent, n.name, n.body, w, n.bin))
      BY <1>5, <1>6
    <2> QED
      BY <1>2, <2>1, Zenon
  <1>8. NodeOK([n EXCEPT !.state = st, !.bin = v])
    BY <1>3, <1>5, <1>6
  <1>9. NodeOK([n EXCEPT !.parent = p, !.name = w])
    BY <1>4, <1>5, <1>6
  <1> QED
    BY <1>7, <1>8, <1>9

LEMMA TreesChange ==
  ASSUME NEW t, TreeOK(t), NEW o, NEW n, o \in Ids => NodeOK(n)
  PROVE  TreeOK([t EXCEPT ![o] = n])
  BY DEF TreeOK

LEMMA StatCalled == ASSUME TreeOK(tree), NEW ref PROVE Called(Stat(tree, ref), "Stat")
  <1>1. CASE Resolve(tree, ref) \in Ids
    BY <1>1, ResultOK DEF Stat
  <1>2. CASE Resolve(tree, ref) \notin Ids
    <2> DEFINE r == Result("Stat", "NOT_FOUND", tree, NoId)
    <2>1. Called(r, "Stat") /\ r.info.id = NoId
      BY ResultOK, StoreIds
    <2>2. Stat(tree, ref) = [r EXCEPT !.did.obj = ref.at]
      BY <1>2 DEF Stat
    <2> HIDE DEF r
    <2> QED
      BY <2>1, <2>2 DEF Called
  <1> QED
    BY <1>1, <1>2

LEMMA LooksCalled ==
  ASSUME TreeOK(tree)
  PROVE  /\ \A call, ref, kinds : Called(Look(call, tree, ref, kinds), call)
         /\ Called(ListSpaces(tree), "Spaces")
         /\ \A ref : Called(Initiate(tree, ref), "Initiate")
  BY ResultOK DEF Look, ListSpaces, Initiate

LEMMA CreateCalled ==
  ASSUME TreeOK(tree), NEW ref PROVE Called(CreateContainer(tree, ref), "Create")
  BY ResultOK, BornOK DEF CreateContainer

LEMMA SpaceCalled == ASSUME TreeOK(tree), NEW name PROVE Called(CreateSpace(tree, name), "Space")
  <1> DEFINE n == Node("live", Slash, name, "folder", NoId)
  <1>1. NodeOK(n)
    BY DEF NodeOK, Node
  <1> HIDE DEF n
  <1>2. TreeOK([tree EXCEPT ![FreshId(tree)] = n])
    BY <1>1 DEF TreeOK
  <1> QED
    BY <1>2, ResultOK DEF CreateSpace, n

LEMMA MoveCalled == ASSUME TreeOK(tree), NEW src, NEW dst PROVE Called(Move(tree, src, dst), "Move")
  <1> DEFINE o == Resolve(tree, src)
             p == Into(tree, dst)
             moved == [tree EXCEPT ![o].parent = p, ![o].name = Last(dst.path)]
  <1>1. p \in Ids \cup {NoId}
    BY DEF Into, Folders, Live
  <1>2. p # NoId => TreeOK(moved)
    <2> DEFINE n == [tree[o] EXCEPT !.parent = p, !.name = Last(dst.path)]
    <2>1. o \in Ids => NodeOK(n)
      BY <1>1, NodesChange DEF TreeOK
    <2>2. moved = [tree EXCEPT ![o] = n]
      OBVIOUS
    <2> HIDE DEF n, moved, o
    <2> QED
      BY <2>1, <2>2, TreesChange
  <1>3. \/ p # NoId /\ Move(tree, src, dst) = Result("Move", "OK", moved, o)
        \/ \E code, x : Move(tree, src, dst) = Result("Move", code, tree, x)
    BY DEF Move
  <1> HIDE DEF moved
  <1> QED
    BY <1>2, <1>3, ResultOK

LEMMA DeleteCalled == ASSUME TreeOK(tree), NEW ref PROVE Called(Delete(tree, ref), "Delete")
  <1> DEFINE o == Resolve(tree, ref)
             left == [x \in Ids |-> IF x \in Below(tree, o)
                                      THEN [tree[x] EXCEPT !.state = "bin", !.bin = o] ELSE tree[x]]
  <1>1. o \in Ids => TreeOK(left)
    <2>1. o \in Ids => \A x \in Ids : NodeOK(tree[x]) /\ NodeOK([tree[x] EXCEPT !.state = "bin", !.bin = o])
      BY NodesChange DEF TreeOK
    <2> HIDE DEF o
    <2> QED
      BY <2>1 DEF TreeOK
  <1>2. \/ o \in Ids /\ Delete(tree, ref) = Result("Delete", "OK", left, o)
        \/ Delete(tree, ref) = Result("Delete", "NOT_FOUND", tree, ref.at)
    BY DEF Delete
  <1> HIDE DEF left
  <1> QED
    BY <1>1, <1>2, ResultOK

LEMMA RestoreCalled == ASSUME TreeOK(tree), NEW key PROVE Called(Restore(tree, key), "Restore")
  <1> DEFINE back == {x \in Ids : tree[x].state = "bin" /\ tree[x].bin = key}
             left == [x \in Ids |-> IF x \in back
                                      THEN [tree[x] EXCEPT !.state = "live", !.bin = NoId] ELSE tree[x]]
  <1>1. TreeOK(left)
    <2>1. \A x \in Ids : NodeOK(tree[x]) /\ NodeOK([tree[x] EXCEPT !.state = "live", !.bin = NoId])
      BY NodesChange DEF TreeOK
    <2> HIDE DEF back
    <2> QED
      BY <2>1 DEF TreeOK
  <1>2. Restore(tree, key) \in {Result("Restore", "OK", left, key), Result("Restore", "NOT_FOUND", tree, key)}
    BY DEF Restore
  <1> HIDE DEF left
  <1> QED
    BY <1>1, <1>2, ResultOK

LEMMA MetaCalled == ASSUME TreeOK(tree), NEW ref, NEW who PROVE Called(SetMetadata(tree, ref, who), "Meta")
  <1> DEFINE o == Resolve(tree, ref)
             set == [tree EXCEPT ![o].meta = @ \cup {who}]
  <1>1. TreeOK(set)
    <2> DEFINE n == [tree[o] EXCEPT !.meta = @ \cup {who}]
    <2>1. o \in Ids => NodeOK(n)
      BY NodesChange DEF TreeOK
    <2>2. set = [tree EXCEPT ![o] = n]
      OBVIOUS
    <2> HIDE DEF n, set, o
    <2> QED
      BY <2>1, <2>2, TreesChange
  <1>2. SetMetadata(tree, ref, who) \in {Result("Meta", "OK", set, o), Result("Meta", "NOT_FOUND", tree, NoId)}
    BY DEF SetMetadata
  <1> HIDE DEF set
  <1> QED
    BY <1>1, <1>2, ResultOK

LEMMA PutCalled ==
  ASSUME TreeOK(tree), NEW ref, NEW obj, NEW body PROVE Called(PutBytes(tree, ref, obj, body), "Put")
  <1> DEFINE o == IF obj = NoId THEN Resolve(tree, ref) ELSE obj
             put == [tree EXCEPT ![o].body = body]
             born == Born(tree, ref, "file", body)
  <1>1. TreeOK(put)
    <2> DEFINE n == [tree[o] EXCEPT !.body = body]
    <2>1. o \in Ids => NodeOK(n)
      BY NodesChange DEF TreeOK
    <2>2. put = [tree EXCEPT ![o] = n]
      OBVIOUS
    <2> HIDE DEF n, put, o
    <2> QED
      BY <2>1, <2>2, TreesChange
  <1>2. TreeOK(born)
    BY BornOK
  <1>3. \/ PutBytes(tree, ref, obj, body) = Result("Put", "OK", put, o)
        \/ PutBytes(tree, ref, obj, body) = Result("Put", "OK", born, FreshId(tree))
        \/ \E code, x : PutBytes(tree, ref, obj, body) = Result("Put", code, tree, x)
    BY DEF PutBytes
  <1> HIDE DEF put, born
  <1> QED
    BY <1>1, <1>2, <1>3, ResultOK

LEMMA ResolvesItself ==
  ASSUME NEW t, NEW at
  PROVE  Resolve(t, Ref(at, <<>>)) = IF at \in Live(t) \cup {Slash} THEN at ELSE NoId
  <1> DEFINE Is(f) == f = [s \in SUBSET {} |-> IF s = {} THEN at ELSE Child(t, f[s \ {Max(s)}], <<>>[Max(s)])]
  <1>1. Is([s \in SUBSET {} |-> at])
    OBVIOUS
  <1>2. DOMAIN <<>> = {}
    OBVIOUS
  <1>3. PICK f : Is(f) /\ Resolve(t, Ref(at, <<>>)) = IF at \in Live(t) \cup {Slash} THEN f[{}] ELSE NoId
    BY <1>1, <1>2 DEF FoldLeft, MapThenFoldSet, Resolve, Ref
  <1> QED
    BY <1>3

LEMMA ResolvesChild ==
  ASSUME NEW t, NEW at, NEW m
  PROVE  Resolve(t, Ref(at, <<m>>)) = IF at \in Live(t) \cup {Slash} THEN Child(t, at, m) ELSE NoId
  <1> DEFINE Is(f) == f = [s \in SUBSET {1} |-> IF s = {} THEN at ELSE Child(t, f[s \ {Max(s)}], <<m>>[Max(s)])]
             g == [s \in SUBSET {1} |-> IF s = {} THEN at ELSE Child(t, at, m)]
  <1>1. Max({1}) = 1
    BY DEF Max
  <1>2. \A s \in SUBSET {1} : s = {} \/ s = {1}
    OBVIOUS
  <1>3. Is(g)
    <2>1. g[{}] = at /\ g[{1}] = Child(t, at, m) /\ {1} \ {1} = {} /\ <<m>>[1] = m
      OBVIOUS
    <2>2. ASSUME NEW s \in SUBSET {1}
          PROVE  g[s] = IF s = {} THEN at ELSE Child(t, g[s \ {Max(s)}], <<m>>[Max(s)])
      <3> HIDE DEF g
      <3>1. CASE s = {}
        BY <2>1, <3>1
      <3>2. CASE s = {1}
        BY <1>1, <2>1, <3>2
      <3> QED
        BY <1>2, <3>1, <3>2
    <2>3. g = [s \in SUBSET {1} |-> g[s]]
      OBVIOUS
    <2> HIDE DEF g
    <2> QED
      BY <2>2, <2>3
  <1>4. DOMAIN <<m>> = {1}
    OBVIOUS
  <1>5. PICK f : Is(f) /\ Resolve(t, Ref(at, <<m>>)) = IF at \in Live(t) \cup {Slash} THEN f[{1}] ELSE NoId
    <2>1. PICK f : Is(f) /\ FoldLeft(LAMBDA p, n : Child(t, p, n), at, <<m>>) = f[{1}]
      BY <1>3, <1>4 DEF FoldLeft, MapThenFoldSet
    <2> QED
      BY <2>1 DEF Resolve, Ref
  <1>6. f[{}] = at /\ f[{1}] = Child(t, f[{}], m)
    <2>1. {1} \ {1} = {} /\ <<m>>[1] = m /\ {} \in SUBSET {1} /\ {1} \in SUBSET {1} /\ {1} # {}
      OBVIOUS
    <2> QED
      BY <1>1, <1>5, <2>1
  <1> QED
    BY <1>5, <1>6

(***************************************************************************)
(* What the calls on an id, or on a name below an id, do when they answer  *)
(* OK: the object that they tell, and where it is.                         *)
(***************************************************************************)
LEMMA StatTells ==
  ASSUME TreeOK(tree), NEW ref \in IdRefs
  PROVE  Stat(tree, ref).did.obj = ref.at
  <1>1. PICK at \in Ids \cup {NoId} : ref = Ref(at, <<>>)
    BY DEF IdRefs
  <1>2. ref.at = at
    BY <1>1 DEF Ref
  <1> DEFINE o == Resolve(tree, ref)
             r == Result("Stat", "NOT_FOUND", tree, NoId)
  <1>3. o \in Ids => o = at
    BY <1>1, ResolvesItself, StoreIds
  <1>4. CASE o \in Ids
    BY <1>2, <1>3, <1>4, ResultOK DEF Stat
  <1>5. CASE o \notin Ids
    <2>1. Stat(tree, ref) = [r EXCEPT !.did.obj = at] /\ Called(r, "Stat")
      BY <1>2, <1>5, ResultOK DEF Stat
    <2> HIDE DEF r
    <2> QED
      BY <1>2, <2>1 DEF Called
  <1> QED
    BY <1>4, <1>5

LEMMA DeleteTells ==
  ASSUME TreeOK(tree), NEW ref \in IdRefs
  PROVE  Delete(tree, ref).did.obj = ref.at
  <1>1. PICK at \in Ids \cup {NoId} : ref = Ref(at, <<>>)
    BY DEF IdRefs
  <1>2. ref.at = at
    BY <1>1 DEF Ref
  <1>3. Resolve(tree, ref) \in Ids => Resolve(tree, ref) = at
    BY <1>1, ResolvesItself, StoreIds
  <1>4. \E code, t : Delete(tree, ref) = Result("Delete", code, t, at)
    BY <1>2, <1>3 DEF Delete
  <1> QED
    BY <1>2, <1>4 DEF Result

LEMMA RestoreTells == ASSUME NEW key PROVE Restore(tree, key).did.obj = key
  <1>1. \E code, t : Restore(tree, key) = Result("Restore", code, t, key)
    BY DEF Restore
  <1> QED
    BY <1>1 DEF Result

LEMMA IntoFolder ==
  ASSUME NEW t, NEW at, NEW m, Into(t, Ref(at, <<m>>)) # NoId
  PROVE  Into(t, Ref(at, <<m>>)) = at
  <1>1. Ref(at, <<m>>).at = at /\ Ref(at, <<m>>).path = <<m>> /\ Front(<<m>>) = <<>> /\ <<m>> # <<>>
    BY DEF Ref, Front
  <1> QED
    BY <1>1, ResolvesItself DEF Into

LEMMA NamedChild ==
  ASSUME NEW t, NEW at, NEW m, Resolve(t, Ref(at, <<m>>)) \in Ids
  PROVE  LET o == Resolve(t, Ref(at, <<m>>)) IN t[o].parent = at /\ t[o].name = m
  BY ResolvesChild, StoreIds DEF Child

LEMMA BornIs ==
  ASSUME TreeOK(tree), NEW at, NEW m, NEW kind, NEW body, Into(tree, Ref(at, <<m>>)) # NoId, ~Full(tree)
  PROVE  LET t == Born(tree, Ref(at, <<m>>), kind, body)
             o == FreshId(tree)
         IN  o \in Ids /\ t[o].parent = at /\ t[o].name = m
  <1>1. FreshId(tree) \in Ids
    BY DEF FreshId, Full
  <1>2. Ref(at, <<m>>).path = <<m>> /\ Last(<<m>>) = m
    BY DEF Ref, Last
  <1> QED
    BY <1>1, <1>2, IntoFolder DEF Born, Node, TreeOK

LEMMA CreateTells ==
  ASSUME TreeOK(tree), NEW at, NEW m, CreateContainer(tree, Ref(at, <<m>>)).code \in {"OK", "ALREADY_EXISTS"}
  PROVE  LET d == CreateContainer(tree, Ref(at, <<m>>)).did IN d.into = at /\ d.name = m
  <1> DEFINE ref == Ref(at, <<m>>)
             o == Resolve(tree, ref)
             t == Born(tree, ref, "folder", NoId)
  <1>1. CASE o \in Ids
    BY <1>1, NamedChild, ResultOK DEF CreateContainer
  <1>2. CASE o \notin Ids
    <2>1. /\ Into(tree, ref) # NoId /\ ~Full(tree)
          /\ CreateContainer(tree, ref) = Result("Create", "OK", t, FreshId(tree))
      BY <1>2, ResultOK DEF CreateContainer
    <2>2. TreeOK(t)
      BY BornOK
    <2>3. FreshId(tree) \in Ids /\ t[FreshId(tree)].parent = at /\ t[FreshId(tree)].name = m
      BY <2>1, BornIs
    <2> HIDE DEF t, ref
    <2>4. LET d == CreateContainer(tree, ref).did IN d.into = at /\ d.name = m
      BY <2>1, <2>2, <2>3, ResultOK
    <2> QED
      BY <2>4 DEF ref
  <1> QED
    BY <1>1, <1>2

LEMMA MoveTells ==
  ASSUME TreeOK(tree), NEW src, NEW at, NEW m, Move(tree, src, Ref(at, <<m>>)).code = "OK"
  PROVE  LET d == Move(tree, src, Ref(at, <<m>>)).did
         IN  d.into = at /\ d.name = m /\ (src \in IdRefs => d.obj = src.at)
  <1> DEFINE dst == Ref(at, <<m>>)
             o == Resolve(tree, src)
             p == Into(tree, dst)
             n == [tree[o] EXCEPT !.parent = p, !.name = Last(dst.path)]
             t == [tree EXCEPT ![o] = n]
             moved == [tree EXCEPT ![o].parent = p, ![o].name = Last(dst.path)]
  <1>0. moved = t
    OBVIOUS
  <1>1. o \in Ids /\ p # NoId /\ Move(tree, src, dst) = Result("Move", "OK", t, o)
    <2> HIDE DEF t
    <2>1. o \in Ids /\ p # NoId /\ Move(tree, src, dst) = Result("Move", "OK", moved, o)
      BY ResultOK DEF Move
    <2> QED
      BY <1>0, <2>1
  <1>2. p = at /\ Last(dst.path) = m
    BY <1>1, IntoFolder DEF Ref, Last
  <1>3. p \in Ids \cup {NoId}
    BY DEF Into, Folders, Live
  <1>4. NodeOK(tree[o]) /\ tree = [x \in Ids |-> tree[x]]
    BY <1>1 DEF TreeOK
  <1>5. NodeOK(n) /\ n.parent = at /\ n.name = m
    <2> HIDE DEF p, o, dst
    <2>1. NodeOK(n)
      BY <1>3, <1>4, NodesChange
    <2>2. n.parent = p /\ n.name = Last(dst.path)
      BY <1>4 DEF NodeOK
    <2> QED
      BY <2>1, <2>2, <1>2
  <1>6. TreeOK(t) /\ t[o] = n
    <2> HIDE DEF n, o
    <2> QED
      BY <1>1, <1>4, <1>5, TreesChange
  <1>7. src \in IdRefs => o = src.at
    BY <1>1, ResolvesItself, StoreIds DEF IdRefs, Ref
  <1> HIDE DEF t, n, o, p, dst
  <1>8. LET d == Move(tree, src, dst).did IN d.into = at /\ d.name = m /\ d.obj = o
    BY <1>1, <1>5, <1>6, ResultOK
  <1> QED
    BY <1>7, <1>8 DEF dst

LEMMA InitiateTells ==
  ASSUME TreeOK(tree), NEW at, NEW m
  PROVE  LET r == Initiate(tree, Ref(at, <<m>>))
         IN  r.info.id \in Ids => r.did.obj = r.info.id /\ r.did.into = at /\ r.did.name = m
  BY NamedChild, ResultOK, StoreIds DEF Initiate

LEMMA PutTells ==
  ASSUME TreeOK(tree), NEW at, NEW m, NEW obj \in Ids \cup {NoId}, NEW body,
         PutBytes(tree, Ref(at, <<m>>), obj, body).code = "OK"
  PROVE  LET d == PutBytes(tree, Ref(at, <<m>>), obj, body).did
         IN  IF obj = NoId THEN d.into = at /\ d.name = m ELSE d.obj = obj
  <1> DEFINE ref == Ref(at, <<m>>)
             o == IF obj = NoId THEN Resolve(tree, ref) ELSE obj
             n == [tree[o] EXCEPT !.body = body]
             put == [tree EXCEPT ![o] = n]
             born == Born(tree, ref, "file", body)
  <1>1. TreeOK(born)
    BY BornOK
  <1>2. CASE o \in Ids
    <2>1. PutBytes(tree, ref, obj, body) = Result("Put", "OK", put, o)
      BY <1>2, ResultOK DEF PutBytes
    <2>2. NodeOK(tree[o]) /\ tree = [x \in Ids |-> tree[x]]
      BY <1>2 DEF TreeOK
    <2>3. NodeOK(n) /\ n.parent = tree[o].parent /\ n.name = tree[o].name
      <3> HIDE DEF o
      <3>1. NodeOK(n)
        BY <2>2, NodesChange
      <3>2. n.parent = tree[o].parent /\ n.name = tree[o].name
        BY <2>2 DEF NodeOK
      <3> QED
        BY <3>1, <3>2
    <2>4. TreeOK(put) /\ put[o] = n
      <3> HIDE DEF n, o
      <3> QED
        BY <1>2, <2>2, <2>3, TreesChange
    <2>5. obj = NoId => tree[o].parent = at /\ tree[o].name = m
      BY <1>2, NamedChild
    <2>6. obj # NoId => o = obj
      OBVIOUS
    <2> HIDE DEF put, n, o, ref
    <2>7. LET d == PutBytes(tree, ref, obj, body).did IN d.into = n.parent /\ d.name = n.name /\ d.obj = o
      BY <1>2, <2>1, <2>4, ResultOK
    <2> QED
      BY <2>3, <2>5, <2>6, <2>7 DEF ref
  <1>3. CASE o \notin Ids
    <2>1. /\ Into(tree, ref) # NoId /\ ~Full(tree) /\ obj = NoId
          /\ PutBytes(tree, ref, obj, body) = Result("Put", "OK", born, FreshId(tree))
      BY <1>3, ResultOK DEF PutBytes
    <2>2. FreshId(tree) \in Ids /\ born[FreshId(tree)].parent = at /\ born[FreshId(tree)].name = m
      BY <2>1, BornIs
    <2> HIDE DEF born, ref
    <2>3. LET d == PutBytes(tree, ref, obj, body).did IN d.into = at /\ d.name = m
      BY <1>1, <2>1, <2>2, ResultOK
    <2> QED
      BY <2>1, <2>3 DEF ref
  <1> QED
    BY <1>2, <1>3

(***************************************************************************)
(* The requests: what the ways of going on make of one.                    *)
(***************************************************************************)
Job(ask, step, seen, left, reply, says, log) ==
  [ask |-> ask, step |-> step, seen |-> seen, left |-> left,
   reply |-> reply, says |-> says, log |-> log]

IsSeq(s) == s \in Seq({s[i] : i \in DOMAIN s})

Shape(j) == j = Job(j.ask, j.step, j.seen, j.left, j.reply, j.says, j.log)

LEMMA JobsAre ==
  \A ask, step, seen, left, reply, says, log :
    LET j == Job(ask, step, seen, left, reply, says, log)
    IN  /\ Shape(j) /\ j.ask = ask /\ j.step = step /\ j.seen = seen /\ j.left = left
        /\ j.reply = reply /\ j.says = says /\ j.log = log
  BY DEF Shape, Job

LEMMA Updates ==
  ASSUME NEW j, Shape(j), NEW v
  PROVE  /\ [j EXCEPT !.step = v] = Job(j.ask, v, j.seen, j.left, j.reply, j.says, j.log)
         /\ [j EXCEPT !.seen = v] = Job(j.ask, j.step, v, j.left, j.reply, j.says, j.log)
         /\ [j EXCEPT !.left = v] = Job(j.ask, j.step, j.seen, v, j.reply, j.says, j.log)
         /\ [j EXCEPT !.reply = v] = Job(j.ask, j.step, j.seen, j.left, v, j.says, j.log)
         /\ [j EXCEPT !.says = v] = Job(j.ask, j.step, j.seen, j.left, j.reply, v, j.log)
         /\ [j EXCEPT !.log = v] = Job(j.ask, j.step, j.seen, j.left, j.reply, j.says, v)
  BY DEF Shape, Job

LEMMA RepliesAre ==
  ASSUME NEW j, Shape(j), NEW code
  PROVE  Reply(j, code) = Job(j.ask, 0, <<>>, <<>>, code, j.says, j.log)
  <1> DEFINE j1 == [j EXCEPT !.reply = code]
             j2 == [j1 EXCEPT !.step = 0]
             j3 == [j2 EXCEPT !.seen = <<>>]
             j4 == [j3 EXCEPT !.left = <<>>]
  <1>1. Reply(j, code) = j4
    BY Zenon DEF Reply
  <1>2. j1 = Job(j.ask, j.step, j.seen, j.left, code, j.says, j.log)
    BY Updates
  <1> HIDE DEF j1
  <1>3. j2 = Job(j.ask, 0, j.seen, j.left, code, j.says, j.log)
    BY <1>2 DEF Job
  <1> HIDE DEF j2
  <1>4. j3 = Job(j.ask, 0, <<>>, j.left, code, j.says, j.log)
    BY <1>3 DEF Job
  <1> HIDE DEF j3
  <1>5. j4 = Job(j.ask, 0, <<>>, <<>>, code, j.says, j.log)
    BY <1>4 DEF Job
  <1> QED
    BY <1>1, <1>5

LEMMA SaysAre ==
  ASSUME NEW j, Shape(j), NEW code, NEW what
  PROVE  Says(j, code, what) = Job(j.ask, 0, <<>>, <<>>, code, what, j.log)
  <1> DEFINE j1 == Reply(j, code)
  <1>1. j1 = Job(j.ask, 0, <<>>, <<>>, code, j.says, j.log)
    BY RepliesAre
  <1>2. Says(j, code, what) = [j1 EXCEPT !.says = what]
    BY DEF Says
  <1> HIDE DEF j1
  <1> QED
    BY <1>1, <1>2 DEF Job

LEMMA GoesToAre ==
  ASSUME NEW j, Shape(j), NEW step
  PROVE  GoTo(j, step) = Job(j.ask, step, j.seen, j.left, j.reply, j.says, j.log)
  BY DEF Shape, Job, GoTo

\* Whatever is told is kept behind what was told before.
LEMMA SeesAre ==
  ASSUME NEW j, Shape(j), NEW step, NEW info
  PROVE  [[j EXCEPT !.step = step] EXCEPT !.seen = Append(@, info)]
           = Job(j.ask, step, Append(j.seen, info), j.left, j.reply, j.says, j.log)
  <1> DEFINE j1 == [j EXCEPT !.step = step]
  <1>1. j1 = Job(j.ask, step, j.seen, j.left, j.reply, j.says, j.log)
    BY Updates
  <1> HIDE DEF j1
  <1>2. j1.seen = j.seen
    BY <1>1 DEF Job
  <1>3. PICK seen : seen = Append(j.seen, info)
    OBVIOUS
  <1>4. [j1 EXCEPT !.seen = seen] = Job(j.ask, step, seen, j.left, j.reply, j.says, j.log)
    BY <1>1 DEF Job
  <1>5. [j1 EXCEPT !.seen = Append(@, info)] = [j1 EXCEPT !.seen = seen]
    BY <1>2, <1>3
  <1> QED
    BY <1>3, <1>4, <1>5 DEF j1

LEMMA LearnsAre ==
  ASSUME NEW j, Shape(j), NEW a
  PROVE  Learn(j, a) = Job(j.ask, j.step + 1, Append(j.seen, a.info), j.left, j.reply, j.says, j.log)
  <1>1. Learn(j, a) = [[j EXCEPT !.step = j.step + 1] EXCEPT !.seen = Append(@, a.info)]
    BY Zenon DEF Learn
  <1> QED
    BY <1>1, SeesAre

LEMMA LearnsToAre ==
  ASSUME NEW j, Shape(j), NEW a, NEW step
  PROVE  GoTo(Learn(j, a), step) = Job(j.ask, step, Append(j.seen, a.info), j.left, j.reply, j.says, j.log)
  <1> DEFINE j1 == Learn(j, a)
  <1>1. PICK seen : seen = Append(j.seen, a.info)
    OBVIOUS
  <1>2. j1 = Job(j.ask, j.step + 1, seen, j.left, j.reply, j.says, j.log)
    BY <1>1, LearnsAre
  <1> HIDE DEF j1
  <1>3. GoTo(j1, step) = Job(j.ask, step, seen, j.left, j.reply, j.says, j.log)
    BY <1>2 DEF Job, GoTo
  <1> QED
    BY <1>1, <1>3 DEF j1

LEMMA KnowsAre ==
  ASSUME NEW j, Shape(j), NEW id, NEW step
  PROVE  /\ Knows(j, id, step)
              = Job(j.ask, step, Append(j.seen, [NoInfo EXCEPT !.id = id]), j.left, j.reply, j.says, j.log)
         /\ [NoInfo EXCEPT !.id = id].id = id
  <1>1. Knows(j, id, step) = [[j EXCEPT !.step = step] EXCEPT !.seen = Append(@, [NoInfo EXCEPT !.id = id])]
    BY DEF Knows, GoTo
  <1>2. [NoInfo EXCEPT !.id = id].id = id
    BY DEF NoInfo
  <1>3. PICK info : info = [NoInfo EXCEPT !.id = id]
    OBVIOUS
  <1> QED
    BY <1>1, <1>2, <1>3, SeesAre

LEMMA NextsAre ==
  ASSUME NEW j, Shape(j), NEW step
  PROVE  NextItem(j, step) = Job(j.ask, step, IF j.seen = <<>> THEN j.seen ELSE <<Head(j.seen)>>,
                                 Tail(j.left), j.reply, j.says, j.log)
  <1>1. PICK rest : rest = Tail(j.left)
    OBVIOUS
  <1>2. PICK seen : seen = IF j.seen = <<>> THEN j.seen ELSE <<Head(j.seen)>>
    OBVIOUS
  <1> DEFINE j1 == [j EXCEPT !.left = rest]
             j2 == [j1 EXCEPT !.step = step]
             j3 == [j2 EXCEPT !.seen = seen]
  <1>3. j1 = Job(j.ask, j.step, j.seen, rest, j.reply, j.says, j.log)
    BY Updates
  <1> HIDE DEF j1
  <1>4. j2 = Job(j.ask, step, j.seen, rest, j.reply, j.says, j.log)
    BY <1>3 DEF Job
  <1> HIDE DEF j2
  <1>5. j3 = Job(j.ask, step, seen, rest, j.reply, j.says, j.log) /\ j2.seen = j.seen
    BY <1>4 DEF Job
  <1>6. NextItem(j, step) = j3
    <2>1. NextItem(j, step) = [j2 EXCEPT !.seen = IF @ = <<>> THEN @ ELSE <<Head(@)>>]
      BY <1>1, Zenon DEF NextItem, j1, j2
    <2> QED
      BY <2>1, <1>2, <1>5
  <1> QED
    BY <1>1, <1>2, <1>5, <1>6

LEMMA Appended ==
  ASSUME NEW s, IsSeq(s), NEW x
  PROVE  /\ IsSeq(Append(s, x)) /\ Last(Append(s, x)) = x
         /\ Len(Append(s, x)) = Len(s) + 1
         /\ s = <<>> => Append(s, x) = <<x>>
  <1> DEFINE T == {s[i] : i \in DOMAIN s} \cup {x}
             u == Append(s, x)
  <1>1. s \in Seq(T) /\ x \in T
    BY DEF IsSeq
  <1>2. u \in Seq(T) /\ Len(u) = Len(s) + 1 /\ u[Len(u)] = x /\ DOMAIN u = 1..Len(u)
    BY <1>1
  <1> HIDE DEF u, T
  <1>3. IsSeq(u)
    <2> DEFINE R == {u[i] : i \in DOMAIN u}
    <2>1. \A i \in 1..Len(u) : u[i] \in R
      BY <1>2
    <2>2. u = [i \in 1..Len(u) |-> u[i]] /\ Len(u) \in Nat
      BY <1>2
    <2> HIDE DEF R
    <2>3. u \in Seq(R)
      BY <2>1, <2>2
    <2> QED
      BY <2>3 DEF IsSeq, R
  <1>4. s = <<>> => u = <<x>>
    BY DEF u
  <1> QED
    BY <1>2, <1>3, <1>4 DEF Last, u

LEMMA ShortSeqs == IsSeq(<<>>) /\ \A x : IsSeq(<<x>>)
  BY DEF IsSeq

(***************************************************************************)
(* What holds of every request: one that has not answered has told         *)
(* nothing, and a step takes it one of the ways above.                     *)
(***************************************************************************)
Base(j) ==
  /\ Shape(j)
  /\ j.step \in 0..9 /\ j.reply \in Codes
  /\ j.step # 0 => j.reply = 0 /\ j.says # "absent"
  /\ IsSeq(j.seen)

\* What a step may make of a request.
Goes(j, k) ==
  /\ Shape(k) /\ k.ask = j.ask /\ k.log = j.log
  /\ \/ k.step = 0 /\ k.reply \in Codes /\ k.seen = <<>>
     \/ /\ k.step \in 1..9 /\ k.reply = j.reply /\ k.says = j.says /\ IsSeq(k.seen)
        /\ Nearer(j, k) /\ (k.step # j.step \/ k.left # j.left)

LEMMA Ways ==
  ASSUME NEW j, Base(j), j.step # 0
  PROVE  /\ \A code \in Codes : Goes(j, Reply(j, code))
         /\ \A what : \A code \in Codes : Goes(j, Says(j, code, what))
         /\ \A step \in (j.step + 1)..9 : Goes(j, GoTo(j, step))
         /\ \A a : j.step # 9 => Goes(j, Learn(j, a))
         /\ \A a : \A step \in (j.step + 1)..9 : Goes(j, GoTo(Learn(j, a), step))
         /\ \A id : \A step \in (j.step + 1)..9 : Goes(j, Knows(j, id, step))
  <1>0. Shape(j) /\ IsSeq(j.seen) /\ j.step \in 1..9
    BY DEF Base
  <1>1. \A code \in Codes : Goes(j, Reply(j, code))
    BY <1>0, RepliesAre, JobsAre DEF Goes
  <1>2. \A what : \A code \in Codes : Goes(j, Says(j, code, what))
    BY <1>0, SaysAre, JobsAre DEF Goes
  <1>3. \A step \in (j.step + 1)..9 : Goes(j, GoTo(j, step))
    BY <1>0, GoesToAre, JobsAre DEF Goes, Nearer
  <1>4. \A info : \A step \in (j.step + 1)..9 :
          Goes(j, Job(j.ask, step, Append(j.seen, info), j.left, j.reply, j.says, j.log))
    BY <1>0, JobsAre, Appended DEF Goes, Nearer
  <1>5. \A a : j.step # 9 => Goes(j, Learn(j, a))
    BY <1>0, <1>4, LearnsAre
  <1>6. \A a : \A step \in (j.step + 1)..9 : Goes(j, GoTo(Learn(j, a), step))
    BY <1>0, <1>4, LearnsToAre
  <1>7. ASSUME NEW id, NEW step \in (j.step + 1)..9
        PROVE  Goes(j, Knows(j, id, step))
    <2>1. PICK info : info = [NoInfo EXCEPT !.id = id]
      OBVIOUS
    <2> QED
      BY <1>0, <1>4, <2>1, KnowsAre
  <1> QED
    BY <1>1, <1>2, <1>3, <1>5, <1>6, <1>7

LEMMA AnswerOK ==
  ASSUME TreeOK(tree), faults \in 0..MaxFaults, NEW r, NEW call, Called(r, call), NEW a \in Answers(r)
  PROVE  /\ a.info = r.info /\ TreeOK(a.tree)
         /\ a.code \in {"ERROR", "OTHER"} \/ a = r
         /\ a # r => faults < MaxFaults
         /\ Entry(r, a).call = call /\ Entry(r, a).obj = r.did.obj
         /\ Entry(r, a).into = r.did.into /\ Entry(r, a).name = r.did.name
         /\ a = r => Entry(r, a) = r.did /\ r.did.code = r.code
  <1>1. a = r \/ (faults < MaxFaults /\ \E code \in {"ERROR", "OTHER"}, t \in {tree, r.tree} : a = Fail(r, code, t))
    BY DEF Answers
  <1>2. a.info = r.info /\ TreeOK(a.tree) /\ (a.code \in {"ERROR", "OTHER"} \/ a = r)
    BY <1>1 DEF Fail, Called
  <1>3. /\ Entry(r, a).call = call /\ Entry(r, a).obj = r.did.obj
        /\ Entry(r, a).into = r.did.into /\ Entry(r, a).name = r.did.name
    BY DEF Entry, Called
  <1>4. a = r => Entry(r, a) = r.did /\ r.did.code = r.code
    BY DEF Entry, Called
  <1> QED
    BY <1>1, <1>2, <1>3, <1>4

BaseInv ==
  /\ TreeOK(tree) /\ faults \in 0..MaxFaults
  /\ job = [c \in Clients |-> job[c]]
  /\ \A c \in Clients : Base(job[c])

\* A step of a request leaves the rest, and makes k of it with entries of a call.
Framed(c, k, entries) ==
  /\ TreeOK(tree') /\ faults' \in 0..MaxFaults
  /\ job' = [job EXCEPT ![c] = job'[c]]
  /\ job'[c] = Job(job[c].ask, k.step, k.seen, k.left, k.reply, k.says, job[c].log \cup entries)
  /\ Base(job'[c]) /\ Nearer(job[c], job'[c]) /\ job'[c] # job[c]

LEMMA JobKeeps ==
  ASSUME NEW j, Base(j), j.step # 0, NEW k, Goes(j, k), NEW entries
  PROVE  /\ [k EXCEPT !.log = @ \cup entries]
              = Job(j.ask, k.step, k.seen, k.left, k.reply, k.says, j.log \cup entries)
         /\ k = Job(j.ask, k.step, k.seen, k.left, k.reply, k.says, j.log)
         /\ Base([k EXCEPT !.log = @ \cup entries]) /\ Nearer(j, [k EXCEPT !.log = @ \cup entries])
         /\ [k EXCEPT !.log = @ \cup entries] # j
  <1> DEFINE h == [k EXCEPT !.log = @ \cup entries]
  <1>1. h = Job(k.ask, k.step, k.seen, k.left, k.reply, k.says, k.log \cup entries)
    BY Updates DEF Goes
  <1>2. k = Job(k.ask, k.step, k.seen, k.left, k.reply, k.says, k.log) /\ k.ask = j.ask /\ k.log = j.log
    BY DEF Goes, Shape
  <1> HIDE DEF h
  <1>3. /\ Shape(h) /\ h.step = k.step /\ h.seen = k.seen /\ h.left = k.left
        /\ h.reply = k.reply /\ h.says = k.says
    BY <1>1, JobsAre
  <1>4. Base(h)
    <2>1. IsSeq(h.seen)
      BY <1>3, ShortSeqs, Zenon DEF Goes
    <2> QED
      BY <1>3, <2>1 DEF Base, Goes
  <1>5. Nearer(j, h)
    BY <1>3 DEF Goes, Nearer
  <1>6. h # j
    BY <1>3 DEF Goes
  <1> QED
    BY <1>1, <1>2, <1>4, <1>5, <1>6 DEF h

LEMMA EndsKeeps ==
  ASSUME BaseInv, NEW c \in Clients, NEW r, NEW call, Called(r, call), NEW k,
         NEW a \in Answers(r), Ends(c, r, a, k), Goes(job[c], k), job[c].step # 0
  PROVE  Framed(c, k, {Entry(r, a)})
  <1>0. PICK entries : entries = {Entry(r, a)}
    OBVIOUS
  <1> DEFINE h == [k EXCEPT !.log = @ \cup entries]
  <1>1. TreeOK(tree') /\ faults' \in 0..MaxFaults
    BY AnswerOK, FaultBound DEF Ends, BaseInv
  <1>2. Base(job[c]) /\ job = [x \in Clients |-> job[x]]
    BY DEF BaseInv
  <1>3. /\ Base(h) /\ Nearer(job[c], h) /\ h # job[c]
        /\ h = Job(job[c].ask, k.step, k.seen, k.left, k.reply, k.says, job[c].log \cup entries)
    BY <1>2, JobKeeps
  <1>4. job' = [job EXCEPT ![c] = h]
    BY <1>0 DEF Ends
  <1> HIDE DEF h
  <1>5. job'[c] = h
    BY <1>2, <1>4
  <1> QED
    BY <1>0, <1>1, <1>3, <1>4, <1>5 DEF Framed

LEMMA QuietKeeps ==
  ASSUME BaseInv, NEW c \in Clients, NEW k, job' = [job EXCEPT ![c] = k], UNCHANGED <<tree, faults>>,
         Goes(job[c], k), job[c].step # 0
  PROVE  Framed(c, k, {})
  <1>1. Base(job[c]) /\ job = [x \in Clients |-> job[x]] /\ TreeOK(tree') /\ faults' \in 0..MaxFaults
    BY DEF BaseInv
  <1>2. PICK entries : entries = {}
    OBVIOUS
  <1> DEFINE h == [k EXCEPT !.log = @ \cup entries]
  <1>3. /\ Base(h) /\ Nearer(job[c], h) /\ h # job[c]
        /\ k = Job(job[c].ask, k.step, k.seen, k.left, k.reply, k.says, job[c].log)
        /\ h = Job(job[c].ask, k.step, k.seen, k.left, k.reply, k.says, job[c].log \cup entries)
    BY <1>1, JobKeeps
  <1> HIDE DEF h
  <1>4. job[c].log \cup entries = job[c].log
    BY <1>2
  <1>5. k = h /\ job'[c] = k
    BY <1>1, <1>3, <1>4
  <1> QED
    BY <1>1, <1>2, <1>3, <1>5 DEF Framed

(***************************************************************************)
(* What a request keeps on its way.  Past its decisive call, or with a     *)
(* success answered, its history has that call's entry, and the entry is   *)
(* of the place and the name that were asked.                              *)
(***************************************************************************)
Past(j) ==
  \/ j.ask.op \in {"SetFolder", "CreateRootFolder"} /\ j.step = 2
  \/ j.ask.op = "CreateFolder" /\ j.step \in 3..4
  \/ j.ask.op = "MoveObject" /\ j.step = 4
  \/ j.ask.op = "SetContentStream" /\ j.step = 3
  \/ j.ask.op = "Import" /\ j.step \in 6..9

Right(q, log, e) ==
  /\ q.op = "SetFolder" /\ q.dst # Nowhere => e.into = q.dst.at /\ e.name = q.name
  /\ q.op = "RenameFolder" => e.obj = q.ref.at /\ e.name = q.name
  /\ q.op = "MoveObject"
       => e.into = q.dst.at /\ \E s \in log : s.call = "Stat" /\ s.code = "OK" /\ s.name = e.name
  /\ q.op = "Import" /\ q.ref # Nowhere
       => \/ e.into = q.ref.at /\ e.name = q.name
          \/ \E i \in log : i.obj = e.obj /\ i.call = "Initiate" /\ i.into = q.ref.at /\ i.name = q.name

Decides(q, log, e) ==
  e.call = Decisive[q.op] /\ e.code \in {"OK"} \cup Found(q.op) /\ Right(q, log, e)

Success(j) == j.reply \in 200..299

DoneOK(j) ==
  j.ask.op \in DOMAIN Decisive /\ (Success(j) \/ Past(j)) => \E e \in j.log : Decides(j.ask, j.log, e)

ToldOK(j) == j.says = "absent" /\ j.ask.op \in Careful => \E e \in j.log : e.code = "NOT_FOUND"

\* What is left of a list is its end, and what is not left was tried.
Tried(item, log) == item # Nowhere => \E e \in log : e.obj = item.at

BulkOK(j) ==
  LET all == j.ask.items
      gone == Len(all) - Len(j.left)
  IN  j.ask.op \in Bulk =>
        /\ j.step # 0 => /\ j.left \in Seq(IdRefs) /\ Len(j.left) <= Len(all)
                         /\ \A i \in 1..Len(j.left) : j.left[i] = all[gone + i]
                         /\ \A i \in 1..gone : Tried(all[i], j.log)
        /\ j.step = 3 => j.left # <<>> /\ Tried(Head(j.left), j.log)
        /\ j.reply = 200 => \A i \in 1..Len(all) : Tried(all[i], j.log)

\* What a handler remembers of the answers it got, and that the history has it.
Recalls(k, log) ==
  /\ k.ask.op = "MoveObject" /\ k.step = 1 => k.seen = <<>>
  /\ k.ask.op = "MoveObject" /\ k.step = 2
       => \E i : /\ k.seen = <<i>>
                 /\ \E s \in log : s.call = "Stat" /\ s.code = "OK" /\ s.name = i.name
  /\ k.ask.op = "MoveObject" /\ k.step = 3
       => \E i, d : /\ k.seen = <<i, d>> /\ d.id = k.ask.dst.at
                    /\ \E s \in log : s.call = "Stat" /\ s.code = "OK" /\ s.name = i.name
  /\ k.ask.op = "Import" /\ k.step \in 4..9 => Bound(k) \in Ids \cup {NoId}
  /\ k.ask.op = "Import" /\ k.step \in 4..5 /\ k.ask.ref # Nowhere /\ Bound(k) # NoId
       => \E i \in log : i.obj = Bound(k) /\ i.call = "Initiate" /\ i.into = k.ask.ref.at /\ i.name = k.ask.name

AskOK(q) ==
  /\ q.op \in Bulk => q.items \in Seq(IdRefs)
  /\ q.op \in {"RenameFolder", "Import"} => q.ref \in IdRefs
  /\ q.op \in {"SetFolder", "MoveObject", "Import"} => q.dst \in IdRefs

JobOK(j) ==
  Base(j) /\ AskOK(j.ask) /\ DoneOK(j) /\ ToldOK(j) /\ BulkOK(j) /\ Recalls(j, j.log)

(***************************************************************************)
(* The same of a step that makes k of a request j, with the entry e.       *)
(***************************************************************************)
DoneStep(j, k, e) ==
  j.ask.op \in DOMAIN Decisive /\ (Success(k) \/ Past(k)) => Past(j) \/ Decides(j.ask, j.log, e)

ToldStep(j, k, e) == k.says = "absent" /\ j.ask.op \in Careful => e.code = "NOT_FOUND"

BulkStep(j, k, e) ==
  j.ask.op \in Bulk =>
    \/ k.step = 0 /\ (k.reply # 200 \/ j.left = <<>>)
    \/ /\ k.step # 0 /\ k.left = j.left
       /\ k.step = 3 => j.left # <<>> /\ (Head(j.left) # Nowhere => e.obj = Head(j.left).at)
    \/ /\ k.step \notin {0, 3} /\ j.left # <<>> /\ k.left = Tail(j.left)
       /\ j.step = 3 \/ (Head(j.left) # Nowhere => e.obj = Head(j.left).at)

Sound(j, k, e) ==
  DoneStep(j, k, e) /\ ToldStep(j, k, e) /\ BulkStep(j, k, e) /\ Recalls(k, j.log \cup {e})

LEMMA DoneKept ==
  ASSUME NEW j, NEW h, NEW log, NEW e, DoneOK(j), h.ask = j.ask, h.log = log, j.log \subseteq log,
         j.ask.op \in DOMAIN Decisive /\ (Success(h) \/ Past(h)) => Past(j) \/ (e \in log /\ Decides(j.ask, j.log, e))
  PROVE  DoneOK(h)
  <1>1. \A x : Right(j.ask, j.log, x) => Right(j.ask, log, x)
    BY DEF Right
  <1> QED
    BY <1>1 DEF DoneOK, Decides

LEMMA RestOf ==
  ASSUME NEW S, NEW all \in Seq(S), NEW left \in Seq(S), Len(left) <= Len(all), left # <<>>,
         \A i \in 1..Len(left) : left[i] = all[Len(all) - Len(left) + i]
  PROVE  /\ Tail(left) \in Seq(S) /\ Len(Tail(left)) <= Len(all)
         /\ Len(all) - Len(Tail(left)) = Len(all) - Len(left) + 1
         /\ Head(left) = all[Len(all) - Len(left) + 1]
         /\ \A i \in 1..Len(Tail(left)) : Tail(left)[i] = all[Len(all) - Len(Tail(left)) + i]
  <1>1. /\ Tail(left) \in Seq(S) /\ Len(Tail(left)) = Len(left) - 1 /\ Head(left) = left[1]
        /\ Len(left) \in Nat /\ Len(left) > 0 /\ Len(all) \in Nat
        /\ \A i \in 1..Len(Tail(left)) : Tail(left)[i] = left[i + 1]
    OBVIOUS
  <1> DEFINE rest == Tail(left)
  <1> HIDE DEF rest
  <1>2. ASSUME NEW i \in 1..Len(rest)
        PROVE  rest[i] = all[Len(all) - Len(rest) + i]
    <2>1. i + 1 \in 1..Len(left) /\ Len(all) - Len(rest) + i = Len(all) - Len(left) + (i + 1)
      BY <1>1 DEF rest
    <2> QED
      BY <1>1, <2>1 DEF rest
  <1> QED
    BY <1>1, <1>2 DEF rest

LEMMA BulkKept ==
  ASSUME NEW j, NEW h, NEW e, JobOK(j), j.step # 0, h.ask = j.ask, j.log \subseteq h.log,
         BulkStep(j, h, e), h.step # 0 => h.reply = 0,
         (j.ask.op \in Bulk /\ e.obj = Head(j.left).at) => (e \in h.log \/ j.left = <<>> \/ Head(j.left) = Nowhere)
  PROVE  BulkOK(h)
  <1> SUFFICES ASSUME j.ask.op \in Bulk PROVE BulkOK(h)
    BY DEF BulkOK
  <1> DEFINE all == j.ask.items
             left == j.left
             gone == Len(all) - Len(left)
  <1>1. /\ all \in Seq(IdRefs) /\ left \in Seq(IdRefs) /\ Len(left) <= Len(all)
        /\ \A i \in 1..Len(left) : left[i] = all[gone + i]
        /\ \A i \in 1..gone : Tried(all[i], j.log)
        /\ j.step = 3 => left # <<>> /\ Tried(Head(left), j.log)
    BY DEF JobOK, BulkOK, AskOK
  <1>2. \A item : Tried(item, j.log) => Tried(item, h.log)
    BY DEF Tried
  <1>3. left # <<>> /\ (Head(left) # Nowhere => e.obj = Head(left).at) => Tried(Head(left), h.log)
    BY DEF Tried
  <1> HIDE DEF left
  <1>4. CASE h.step = 0 /\ (h.reply # 200 \/ left = <<>>)
    <2>1. left = <<>> => gone = Len(all)
      BY <1>1
    <2>2. h.reply = 200 => \A i \in 1..Len(all) : Tried(all[i], h.log)
      BY <1>1, <1>2, <1>4, <2>1
    <2> HIDE DEF gone, all
    <2> QED
      BY <1>4, <2>2 DEF BulkOK, all
  <1>5. CASE /\ h.step # 0 /\ h.left = left
             /\ h.step = 3 => left # <<>> /\ (Head(left) # Nowhere => e.obj = Head(left).at)
    BY <1>1, <1>2, <1>3, <1>5 DEF BulkOK
  <1>6. CASE /\ h.step \notin {0, 3} /\ left # <<>> /\ h.left = Tail(left)
             /\ j.step = 3 \/ (Head(left) # Nowhere => e.obj = Head(left).at)
    <2> DEFINE rest == Tail(left)
    <2>1. /\ rest \in Seq(IdRefs) /\ Len(rest) <= Len(all) /\ Len(all) - Len(rest) = gone + 1
          /\ Head(left) = all[gone + 1] /\ gone \in Nat
          /\ \A i \in 1..Len(rest) : rest[i] = all[Len(all) - Len(rest) + i]
      <3>1. gone \in Nat
        BY <1>1
      <3> QED
        BY <1>1, <1>6, <3>1, RestOf
    <2>2. Tried(Head(left), h.log)
      BY <1>1, <1>2, <1>3, <1>6
    <2> HIDE DEF gone, rest
    <2>3. \A i \in 1..(gone + 1) : Tried(all[i], h.log)
      BY <1>1, <1>2, <2>1, <2>2
    <2> QED
      BY <1>6, <2>1, <2>3 DEF BulkOK, rest
  <1> QED
    BY <1>4, <1>5, <1>6 DEF BulkStep, left

(***************************************************************************)
(* The invariant, and what a step of a request keeps of it.                *)
(***************************************************************************)
StoreInv ==
  /\ TreeOK(tree) /\ faults \in 0..MaxFaults
  /\ job = [c \in Clients |-> job[c]]
  /\ \A c \in Clients : JobOK(job[c])

Kept(c) ==
  /\ TreeOK(tree') /\ faults' \in 0..MaxFaults
  /\ job' = [job EXCEPT ![c] = job'[c]]
  /\ JobOK(job'[c]) /\ Nearer(job[c], job'[c]) /\ job'[c] # job[c]
  /\ job'[c].ask = job[c].ask /\ job[c].log \subseteq job'[c].log

NoEntry == [call |-> "none", code |-> "FAILED", obj |-> NoId, into |-> NoId, name |-> <<>>]

\* A step with a call, and one without.
Calls(c) ==
  \E r, call, a, k :
    /\ Called(r, call) /\ a \in Answers(r) /\ Ends(c, r, a, k)
    /\ Goes(job[c], k) /\ Sound(job[c], k, Entry(r, a))

Rests(c) ==
  \E k : /\ job' = [job EXCEPT ![c] = k] /\ UNCHANGED <<tree, faults>>
         /\ Goes(job[c], k)
         /\ DoneStep(job[c], k, NoEntry) /\ ToldStep(job[c], k, NoEntry) /\ BulkStep(job[c], k, NoEntry)
         /\ Recalls(k, job[c].log)

LEMMA BasesHold == StoreInv => BaseInv
  BY DEF StoreInv, BaseInv, JobOK

\* The parts of a request that the groups above look at.
LEMMA SameGroups ==
  ASSUME NEW j, NEW k, NEW h, NEW e, h = Job(j.ask, k.step, k.seen, k.left, k.reply, k.says, h.log), k.ask = j.ask
  PROVE  /\ h.ask = j.ask /\ h.step = k.step /\ h.seen = k.seen /\ h.left = k.left
         /\ h.reply = k.reply /\ h.says = k.says
         /\ Success(h) = Success(k) /\ Past(h) = Past(k)
         /\ BulkStep(j, h, e) = BulkStep(j, k, e)
         /\ \A log : Recalls(h, log) = Recalls(k, log)
  <1>1. /\ h.ask = j.ask /\ h.step = k.step /\ h.seen = k.seen /\ h.left = k.left
        /\ h.reply = k.reply /\ h.says = k.says
    BY JobsAre
  <1>2. Success(h) = Success(k) /\ Past(h) = Past(k) /\ BulkStep(j, h, e) = BulkStep(j, k, e)
    BY <1>1 DEF Success, Past, BulkStep
  <1>3. \A log : Recalls(h, log) = Recalls(k, log)
    BY <1>1 DEF Recalls, Bound
  <1> QED
    BY <1>1, <1>2, <1>3

LEMMA CallKeeps ==
  ASSUME StoreInv, NEW c \in Clients, job[c].step # 0, Calls(c)
  PROVE  Kept(c)
  <1>1. PICK r, call, a, k :
          /\ Called(r, call) /\ a \in Answers(r) /\ Ends(c, r, a, k)
          /\ Goes(job[c], k) /\ Sound(job[c], k, Entry(r, a))
    BY DEF Calls
  <1>2. Framed(c, k, {Entry(r, a)})
    BY <1>1, BasesHold, EndsKeeps
  <1>3. PICK e : e = Entry(r, a)
    OBVIOUS
  <1>4. PICK j : j = job[c]
    OBVIOUS
  <1>5. PICK h : h = job'[c]
    OBVIOUS
  <1>6. JobOK(j) /\ Goes(j, k) /\ Sound(j, k, e) /\ Base(h) /\ Nearer(j, h) /\ h # j /\ j.step # 0
    BY <1>1, <1>2, <1>3, <1>4, <1>5 DEF StoreInv, Framed
  <1>7. h = Job(j.ask, k.step, k.seen, k.left, k.reply, k.says, j.log \cup {e})
    BY <1>2, <1>3, <1>4, <1>5 DEF Framed
  <1>8. h.log = j.log \cup {e} /\ k.ask = j.ask
    BY <1>6, <1>7, JobsAre DEF Goes
  <1>9. /\ h.ask = j.ask /\ h.step = k.step /\ h.seen = k.seen /\ h.left = k.left
        /\ h.reply = k.reply /\ h.says = k.says
        /\ Success(h) = Success(k) /\ Past(h) = Past(k)
        /\ BulkStep(j, h, e) = BulkStep(j, k, e)
        /\ \A log : Recalls(h, log) = Recalls(k, log)
    BY <1>7, <1>8, SameGroups
  <1>10. DoneOK(h)
    BY <1>6, <1>8, <1>9, DoneKept DEF Sound, DoneStep, JobOK
  <1>11. ToldOK(h)
    BY <1>6, <1>8, <1>9 DEF Sound, ToldStep, ToldOK
  <1>12. BulkOK(h)
    <2>1. h.step # 0 => h.reply = 0
      BY <1>6 DEF Base
    <2>2. j.log \subseteq h.log /\ e \in h.log /\ BulkStep(j, h, e)
      BY <1>6, <1>8, <1>9 DEF Sound
    <2> QED
      BY <1>6, <1>9, <2>1, <2>2, BulkKept
  <1>13. Recalls(h, h.log)
    BY <1>6, <1>8, <1>9 DEF Sound
  <1>14. JobOK(h)
    BY <1>6, <1>9, <1>10, <1>11, <1>12, <1>13 DEF JobOK
  <1> QED
    BY <1>2, <1>4, <1>5, <1>6, <1>8, <1>9, <1>14 DEF Kept, Framed

LEMMA RestKeeps ==
  ASSUME StoreInv, NEW c \in Clients, job[c].step # 0, Rests(c)
  PROVE  Kept(c)
  <1>1. PICK k :
          /\ job' = [job EXCEPT ![c] = k] /\ UNCHANGED <<tree, faults>>
          /\ Goes(job[c], k)
          /\ DoneStep(job[c], k, NoEntry) /\ ToldStep(job[c], k, NoEntry) /\ BulkStep(job[c], k, NoEntry)
          /\ Recalls(k, job[c].log)
    BY DEF Rests
  <1>2. Framed(c, k, {})
    BY <1>1, BasesHold, QuietKeeps
  <1>3. PICK e : e = NoEntry
    OBVIOUS
  <1>4. PICK j : j = job[c]
    OBVIOUS
  <1>5. PICK h : h = job'[c]
    OBVIOUS
  <1>6. JobOK(j) /\ Goes(j, k) /\ Base(h) /\ Nearer(j, h) /\ h # j /\ j.step # 0
    BY <1>1, <1>2, <1>4, <1>5 DEF StoreInv, Framed
  <1>7. h = Job(j.ask, k.step, k.seen, k.left, k.reply, k.says, j.log)
    <2>1. j.log \cup {} = j.log
      OBVIOUS
    <2> QED
      BY <1>2, <1>4, <1>5, <2>1 DEF Framed
  <1>8. h.log = j.log /\ k.ask = j.ask
    BY <1>6, <1>7, JobsAre DEF Goes
  <1>9. /\ h.ask = j.ask /\ h.step = k.step /\ h.seen = k.seen /\ h.left = k.left
        /\ h.reply = k.reply /\ h.says = k.says
        /\ Success(h) = Success(k) /\ Past(h) = Past(k)
        /\ BulkStep(j, h, e) = BulkStep(j, k, e)
        /\ \A log : Recalls(h, log) = Recalls(k, log)
    BY <1>7, <1>8, SameGroups
  <1>10. e.code = "FAILED" /\ e.obj = NoId
    BY <1>3 DEF NoEntry
  <1>11. DoneOK(h)
    <2>1. ~Decides(j.ask, j.log, e)
      BY <1>10 DEF Decides, Found
    <2> QED
      BY <1>1, <1>3, <1>4, <1>6, <1>8, <1>9, <2>1, DoneKept DEF DoneStep, JobOK
  <1>12. ToldOK(h)
    BY <1>1, <1>3, <1>4, <1>9, <1>10 DEF ToldStep, ToldOK
  <1>13. BulkOK(h)
    <2>1. h.step # 0 => h.reply = 0
      BY <1>6 DEF Base
    <2>2. BulkStep(j, h, e)
      BY <1>1, <1>3, <1>4, <1>9
    <2>3. j.ask.op \in Bulk /\ e.obj = Head(j.left).at => Head(j.left) = Nowhere \/ j.left = <<>>
      <3>1. ASSUME j.ask.op \in Bulk, j.left # <<>>, Head(j.left).at = NoId PROVE Head(j.left) = Nowhere
        <4>1. j.left \in Seq(IdRefs)
          BY <1>6, <3>1 DEF JobOK, BulkOK
        <4>2. Head(j.left) \in IdRefs
          BY <3>1, <4>1
        <4> QED
          BY <3>1, <4>2 DEF IdRefs, Nowhere, Ref
      <3> QED
        BY <1>10, <3>1
    <2> QED
      BY <1>6, <1>8, <1>9, <2>1, <2>2, <2>3, BulkKept
  <1>14. Recalls(h, h.log)
    BY <1>1, <1>4, <1>8, <1>9
  <1>15. JobOK(h)
    BY <1>6, <1>9, <1>11, <1>12, <1>13, <1>14 DEF JobOK
  <1> QED
    BY <1>2, <1>4, <1>5, <1>6, <1>8, <1>9, <1>15 DEF Kept, Framed

\* An operation that none of the groups is about.
LEMMA Neutral ==
  ASSUME NEW j, NEW k, NEW e, k.ask = j.ask, j.ask.op \notin DOMAIN Decisive \cup Careful \cup Bulk
  PROVE  Sound(j, k, e) /\ \A log : Recalls(k, log)
  BY DEF Sound, DoneStep, ToldStep, BulkStep, Recalls, Decisive

(***************************************************************************)
(* The handlers that only read.                                            *)
(***************************************************************************)
Asks(c) ==
  \E r, call, a, k : Called(r, call) /\ a \in Answers(r) /\ Ends(c, r, a, k) /\ Goes(job[c], k)

IsNeutral(c) == job[c].step # 0 /\ job[c].ask.op \notin DOMAIN Decisive \cup Careful \cup Bulk

LEMMA NeutralKeeps ==
  ASSUME StoreInv, NEW c \in Clients, IsNeutral(c), Asks(c)
  PROVE  Kept(c)
  <1>1. PICK r, call, a, k : Called(r, call) /\ a \in Answers(r) /\ Ends(c, r, a, k) /\ Goes(job[c], k)
    BY DEF Asks
  <1>2. Sound(job[c], k, Entry(r, a))
    BY <1>1, Neutral DEF IsNeutral, Goes
  <1>3. Calls(c)
    BY <1>1, <1>2 DEF Calls
  <1> QED
    BY <1>3, CallKeeps DEF IsNeutral

LEMMA NeutralRests ==
  ASSUME StoreInv, NEW c \in Clients, IsNeutral(c), NEW k, job' = [job EXCEPT ![c] = k],
         UNCHANGED <<tree, faults>>, Goes(job[c], k)
  PROVE  Kept(c)
  <1>1. Sound(job[c], k, NoEntry) /\ Recalls(k, job[c].log)
    BY Neutral DEF IsNeutral, Goes
  <1>2. Rests(c)
    BY <1>1 DEF Rests, Sound
  <1> QED
    BY <1>2, RestKeeps DEF IsNeutral

LEMMA BadIdKeeps ==
  ASSUME StoreInv, NEW c \in Clients, NEW ops, BadId(c, ops)
  PROVE  Kept(c)
  <1> DEFINE j == job[c]
             k == Reply(j, 400)
  <1>1. Base(j) /\ j.step = 1 /\ job' = [job EXCEPT ![c] = k] /\ UNCHANGED <<tree, faults>>
    BY DEF BadId, StoreInv, JobOK
  <1>2. Goes(j, k) /\ k.step = 0 /\ k.reply = 400 /\ k.says = j.says /\ k.ask = j.ask
    <2>1. Goes(j, k)
      BY <1>1, Ways DEF Codes
    <2>2. k = Job(j.ask, 0, <<>>, <<>>, 400, j.says, j.log)
      BY <1>1, RepliesAre DEF Base
    <2> HIDE DEF k
    <2> QED
      BY <2>1, <2>2, JobsAre
  <1> HIDE DEF k
  <1>3. /\ DoneStep(j, k, NoEntry) /\ ToldStep(j, k, NoEntry) /\ BulkStep(j, k, NoEntry)
        /\ Recalls(k, j.log)
    BY <1>1, <1>2 DEF Base, DoneStep, ToldStep, BulkStep, Recalls, Success, Past
  <1>4. Rests(c)
    BY <1>1, <1>2, <1>3 DEF Rests
  <1> QED
    BY <1>1, <1>4, RestKeeps

\* The handlers of one Stat that only tell what it said.
AsksOnce(c) ==
  \/ GetDocumentMetaData(c) \/ GetFolderRights(c) \/ GetAllowableActions(c) \/ GetRenditions(c)
  \/ ExistObjectPath(c) \/ IsDocument(c) \/ IsFolder(c)

LEMMA AsksOnceKeeps ==
  ASSUME StoreInv, NEW c \in Clients, AsksOnce(c)
  PROVE  Kept(c)
  <1> DEFINE j == job[c]
             r == Stat(tree, Target(c))
             ways(a) == {Hides(j, a), Denies(j, a), Classifies(j, a, "file"), Classifies(j, a, "folder")}
  <1>1. IsNeutral(c) /\ j.step = 1 /\ \E a \in Answers(r) : \E k \in ways(a) : Ends(c, r, a, k)
    BY DEF AsksOnce, GetDocumentMetaData, GetFolderRights, GetAllowableActions, GetRenditions,
           ExistObjectPath, IsDocument, IsFolder, Ask1, Begins, At, Call, IsNeutral, Decisive, Careful, Bulk
  <1>2. Base(j) /\ Called(r, "Stat")
    BY StatCalled DEF StoreInv, JobOK
  <1>3. \A a : \A k \in ways(a) : Goes(j, k)
    BY <1>1, <1>2, Ways DEF Hides, Denies, Classifies, ThereOr, Codes
  <1> HIDE DEF r, ways
  <1>4. Asks(c)
    BY <1>1, <1>2, <1>3 DEF Asks
  <1> QED
    BY <1>1, <1>4, NeutralKeeps

LEMMA ExistKeeps ==
  ASSUME StoreInv, NEW c \in Clients, ExistObjectId(c)
  PROVE  Kept(c)
  <1> DEFINE j == job[c]
             r == Stat(tree, Target(c))
             k == Says(j, 200, "unknown")
  <1>1. /\ IsNeutral(c) /\ j.step = 1
        /\ \/ \E a \in Answers(r) : Ends(c, r, a, Denies(j, a))
           \/ job' = [job EXCEPT ![c] = k] /\ UNCHANGED <<tree, faults>>
    BY DEF ExistObjectId, Ask1, Begins, At, Call, IsNeutral, Decisive, Careful, Bulk
  <1>2. Base(j) /\ Called(r, "Stat")
    BY StatCalled DEF StoreInv, JobOK
  <1>3. (\A a : Goes(j, Denies(j, a))) /\ Goes(j, k)
    BY <1>1, <1>2, Ways DEF Denies, ThereOr, Codes
  <1> HIDE DEF r, k
  <1>4. CASE \E a \in Answers(r) : Ends(c, r, a, Denies(j, a))
    <2>1. Asks(c)
      BY <1>2, <1>3, <1>4 DEF Asks
    <2> QED
      BY <1>1, <2>1, NeutralKeeps
  <1>5. CASE job' = [job EXCEPT ![c] = k] /\ UNCHANGED <<tree, faults>>
    BY <1>1, <1>3, <1>5, NeutralRests
  <1> QED
    BY <1>1, <1>4, <1>5

\* The handlers that list spaces, folders, bins and versions.
Lists(c) ==
  \/ GetFolderRoot(c) \/ GetDeletedFiles(c) \/ GetDocumentVersions(c) \/ GetFolderMeta(c)
  \/ GetChildren(c) \/ GetRepositories(c) \/ GetRepositoryInfo(c) \/ GetFolderByFolderpath(c)

LEMMA ListsKeep ==
  ASSUME StoreInv, NEW c \in Clients, Lists(c)
  PROVE  Kept(c)
  <1> DEFINE j == job[c]
             ways(a) == {Empties(j, a), Fails(j, a), Hides(j, a), Reply(j, 500), Learn(j, a),
                         Says(j, 200, "there"), Says(j, 404, "absent")}
             Asked1(r) == \E a \in Answers(r) : \E k \in ways(a) : Ends(c, r, a, k)
  <1>1. /\ IsNeutral(c) /\ j.step \in 1..2
        /\ \/ Asked1(ListSpaces(tree)) \/ \E ref : Asked1(Stat(tree, ref))
           \/ \E call, ref, kinds : Asked1(Look(call, tree, ref, kinds))
    <2> USE DEF Begins, At, Call, IsNeutral, Decisive, Careful, Bulk
    <2>1. CASE GetFolderRoot(c) \/ GetRepositories(c) \/ GetRepositoryInfo(c)
      BY <2>1 DEF GetFolderRoot, GetRepositories, GetRepositoryInfo
    <2>2. CASE GetDeletedFiles(c) \/ GetDocumentVersions(c) \/ GetFolderMeta(c) \/ GetChildren(c)
      BY <2>2 DEF GetDeletedFiles, GetDocumentVersions, GetFolderMeta, GetChildren
    <2>3. CASE GetFolderByFolderpath(c)
      BY <2>3 DEF GetFolderByFolderpath
    <2> QED
      BY <2>1, <2>2, <2>3 DEF Lists
  <1>2. /\ Base(j) /\ Called(ListSpaces(tree), "Spaces") /\ \A ref : Called(Stat(tree, ref), "Stat")
        /\ \A call, ref, kinds : Called(Look(call, tree, ref, kinds), call)
    BY StatCalled, LooksCalled DEF StoreInv, JobOK
  <1>3. \A a : \A k \in ways(a) : Goes(j, k)
    BY <1>1, <1>2, Ways DEF Empties, Fails, Hides, ThereOr, Codes
  <1> HIDE DEF ways
  <1>4. Asks(c)
    BY <1>1, <1>2, <1>3 DEF Asks
  <1> QED
    BY <1>1, <1>4, NeutralKeeps

\* The answer that tells absence from failure says an object is absent only when
\* the storage said so.
HonestStep(j, a, e) ==
  /\ ToldStep(j, Honest(j, a), e)
  /\ Success(Honest(j, a)) => a.code = "OK"
  /\ Honest(j, a).ask = j.ask /\ Honest(j, a).step = 0

LEMMA HonestTells ==
  ASSUME NEW j, Base(j), j.step # 0, TreeOK(tree), faults \in 0..MaxFaults,
         NEW r, NEW call, Called(r, call), NEW a \in Answers(r)
  PROVE  Goes(j, Honest(j, a)) /\ HonestStep(j, a, Entry(r, a))
  <1>1. Goes(j, Honest(j, a))
    BY Ways DEF Honest, ThereOr, Codes
  <1>2. CASE a.code = "OK"
    <2>1. Honest(j, a) = Job(j.ask, 0, <<>>, <<>>, 200, "there", j.log)
      BY <1>2, SaysAre DEF Honest, Base
    <2> QED
      BY <1>1, <1>2, <2>1, JobsAre DEF HonestStep, ToldStep
  <1>3. CASE a.code = "NOT_FOUND"
    <2>1. Honest(j, a) = Job(j.ask, 0, <<>>, <<>>, 404, "absent", j.log)
      BY <1>3, SaysAre DEF Honest, Base
    <2>2. a = r /\ Entry(r, a).code = "NOT_FOUND"
      BY <1>3, AnswerOK DEF Called
    <2>3. PICK k : k = Honest(j, a)
      OBVIOUS
    <2>4. k.ask = j.ask /\ k.step = 0 /\ k.reply = 404
      BY <2>1, <2>3, JobsAre
    <2> QED
      BY <1>1, <2>2, <2>3, <2>4 DEF HonestStep, ToldStep, Success
  <1>4. CASE a.code \notin {"OK", "NOT_FOUND"}
    <2>1. Honest(j, a) = Job(j.ask, 0, <<>>, <<>>, 500, j.says, j.log)
      BY <1>4, RepliesAre DEF Honest, Base
    <2>2. PICK k : k = Honest(j, a)
      OBVIOUS
    <2>3. k.ask = j.ask /\ k.step = 0 /\ k.reply = 500 /\ k.says = j.says
      BY <2>1, <2>2, JobsAre
    <2>4. j.says # "absent"
      BY DEF Base
    <2> QED
      BY <1>1, <2>2, <2>3, <2>4 DEF HonestStep, ToldStep, Success
  <1> QED
    BY <1>2, <1>3, <1>4

\* The handlers that follow an answer with further calls.
LEMMA GetFileKeeps ==
  ASSUME StoreInv, NEW c \in Clients, GetFile(c)
  PROVE  Kept(c)
  <1> DEFINE j == job[c]
             open == Look("Open", tree, j.ask.ref, {"file"})
             get == Look("Get", tree, Ref(j.seen[1].id, <<>>), {"file"})
  <1>1. \/ j.step = 1 /\ \E a \in Answers(open) : \E k \in {GoTo(Learn(j, a), 3), GoTo(j, 2), Reply(j, 500)} :
                            Ends(c, open, a, k)
        \/ j.step = 2 /\ \E a \in Answers(open) : \E k \in {Learn(j, a), Reply(j, 500)} : Ends(c, open, a, k)
        \/ j.step = 3 /\ \E a \in Answers(get) : \E k \in {Says(j, 200, "there"), Reply(j, 404), Reply(j, 500)} :
                            Ends(c, get, a, k)
    BY DEF GetFile, Call, At, Begins, LearnOr
  <1>2. IsNeutral(c)
    BY DEF GetFile, Call, At, Begins, IsNeutral, Decisive, Careful, Bulk
  <1>3. Base(j) /\ Called(open, "Open") /\ Called(get, "Get")
    BY LooksCalled DEF StoreInv, JobOK
  <1> HIDE DEF open, get
  <1>4. Asks(c)
    BY <1>1, <1>3, Ways DEF Asks, Codes
  <1> QED
    BY <1>2, <1>4, NeutralKeeps

LEMMA OfFilesKeep ==
  ASSUME StoreInv, NEW c \in Clients, GetContentStream(c) \/ GetAllVersions(c)
  PROVE  Kept(c)
  <1> DEFINE j == job[c]
             stat == Stat(tree, Target(c))
             look(call) == Look(call, tree, Target(c), {"file"})
             get == Look("Get", tree, Ref(j.seen[2].id, <<>>), {"file"})
             ends(a) == {Says(j, 200, "there"), Reply(j, 404), Reply(j, 500)}
  <1>1. \/ j.step = 1 /\ \E a \in Answers(stat) : \E k \in {Hides(j, a), Says(j, 400, "other"), Learn(j, a)} :
                            Ends(c, stat, a, k)
        \/ j.step = 2 /\ \E call : \E a \in Answers(look(call)) : \E k \in ends(a) \cup {Learn(j, a)} :
                            Ends(c, look(call), a, k)
        \/ j.step = 3 /\ \E a \in Answers(get) : \E k \in ends(a) : Ends(c, get, a, k)
    <2>1. CASE GetContentStream(c)
      BY <2>1 DEF GetContentStream, Call, At, Begins, LearnOr
    <2>2. CASE GetAllVersions(c)
      BY <2>2 DEF GetAllVersions, Call, At, Begins
    <2> QED
      BY <2>1, <2>2
  <1>2. IsNeutral(c)
    BY DEF GetContentStream, GetAllVersions, Call, At, Begins, IsNeutral, Decisive, Careful, Bulk
  <1>3. Base(j) /\ Called(stat, "Stat") /\ (\A call : Called(look(call), call)) /\ Called(get, "Get")
    BY StatCalled, LooksCalled DEF StoreInv, JobOK
  <1>4. j.step # 0 => \A a : Goes(j, Hides(j, a)) /\ \A k \in ends(a) : Goes(j, k)
    BY <1>3, Ways DEF Codes, Hides, ThereOr
  <1> HIDE DEF stat, look, get, ends
  <1>5. Asks(c)
    BY <1>1, <1>3, <1>4, Ways DEF Asks, Codes
  <1> QED
    BY <1>2, <1>5, NeutralKeeps

LEMMA ParentsKeep ==
  ASSUME StoreInv, NEW c \in Clients, GetFolderParent(c) \/ GetObjectParents(c)
  PROVE  Kept(c)
  <1> DEFINE j == job[c]
             stat == Stat(tree, Target(c))
             up == Stat(tree, Ref(j.seen[1].parent, <<>>))
             first(a) == {Hides(j, a), Says(j, 400, "root"), Says(j, 200, "empty"), Learn(j, a)}
             next(a) == {ThereOr(j, a, 404, "parentless"), Empties(j, a)}
  <1>1. /\ j.ask.op \in {"GetFolderParent", "GetObjectParents"} /\ j.step \in 1..2
        /\ \/ j.step = 1 /\ \E a \in Answers(stat) : \E k \in first(a) : Ends(c, stat, a, k)
           \/ j.step = 2 /\ \E a \in Answers(up) : \E k \in next(a) : Ends(c, up, a, k)
    <2>1. CASE GetFolderParent(c)
      BY <2>1 DEF GetFolderParent, ParentOf, Call, At, Begins
    <2>2. CASE GetObjectParents(c)
      BY <2>2 DEF GetObjectParents, ParentOf, Call, At, Begins
    <2> QED
      BY <2>1, <2>2
  <1>2. IsNeutral(c)
    BY <1>1 DEF IsNeutral, Decisive, Careful, Bulk
  <1>3. Base(j) /\ Called(stat, "Stat") /\ Called(up, "Stat")
    BY StatCalled DEF StoreInv, JobOK
  <1>4. j.step = 1 => \A a : \A k \in first(a) : Goes(j, k)
    BY <1>3, Ways DEF Codes, Hides, ThereOr
  <1>5. j.step = 2 => \A a : \A k \in next(a) : Goes(j, k)
    BY <1>3, Ways DEF Codes, Empties, ThereOr
  <1> HIDE DEF stat, up, first, next
  <1>6. Asks(c)
    BY <1>1, <1>3, <1>4, <1>5 DEF Asks
  <1> QED
    BY <1>2, <1>6, NeutralKeeps

\* The two reads that tell absence from failure.
LEMMA HonestKeeps ==
  ASSUME StoreInv, NEW c \in Clients, GetDocument(c) \/ GetObject(c)
  PROVE  Kept(c)
  <1> DEFINE j == job[c]
             r == Stat(tree, Target(c))
  <1>1. PICK a \in Answers(r) : Ends(c, r, a, Honest(j, a))
    BY DEF GetDocument, GetObject, Ask1, Call
  <1>2. j.step = 1 /\ j.ask.op \in {"GetDocument", "GetObject"}
    BY DEF GetDocument, GetObject, Ask1, Begins, At
  <1>3. Base(j) /\ Called(r, "Stat") /\ TreeOK(tree) /\ faults \in 0..MaxFaults
    BY StatCalled DEF StoreInv, JobOK
  <1> HIDE DEF r
  <1>4. Goes(j, Honest(j, a)) /\ HonestStep(j, a, Entry(r, a))
    BY <1>1, <1>2, <1>3, HonestTells
  <1>5. Sound(j, Honest(j, a), Entry(r, a))
    BY <1>2, <1>4 DEF Sound, DoneStep, BulkStep, Recalls, Decisive, Bulk, HonestStep
  <1>6. Calls(c)
    BY <1>1, <1>3, <1>4, <1>5 DEF Calls
  <1> QED
    BY <1>2, <1>6, CallKeeps

LEMMA ReadsKeep ==
  ASSUME StoreInv, NEW c \in Clients, ReadStep(c)
  PROVE  Kept(c)
  BY BadIdKeeps, AsksOnceKeeps, ExistKeeps, ListsKeep, GetFileKeeps, OfFilesKeep, ParentsKeep, HonestKeeps
     DEF ReadStep, DmsRead, CmisRead, AsksOnce, Lists

(***************************************************************************)
(* The handlers that change the storage.  First what the ways of going on  *)
(* make of the parts of a request, and the steps that need no more.        *)
(***************************************************************************)
Parts(j, k, step, seen, left, reply, says) ==
  /\ k.ask = j.ask /\ k.step = step /\ k.seen = seen /\ k.left = left
  /\ k.reply = reply /\ k.says = says

LEMMA PartsAre ==
  ASSUME NEW j, Base(j), j.step # 0
  PROVE  /\ \A code : Parts(j, Reply(j, code), 0, <<>>, <<>>, code, j.says)
         /\ \A code, what : Parts(j, Says(j, code, what), 0, <<>>, <<>>, code, what)
         /\ \A step : Parts(j, GoTo(j, step), step, j.seen, j.left, 0, j.says)
         /\ \A a : Parts(j, Learn(j, a), j.step + 1, Append(j.seen, a.info), j.left, 0, j.says)
         /\ \A a, step : Parts(j, GoTo(Learn(j, a), step), step, Append(j.seen, a.info), j.left, 0, j.says)
  <1>0. Shape(j) /\ j.reply = 0
    BY DEF Base
  <1>1. \A code : Parts(j, Reply(j, code), 0, <<>>, <<>>, code, j.says)
    BY <1>0, RepliesAre, JobsAre DEF Parts
  <1>2. \A code, what : Parts(j, Says(j, code, what), 0, <<>>, <<>>, code, what)
    BY <1>0, SaysAre, JobsAre DEF Parts
  <1>3. \A step : Parts(j, GoTo(j, step), step, j.seen, j.left, 0, j.says)
    BY <1>0, GoesToAre, JobsAre DEF Parts
  <1>4. ASSUME NEW a
        PROVE  /\ Parts(j, Learn(j, a), j.step + 1, Append(j.seen, a.info), j.left, 0, j.says)
               /\ \A step : Parts(j, GoTo(Learn(j, a), step), step, Append(j.seen, a.info), j.left, 0, j.says)
    <2>1. PICK seen : seen = Append(j.seen, a.info)
      OBVIOUS
    <2>2. \A step, k : k = Job(j.ask, step, seen, j.left, j.reply, j.says, j.log)
                        => Parts(j, k, step, seen, j.left, 0, j.says)
      BY <1>0, JobsAre DEF Parts
    <2>3. Parts(j, Learn(j, a), j.step + 1, seen, j.left, 0, j.says)
      BY <1>0, <2>1, <2>2, LearnsAre
    <2>4. \A step : Parts(j, GoTo(Learn(j, a), step), step, seen, j.left, 0, j.says)
      BY <1>0, <2>1, <2>2, LearnsToAre
    <2> QED
      BY <2>1, <2>3, <2>4
  <1> QED
    BY <1>1, <1>2, <1>3, <1>4

\* A failure answered: nothing is claimed.
LEMMA FailureSound ==
  ASSUME NEW j, Base(j), j.step # 0, NEW code \in {400, 404, 409, 500}, NEW e
  PROVE  Goes(j, Reply(j, code)) /\ Sound(j, Reply(j, code), e) /\ \A log : Recalls(Reply(j, code), log)
  <1>1. PICK k : k = Reply(j, code)
    OBVIOUS
  <1>2. k.ask = j.ask /\ k.step = 0 /\ k.reply = code /\ k.says = j.says
    BY <1>1, PartsAre DEF Parts
  <1>3. j.says # "absent"
    BY DEF Base
  <1>4. Sound(j, k, e) /\ \A log : Recalls(k, log)
    BY <1>2, <1>3 DEF Sound, DoneStep, ToldStep, BulkStep, Recalls, Success, Past
  <1>5. Goes(j, Reply(j, code))
    BY Ways DEF Codes
  <1> QED
    BY <1>1, <1>4, <1>5

\* The operations with neither a list nor something to remember.
Simple(q) == q.op \notin Bulk \cup {"MoveObject", "Import"}

LEMMA SimpleSound ==
  ASSUME NEW j, Base(j), j.step # 0, NEW k, k.ask = j.ask, k.says = j.says, NEW e, Simple(j.ask), DoneStep(j, k, e)
  PROVE  Sound(j, k, e)
  <1>1. j.says # "absent"
    BY DEF Base
  <1> QED
    BY <1>1 DEF Sound, ToldStep, BulkStep, Recalls, Simple

\* Going on, when the decisive call is still to come or behind.
LEMMA OnwardSound ==
  ASSUME NEW j, Base(j), j.step # 0, NEW k, NEW e, Simple(j.ask), NEW step, NEW seen,
         Parts(j, k, step, seen, j.left, 0, j.says), Past(k) => Past(j)
  PROVE  Sound(j, k, e)
  <1>1. k.ask = j.ask /\ k.says = j.says /\ k.reply = 0
    BY DEF Parts
  <1>2. DoneStep(j, k, e)
    BY <1>1 DEF DoneStep, Success
  <1> QED
    BY <1>1, <1>2, SimpleSound

\* The decisive call, when its answer is the handler's.
LEMMA DecisiveSound ==
  ASSUME TreeOK(tree), faults \in 0..MaxFaults, NEW j, Base(j), j.step # 0, Simple(j.ask),
         j.ask.op \in DOMAIN Decisive, NEW r, Called(r, Decisive[j.ask.op]), NEW a \in Answers(r),
         a = r /\ r.code = "OK" => Right(j.ask, j.log, r.did),
         NEW ok \in {200, 204}, NEW code \in {400, 404, 409, 500}
  PROVE  Goes(j, OkOr(j, a, ok, code)) /\ Sound(j, OkOr(j, a, ok, code), Entry(r, a))
  <1>1. CASE a.code = "OK"
    <2>1. a = r /\ Entry(r, a) = r.did /\ r.did.code = "OK" /\ r.did.call = Decisive[j.ask.op]
      BY <1>1, AnswerOK DEF Called
    <2>2. Decides(j.ask, j.log, Entry(r, a))
      BY <1>1, <2>1 DEF Decides
    <2>3. DoneStep(j, Reply(j, ok), Entry(r, a))
      BY <2>2 DEF DoneStep
    <2>4. Reply(j, ok).ask = j.ask /\ Reply(j, ok).says = j.says
      BY PartsAre DEF Parts
    <2>5. Sound(j, Reply(j, ok), Entry(r, a))
      BY <2>3, <2>4, SimpleSound
    <2>6. Goes(j, Reply(j, ok))
      BY Ways DEF Codes
    <2> QED
      BY <1>1, <2>5, <2>6 DEF OkOr
  <1>2. CASE a.code # "OK"
    BY <1>2, FailureSound DEF OkOr
  <1> QED
    BY <1>1, <1>2

LEMMA SetFolderKeeps ==
  ASSUME StoreInv, NEW c \in Clients, SetFolder(c)
  PROVE  Kept(c)
  <1> DEFINE j == job[c]
             ref == NewFolderRef(j.ask)
             make == CreateContainer(tree, ref)
             stat == Stat(tree, ref)
  <1>0. /\ Base(j) /\ TreeOK(tree) /\ faults \in 0..MaxFaults /\ j.ask.dst \in IdRefs
        /\ Called(make, "Create") /\ Called(stat, "Stat") /\ j.ask.op = "SetFolder" /\ Simple(j.ask)
    BY CreateCalled, StatCalled DEF StoreInv, JobOK, AskOK, SetFolder, At, Simple, Bulk
  <1>1. \/ /\ j.step = 1
           /\ \E a \in Answers(make) : \E k : /\ Ends(c, make, a, k)
                                              /\ \/ k = GoTo(j, 2) /\ a.code \in {"OK", "ALREADY_EXISTS"}
                                                 \/ k \in {Reply(j, 409), Reply(j, 500)}
        \/ /\ j.step = 2 /\ \E a \in Answers(stat) : Ends(c, stat, a, Reply(j, 200))
    BY DEF SetFolder, At, Call
  <1>2. j.ask.dst # Nowhere /\ make.code \in {"OK", "ALREADY_EXISTS"}
          => make.did.into = j.ask.dst.at /\ make.did.name = j.ask.name
    <2>1. j.ask.dst # Nowhere => ref = Ref(j.ask.dst.at, <<j.ask.name>>)
      BY DEF NewFolderRef, Escaped
    <2> QED
      BY <1>0, <2>1, CreateTells
  <1> HIDE DEF make, stat
  <1>3. CASE j.step = 1
    <2>1. PICK a \in Answers(make) : \E k : /\ Ends(c, make, a, k)
                                            /\ \/ k = GoTo(j, 2) /\ a.code \in {"OK", "ALREADY_EXISTS"}
                                               \/ k \in {Reply(j, 409), Reply(j, 500)}
      BY <1>1, <1>3
    <2>2. PICK k : /\ Ends(c, make, a, k)
                   /\ \/ k = GoTo(j, 2) /\ a.code \in {"OK", "ALREADY_EXISTS"}
                      \/ k \in {Reply(j, 409), Reply(j, 500)}
      BY <2>1
    <2>3. Calls(c)
      <3>1. CASE k = GoTo(j, 2) /\ a.code \in {"OK", "ALREADY_EXISTS"}
        <4>1. a = make /\ Entry(make, a) = make.did /\ make.did.code = make.code /\ make.did.call = "Create"
          BY <1>0, <3>1, AnswerOK DEF Called
        <4>2. Right(j.ask, j.log, make.did)
          BY <1>0, <1>2, <3>1, <4>1 DEF Right
        <4>3. DoneStep(j, k, Entry(make, a))
          BY <1>0, <3>1, <4>1, <4>2 DEF DoneStep, Decides, Decisive, Found
        <4>4. k.ask = j.ask /\ k.says = j.says
          BY <1>0, <1>3, <3>1, PartsAre DEF Parts
        <4>5. Sound(j, k, Entry(make, a)) /\ Goes(j, k)
          BY <1>0, <1>3, <3>1, <4>3, <4>4, SimpleSound, Ways
        <4> QED
          BY <1>0, <2>2, <4>5 DEF Calls
      <3>2. CASE k \in {Reply(j, 409), Reply(j, 500)}
        BY <1>0, <1>3, <2>2, <3>2, FailureSound DEF Calls
      <3> QED
        BY <2>2, <3>1, <3>2
    <2> QED
      BY <1>3, <2>3, CallKeeps
  <1>4. CASE j.step = 2
    <2>1. PICK a \in Answers(stat) : Ends(c, stat, a, Reply(j, 200))
      BY <1>1, <1>4
    <2>2. DoneStep(j, Reply(j, 200), Entry(stat, a))
      BY <1>0, <1>4 DEF DoneStep, Past
    <2>3. Reply(j, 200).ask = j.ask /\ Reply(j, 200).says = j.says
      BY <1>0, <1>4, PartsAre DEF Parts
    <2>4. Sound(j, Reply(j, 200), Entry(stat, a)) /\ Goes(j, Reply(j, 200))
      BY <1>0, <1>4, <2>2, <2>3, SimpleSound, Ways DEF Codes
    <2>5. Calls(c)
      BY <1>0, <2>1, <2>4 DEF Calls
    <2> QED
      BY <1>4, <2>5, CallKeeps
  <1> QED
    BY <1>1, <1>3, <1>4

\* The handlers that look something up, and answer what the decisive call says.
Straight == {"CreateFolderByParentFolderID", "CreateFolderByParentFolderPath", "RenameFolder",
             "RenameDocument", "SetIndex", "SetFile", "DeleteContentStream"}

\* A call on the way of such a handler, and its last one.
Underway(j, a) ==
  {Learn(j, a), Reply(j, 404), Reply(j, 500)}
    \cup IF j.step = 1 THEN {GoTo(Learn(j, a), 3), GoTo(j, 2)} ELSE {}

LEMMA UnderwayKeeps ==
  ASSUME StoreInv, NEW c \in Clients, job[c].ask.op \in Straight, job[c].step \in 1..2,
         NEW r, NEW call, Called(r, call), NEW a \in Answers(r),
         NEW k \in Underway(job[c], a), Ends(c, r, a, k)
  PROVE  Kept(c)
  <1> DEFINE j == job[c]
  <1>1. Base(j) /\ Simple(j.ask) /\ ~Past(k) /\ (k \notin {Reply(j, 404), Reply(j, 500)} => Goes(j, k))
    <2>1. Base(j) /\ Simple(j.ask)
      BY DEF StoreInv, JobOK, Simple, Straight, Bulk
    <2>2. k.ask = j.ask
      BY <2>1, PartsAre DEF Underway, Parts
    <2>3. ~Past(k)
      BY <2>2 DEF Past, Straight
    <2>4. k \notin {Reply(j, 404), Reply(j, 500)} => Goes(j, k)
      BY <2>1, Ways DEF Underway
    <2> QED
      BY <2>1, <2>3, <2>4
  <1>2. CASE k \in {Reply(j, 404), Reply(j, 500)}
    <2>1. Goes(j, k) /\ Sound(j, k, Entry(r, a))
      BY <1>1, <1>2, FailureSound
    <2>2. Calls(c)
      BY <2>1 DEF Calls
    <2> QED
      BY <2>2, CallKeeps
  <1>3. CASE k \notin {Reply(j, 404), Reply(j, 500)}
    <2>1. \E step, seen : Parts(j, k, step, seen, j.left, 0, j.says)
      BY <1>1, <1>3, PartsAre DEF Underway
    <2>2. Sound(j, k, Entry(r, a))
      BY <1>1, <2>1, OnwardSound
    <2>3. Calls(c)
      BY <1>1, <1>3, <2>2 DEF Calls
    <2> QED
      BY <2>3, CallKeeps
  <1> QED
    BY <1>2, <1>3

LEMMA DecisiveKeeps ==
  ASSUME StoreInv, NEW c \in Clients, Simple(job[c].ask), job[c].ask.op \in DOMAIN Decisive, job[c].step # 0,
         NEW r, Called(r, Decisive[job[c].ask.op]), NEW a \in Answers(r),
         r.code = "OK" => Right(job[c].ask, job[c].log, r.did),
         NEW ok \in {200, 204}, NEW code \in {400, 404, 409, 500}, Ends(c, r, a, OkOr(job[c], a, ok, code))
  PROVE  Kept(c)
  <1> DEFINE j == job[c]
             k == OkOr(j, a, ok, code)
  <1>1. Base(j) /\ TreeOK(tree) /\ faults \in 0..MaxFaults
    BY DEF StoreInv, JobOK
  <1>2. Goes(j, k) /\ Sound(j, k, Entry(r, a))
    BY <1>1, DecisiveSound
  <1> HIDE DEF k
  <1>3. Calls(c)
    BY <1>2 DEF Calls, k
  <1> QED
    BY <1>3, CallKeeps

LEMMA StraightKeeps ==
  ASSUME StoreInv, NEW c \in Clients,
         \/ CreateFolderByParentFolderID(c) \/ CreateFolderByParentFolderPath(c)
         \/ RenameDocument(c) \/ SetIndex(c) \/ SetFile(c) \/ DeleteContentStream(c)
  PROVE  Kept(c)
  <1> DEFINE j == job[c]
             Aside(r) == j.step \in 1..2 /\ \E a \in Answers(r) : \E k \in Underway(j, a) : Ends(c, r, a, k)
             Ending(r) == /\ j.step # 0
                          /\ \E a \in Answers(r) : \E ok \in {200, 204} : Ends(c, r, a, OkOr(j, a, ok, 500))
  <1>1. /\ j.ask.op \in Straight \ {"RenameFolder"}
        /\ \/ \E ref : Aside(Stat(tree, ref)) \/ Aside(Initiate(tree, ref))
           \/ Decisive[j.ask.op] = "Create" /\ \E ref : Ending(CreateContainer(tree, ref))
           \/ Decisive[j.ask.op] = "Move" /\ \E src, dst : Ending(Move(tree, src, dst))
           \/ Decisive[j.ask.op] = "Meta" /\ \E ref, who : Ending(SetMetadata(tree, ref, who))
           \/ Decisive[j.ask.op] = "Put" /\ \E ref, obj, body : Ending(PutBytes(tree, ref, obj, body))
    <2> USE DEF Begins, At, Call, LearnOr, Decisive, Straight, Underway
    <2>1. CASE CreateFolderByParentFolderID(c)
      BY <2>1 DEF CreateFolderByParentFolderID
    <2>2. CASE CreateFolderByParentFolderPath(c)
      BY <2>2 DEF CreateFolderByParentFolderPath
    <2>3. CASE RenameDocument(c)
      BY <2>3 DEF RenameDocument
    <2>4. CASE SetIndex(c)
      BY <2>4 DEF SetIndex
    <2>5. CASE SetFile(c)
      BY <2>5 DEF SetFile
    <2>6. CASE DeleteContentStream(c)
      BY <2>6 DEF DeleteContentStream, InitiateContent
    <2> QED
      BY <2>1, <2>2, <2>3, <2>4, <2>5, <2>6
  <1>2. TreeOK(tree)
    BY DEF StoreInv
  <1>3. ASSUME NEW r, NEW call, Called(r, call), Aside(r) PROVE Kept(c)
    BY <1>1, <1>3, UnderwayKeeps
  <1>4. ASSUME NEW r, Called(r, Decisive[j.ask.op]), Ending(r) PROVE Kept(c)
    <2>1. Simple(j.ask) /\ j.ask.op \in DOMAIN Decisive /\ Right(j.ask, j.log, r.did)
      BY <1>1 DEF Straight, Simple, Bulk, Decisive, Right
    <2> QED
      BY <1>4, <2>1, DecisiveKeeps
  <1> HIDE DEF Aside, Ending
  <1> QED
    BY <1>1, <1>2, <1>3, <1>4, StatCalled, LooksCalled, CreateCalled, MoveCalled, MetaCalled, PutCalled

LEMMA RenameFolderKeeps ==
  ASSUME StoreInv, NEW c \in Clients, RenameFolder(c)
  PROVE  Kept(c)
  <1> DEFINE j == job[c]
             stat == Stat(tree, j.ask.ref)
             move == Move(tree, j.ask.ref, Ref(j.seen[1].parent, <<j.ask.name>>))
  <1>1. /\ TreeOK(tree) /\ Called(stat, "Stat") /\ Called(move, "Move")
        /\ j.ask.op = "RenameFolder" /\ j.ask.ref \in IdRefs /\ Simple(j.ask)
    BY StatCalled, MoveCalled DEF StoreInv, JobOK, AskOK, RenameFolder, Begins, At, Simple, Bulk
  <1>2. \/ j.step = 1 /\ \E a \in Answers(stat) : \E k \in {Learn(j, a), Reply(j, 404)} : Ends(c, stat, a, k)
        \/ j.step = 2 /\ \E a \in Answers(move) : Ends(c, move, a, OkOr(j, a, 200, 500))
    BY DEF RenameFolder, Begins, At, Call, LearnOr, Escaped
  <1>3. move.code = "OK" => Right(j.ask, j.log, move.did)
    BY <1>1, MoveTells DEF Right
  <1> HIDE DEF stat, move
  <1>4. CASE j.step = 1
    BY <1>1, <1>2, <1>4, UnderwayKeeps DEF Underway, Straight
  <1>5. CASE j.step = 2
    BY <1>1, <1>2, <1>3, <1>5, DecisiveKeeps DEF Decisive
  <1> QED
    BY <1>2, <1>4, <1>5

LEMMA CreateRootFolderKeeps ==
  ASSUME StoreInv, NEW c \in Clients, CreateRootFolder(c)
  PROVE  Kept(c)
  <1> DEFINE j == job[c]
             make == CreateSpace(tree, j.ask.name)
             meta == SetMetadata(tree, Ref(j.seen[1].id, <<>>), c)
  <1>1. /\ Base(j) /\ TreeOK(tree) /\ faults \in 0..MaxFaults /\ Called(make, "Space") /\ Called(meta, "Meta")
        /\ j.ask.op = "CreateRootFolder" /\ Simple(j.ask)
    BY SpaceCalled, MetaCalled DEF StoreInv, JobOK, CreateRootFolder, At, Simple, Bulk
  <1>2. \/ /\ j.step = 1
           /\ \E a \in Answers(make) : \E k : /\ Ends(c, make, a, k)
                                              /\ k = OkOr(j, a, 200, 500) \/ (a.code = "OK" /\ k = Learn(j, a))
        \/ j.step = 2 /\ \E a \in Answers(meta) : Ends(c, meta, a, Reply(j, 200))
    BY DEF CreateRootFolder, At, Call
  <1>3. Right(j.ask, j.log, make.did)
    BY <1>1 DEF Right
  <1> HIDE DEF make, meta
  <1>4. CASE j.step = 1
    <2>1. PICK a \in Answers(make) : \E k : /\ Ends(c, make, a, k)
                                            /\ k = OkOr(j, a, 200, 500) \/ (a.code = "OK" /\ k = Learn(j, a))
      BY <1>2, <1>4
    <2>2. CASE Ends(c, make, a, OkOr(j, a, 200, 500))
      BY <1>1, <1>3, <1>4, <2>2, DecisiveKeeps DEF Decisive
    <2>3. CASE Ends(c, make, a, Learn(j, a)) /\ a.code = "OK"
      <3>1. a = make /\ Entry(make, a) = make.did /\ make.did.code = "OK" /\ make.did.call = "Space"
        BY <1>1, <2>3, AnswerOK DEF Called
      <3>2. DoneStep(j, Learn(j, a), Entry(make, a))
        BY <1>1, <1>3, <3>1 DEF DoneStep, Decides, Decisive
      <3>3. Learn(j, a).ask = j.ask /\ Learn(j, a).says = j.says
        BY <1>1, <1>4, PartsAre DEF Parts
      <3>4. Sound(j, Learn(j, a), Entry(make, a)) /\ Goes(j, Learn(j, a))
        BY <1>1, <1>4, <3>2, <3>3, SimpleSound, Ways
      <3>5. Calls(c)
        BY <1>1, <2>3, <3>4 DEF Calls
      <3> QED
        BY <1>4, <3>5, CallKeeps
    <2> QED
      BY <2>1, <2>2, <2>3
  <1>5. CASE j.step = 2
    <2>1. PICK a \in Answers(meta) : Ends(c, meta, a, Reply(j, 200))
      BY <1>2, <1>5
    <2>2. DoneStep(j, Reply(j, 200), Entry(meta, a))
      BY <1>1, <1>5 DEF DoneStep, Past
    <2>3. Reply(j, 200).ask = j.ask /\ Reply(j, 200).says = j.says
      BY <1>1, <1>5, PartsAre DEF Parts
    <2>4. Sound(j, Reply(j, 200), Entry(meta, a)) /\ Goes(j, Reply(j, 200))
      BY <1>1, <1>5, <2>2, <2>3, SimpleSound, Ways DEF Codes
    <2>5. Calls(c)
      BY <1>1, <2>1, <2>4 DEF Calls
    <2> QED
      BY <1>5, <2>5, CallKeeps
  <1> QED
    BY <1>2, <1>4, <1>5

(***************************************************************************)
(* The bulk operations.                                                    *)
(***************************************************************************)
Rest(j) == j.left \in Seq(IdRefs) /\ j.left # <<>>

LEMMA ListsAre ==
  ASSUME NEW j, JobOK(j), j.ask.op \in Bulk, j.step # 0
  PROVE  /\ j.left \in Seq(IdRefs) /\ (j.left # <<>> => Head(j.left) \in IdRefs)
         /\ j.step = 3 => j.left # <<>>
  <1>1. j.left \in Seq(IdRefs) /\ (j.step = 3 => j.left # <<>>)
    BY DEF JobOK, BulkOK
  <1>2. ASSUME NEW s \in Seq(IdRefs), s # <<>> PROVE Head(s) \in IdRefs
    BY <1>2
  <1> QED
    BY <1>1, <1>2

LEMMA NextWay ==
  ASSUME NEW j, Base(j), j.step # 0, Rest(j), NEW step \in 1..9
  PROVE  /\ Goes(j, NextItem(j, step))
         /\ NextItem(j, step).ask = j.ask /\ NextItem(j, step).step = step /\ NextItem(j, step).reply = 0
         /\ NextItem(j, step).left = Tail(j.left) /\ NextItem(j, step).says = j.says
  <1>1. PICK rest : rest = Tail(j.left)
    OBVIOUS
  <1>2. PICK seen : seen = IF j.seen = <<>> THEN j.seen ELSE <<Head(j.seen)>>
    OBVIOUS
  <1>3. Len(rest) < Len(j.left)
    BY <1>1 DEF Rest
  <1>4. IsSeq(seen)
    BY <1>2, ShortSeqs DEF Base
  <1>5. PICK k : k = NextItem(j, step)
    OBVIOUS
  <1>6. k = Job(j.ask, step, seen, rest, j.reply, j.says, j.log) /\ j.reply = 0
    BY <1>1, <1>2, <1>5, NextsAre DEF Base
  <1>7. /\ Shape(k) /\ k.ask = j.ask /\ k.step = step /\ k.seen = seen /\ k.left = rest
        /\ k.reply = j.reply /\ k.says = j.says /\ k.log = j.log
    BY <1>6, JobsAre
  <1>8. Goes(j, k)
    <2>1. rest # j.left
      BY <1>3 DEF Rest
    <2> QED
      BY <1>3, <1>4, <1>7, <2>1 DEF Goes, Nearer
  <1> QED
    BY <1>1, <1>5, <1>6, <1>7, <1>8

\* A step of a bulk operation claims nothing but that what it leaves was tried.
LEMMA BulkSound ==
  ASSUME NEW j, Base(j), j.step # 0, j.ask.op \in Bulk, NEW k, k.ask = j.ask, NEW e, BulkStep(j, k, e)
  PROVE  Sound(j, k, e) /\ \A log : Recalls(k, log)
  BY DEF Sound, DoneStep, ToldStep, Recalls, Bulk, Decisive, Careful

\* The next item is passed over, tried with a call, and the loop ends.
LEMMA SkipKeeps ==
  ASSUME StoreInv, NEW c \in Clients, job[c].ask.op \in Bulk, job[c].step \in 1..2, SkipsBadId(c)
  PROVE  Kept(c)
  <1> DEFINE j == job[c]
             k == NextItem(j, j.step)
  <1>1. Base(j) /\ Rest(j) /\ Head(j.left) = Nowhere /\ job' = [job EXCEPT ![c] = k] /\ UNCHANGED <<tree, faults>>
    <2>1. JobOK(j) /\ Base(j)
      BY DEF StoreInv, JobOK
    <2>2. j.left # <<>> /\ Head(j.left) = Nowhere /\ job' = [job EXCEPT ![c] = k] /\ UNCHANGED <<tree, faults>>
      BY Zenon DEF SkipsBadId
    <2> HIDE DEF k
    <2> QED
      BY <2>1, <2>2, ListsAre DEF Rest
  <1>2. Goes(j, k) /\ k.ask = j.ask /\ BulkStep(j, k, NoEntry)
    <2>1. Goes(j, k) /\ k.ask = j.ask /\ k.step = j.step /\ k.left = Tail(j.left)
      BY <1>1, NextWay
    <2> HIDE DEF k
    <2> QED
      BY <1>1, <2>1 DEF BulkStep, Rest
  <1> HIDE DEF k
  <1>3. Sound(j, k, NoEntry) /\ Recalls(k, j.log)
    BY <1>1, <1>2, BulkSound
  <1>4. Rests(c)
    BY <1>1, <1>2, <1>3 DEF Rests, Sound
  <1> QED
    BY <1>4, RestKeeps

LEMMA LoopEndKeeps ==
  ASSUME StoreInv, NEW c \in Clients, job[c].ask.op \in Bulk, job[c].step # 0, EndsLoop(c)
  PROVE  Kept(c)
  <1> DEFINE j == job[c]
             k == Reply(j, 200)
  <1>1. Base(j) /\ j.left = <<>> /\ job' = [job EXCEPT ![c] = k] /\ UNCHANGED <<tree, faults>>
    BY DEF StoreInv, JobOK, EndsLoop
  <1>2. Goes(j, k) /\ k.ask = j.ask /\ BulkStep(j, k, NoEntry)
    <2>1. Goes(j, k) /\ k.ask = j.ask /\ k.step = 0
      BY <1>1, Ways, PartsAre DEF Codes, Parts
    <2> HIDE DEF k
    <2> QED
      BY <1>1, <2>1 DEF BulkStep
  <1> HIDE DEF k
  <1>3. Sound(j, k, NoEntry) /\ Recalls(k, j.log)
    BY <1>1, <1>2, BulkSound
  <1>4. Rests(c)
    BY <1>1, <1>2, <1>3 DEF Rests, Sound
  <1> QED
    BY <1>4, RestKeeps

\* A call for the next item: on it, or after one on it.
LEMMA NextKeeps ==
  ASSUME StoreInv, NEW c \in Clients, job[c].ask.op \in Bulk, job[c].step # 0, job[c].left # <<>>,
         NEW r, NEW call, Called(r, call), NEW a \in Answers(r), NEW step \in 1..2,
         job[c].step = 3 \/ (Head(job[c].left) # Nowhere => r.did.obj = Head(job[c].left).at),
         Ends(c, r, a, NextItem(job[c], step))
  PROVE  Kept(c)
  <1> DEFINE j == job[c]
             k == NextItem(j, step)
             e == Entry(r, a)
  <1>1. Base(j) /\ Rest(j) /\ TreeOK(tree) /\ faults \in 0..MaxFaults
    BY ListsAre DEF StoreInv, JobOK, Rest
  <1>2. e.obj = r.did.obj
    BY <1>1, AnswerOK
  <1>3. Goes(j, k) /\ k.ask = j.ask /\ k.step = step /\ k.left = Tail(j.left)
    BY <1>1, NextWay
  <1> HIDE DEF k, e
  <1>4. BulkStep(j, k, e)
    BY <1>1, <1>2, <1>3 DEF BulkStep, Rest
  <1>5. Sound(j, k, e)
    BY <1>1, <1>3, <1>4, BulkSound
  <1>6. Calls(c)
    BY <1>3, <1>5 DEF Calls, k, e
  <1> QED
    BY <1>6, CallKeeps

LEMMA ManyKeep ==
  ASSUME StoreInv, NEW c \in Clients, DeleteFolders(c) \/ BinDocuments(c) \/ RecoverObjects(c)
  PROVE  Kept(c)
  <1> DEFINE j == job[c]
             item == Head(j.left)
  <1>1. /\ j.ask.op \in Bulk /\ j.step = 1
        /\ SkipsBadId(c) \/ DeletesNext(c) \/ RestoresNext(c) \/ EndsLoop(c)
    BY DEF DeleteFolders, BinDocuments, RecoverObjects, At, Bulk
  <1>2. TreeOK(tree) /\ (j.left # <<>> => item \in IdRefs)
    BY <1>1, ListsAre DEF StoreInv
  <1>3. CASE DeletesNext(c)
    <2>1. j.left # <<>> /\ \E a \in Answers(Delete(tree, item)) : Ends(c, Delete(tree, item), a, NextItem(j, 1))
      BY <1>3 DEF DeletesNext, Call
    <2>2. Called(Delete(tree, item), "Delete") /\ Delete(tree, item).did.obj = item.at
      BY <1>2, <2>1, DeleteCalled, DeleteTells
    <2> QED
      BY <1>1, <2>1, <2>2, NextKeeps
  <1>4. CASE RestoresNext(c)
    <2>1. j.left # <<>> /\ \E a \in Answers(Restore(tree, item.at)) : Ends(c, Restore(tree, item.at), a, NextItem(j, 1))
      BY <1>4 DEF RestoresNext, Call
    <2>2. Called(Restore(tree, item.at), "Restore") /\ Restore(tree, item.at).did.obj = item.at
      BY <1>2, RestoreCalled, RestoreTells
    <2> QED
      BY <1>1, <2>1, <2>2, NextKeeps
  <1> QED
    BY <1>1, <1>3, <1>4, SkipKeeps, LoopEndKeeps

\* The step that looks up the target or a source, and goes on with it.
LEMMA BulkLooksUp ==
  ASSUME StoreInv, NEW c \in Clients, job[c].ask.op \in Bulk, job[c].step \in 1..2,
         NEW r, NEW call, Called(r, call), NEW a \in Answers(r), Ends(c, r, a, Learn(job[c], a)),
         job[c].step = 2 => job[c].left # <<>> /\ r.did.obj = Head(job[c].left).at
  PROVE  Kept(c)
  <1> DEFINE j == job[c]
             k == Learn(j, a)
             e == Entry(r, a)
  <1>1. Base(j) /\ TreeOK(tree) /\ faults \in 0..MaxFaults
    BY DEF StoreInv, JobOK
  <1>2. e.obj = r.did.obj
    BY <1>1, AnswerOK
  <1>3. Goes(j, k) /\ k.ask = j.ask /\ k.step = j.step + 1 /\ k.left = j.left
    BY <1>1, Ways, PartsAre DEF Parts
  <1> HIDE DEF k, e
  <1>4. BulkStep(j, k, e)
    BY <1>2, <1>3 DEF BulkStep
  <1>5. Sound(j, k, e)
    BY <1>1, <1>3, <1>4, BulkSound
  <1>6. Calls(c)
    BY <1>3, <1>5 DEF Calls, k, e
  <1> QED
    BY <1>6, CallKeeps

LEMMA MoveManyKeep ==
  ASSUME StoreInv, NEW c \in Clients, MoveObjects(c) \/ CopyObjects(c)
  PROVE  Kept(c)
  <1> DEFINE j == job[c]
             item == Head(j.left)
             to == Stat(tree, j.ask.ref)
             look == Stat(tree, item)
             move(dst) == Move(tree, item, dst)
  <1>1. /\ j.ask.op \in Bulk
        /\ \/ j.step = 1 /\ \E a \in Answers(to) : \E k \in {Learn(j, a), Reply(j, 404)} : Ends(c, to, a, k)
           \/ j.step = 2 /\ (SkipsBadId(c) \/ EndsLoop(c))
           \/ /\ j.step = 2 /\ j.left # <<>>
              /\ \E a \in Answers(look) : \E k \in {Learn(j, a), NextItem(j, 2)} : Ends(c, look, a, k)
           \/ j.step = 3 /\ \E dst : \E a \in Answers(move(dst)) : Ends(c, move(dst), a, NextItem(j, 2))
    <2>1. CASE MoveObjects(c)
      BY <2>1 DEF MoveObjects, Begins, At, Call, LearnOr, Bulk
    <2>2. CASE CopyObjects(c)
      BY <2>2 DEF CopyObjects, Begins, At, Call, LearnOr, Bulk
    <2> QED
      BY <2>1, <2>2
  <1>2. /\ Base(j) /\ TreeOK(tree) /\ (j.left # <<>> /\ j.step # 0 => item \in IdRefs) /\ (j.step = 3 => j.left # <<>>)
    BY <1>1, ListsAre DEF StoreInv, JobOK
  <1>3. CASE j.step = 1
    <2>1. Called(to, "Stat")
      BY <1>2, StatCalled
    <2> HIDE DEF to
    <2>2. PICK a \in Answers(to) : \E k \in {Learn(j, a), Reply(j, 404)} : Ends(c, to, a, k)
      BY <1>1, <1>3
    <2>3. CASE Ends(c, to, a, Learn(j, a))
      BY <1>1, <1>3, <2>1, <2>3, BulkLooksUp
    <2>4. CASE Ends(c, to, a, Reply(j, 404))
      <3>1. Goes(j, Reply(j, 404)) /\ Sound(j, Reply(j, 404), Entry(to, a))
        BY <1>2, <1>3, FailureSound
      <3>2. Calls(c)
        BY <2>1, <2>4, <3>1 DEF Calls
      <3> QED
        BY <1>3, <3>2, CallKeeps
    <2> QED
      BY <2>2, <2>3, <2>4
  <1>4. CASE j.step = 2 /\ (SkipsBadId(c) \/ EndsLoop(c))
    BY <1>1, <1>4, SkipKeeps, LoopEndKeeps
  <1>5. CASE /\ j.step = 2 /\ j.left # <<>>
             /\ \E a \in Answers(look) : \E k \in {Learn(j, a), NextItem(j, 2)} : Ends(c, look, a, k)
    <2>1. Called(look, "Stat") /\ look.did.obj = item.at
      BY <1>2, <1>5, StatCalled, StatTells
    <2> HIDE DEF look
    <2> QED
      BY <1>1, <1>5, <2>1, BulkLooksUp, NextKeeps
  <1>6. CASE j.step = 3
    <2>1. PICK dst : \E a \in Answers(move(dst)) : Ends(c, move(dst), a, NextItem(j, 2))
      BY <1>1, <1>6
    <2>2. Called(move(dst), "Move") /\ j.left # <<>>
      BY <1>2, <1>6, MoveCalled
    <2> HIDE DEF move
    <2> QED
      BY <1>1, <1>6, <2>1, <2>2, NextKeeps
  <1> QED
    BY <1>1, <1>3, <1>4, <1>5, <1>6

(***************************************************************************)
(* The handlers of the browser binding.                                    *)
(***************************************************************************)
LEMMA SimpleKeeps ==
  ASSUME StoreInv, NEW c \in Clients, Simple(job[c].ask), job[c].step # 0,
         NEW r, NEW call, Called(r, call), NEW a \in Answers(r), NEW k, Ends(c, r, a, k),
         Goes(job[c], k), k.says = job[c].says, DoneStep(job[c], k, Entry(r, a))
  PROVE  Kept(c)
  <1>1. Base(job[c]) /\ k.ask = job[c].ask
    BY DEF StoreInv, JobOK, Goes
  <1>2. Sound(job[c], k, Entry(r, a))
    BY <1>1, SimpleSound
  <1>3. Calls(c)
    BY <1>2 DEF Calls
  <1> QED
    BY <1>3, CallKeeps

LEMMA SimpleRests ==
  ASSUME StoreInv, NEW c \in Clients, Simple(job[c].ask), job[c].step # 0,
         NEW k, job' = [job EXCEPT ![c] = k], UNCHANGED <<tree, faults>>,
         Goes(job[c], k), k.says = job[c].says, DoneStep(job[c], k, NoEntry)
  PROVE  Kept(c)
  <1>1. Base(job[c]) /\ k.ask = job[c].ask
    BY DEF StoreInv, JobOK, Goes
  <1>2. Sound(job[c], k, NoEntry) /\ Recalls(k, job[c].log)
    BY <1>1, SimpleSound DEF Recalls, Simple
  <1>3. Rests(c)
    BY <1>2 DEF Rests, Sound
  <1> QED
    BY <1>3, RestKeeps

LEMMA FailureKeeps ==
  ASSUME StoreInv, NEW c \in Clients, job[c].step # 0,
         NEW r, NEW call, Called(r, call), NEW a \in Answers(r), NEW code \in {400, 404, 409, 500},
         Ends(c, r, a, Reply(job[c], code))
  PROVE  Kept(c)
  <1>1. Base(job[c])
    BY DEF StoreInv, JobOK
  <1>2. Goes(job[c], Reply(job[c], code)) /\ Sound(job[c], Reply(job[c], code), Entry(r, a))
    BY <1>1, FailureSound
  <1>3. Calls(c)
    BY <1>2 DEF Calls
  <1> QED
    BY <1>3, CallKeeps

\* The properties of the form, set or not: the request goes on.
LEMMA PropertiesKeep ==
  ASSUME StoreInv, NEW c \in Clients, Simple(job[c].ask), NEW ref, NEW next \in (job[c].step + 1)..9,
         job[c].step # 0, SetProperties(c, ref, next),
         Past(GoTo(job[c], next)) => Past(job[c])
  PROVE  Kept(c)
  <1> DEFINE j == job[c]
             k == GoTo(j, next)
             r == SetMetadata(tree, ref, c)
  <1>1. Base(j) /\ Called(r, "Meta")
    BY MetaCalled DEF StoreInv, JobOK
  <1>2. Goes(j, k) /\ k.says = j.says /\ k.reply = 0
    <2>1. Goes(j, k)
      BY <1>1, Ways
    <2>2. Parts(j, k, next, j.seen, j.left, 0, j.says)
      BY <1>1, PartsAre
    <2> QED
      BY <2>1, <2>2 DEF Parts
  <1> HIDE DEF r
  <1>3. (\E a \in Answers(r) : Ends(c, r, a, k)) \/ (job' = [job EXCEPT ![c] = k] /\ UNCHANGED <<tree, faults>>)
    BY DEF SetProperties, Call, r
  <1> HIDE DEF k
  <1>4. \A e : DoneStep(j, k, e)
    BY <1>2 DEF DoneStep, Success, k
  <1> QED
    BY <1>1, <1>2, <1>3, <1>4, SimpleKeeps, SimpleRests

LEMMA CreateDocumentKeeps ==
  ASSUME StoreInv, NEW c \in Clients, CreateDocument(c)
  PROVE  Kept(c)
  <1> DEFINE j == job[c]
             new == Ref(j.seen[1].id, Split(j.ask.name))
             parent == Stat(tree, Target(c))
             init == Initiate(tree, new)
             put == PutBytes(tree, new, j.seen[2].id, c)
             look == Stat(tree, new)
  <1>1. \/ j.step = 1 /\ \E a \in Answers(parent) : \E k \in {Learn(j, a), Reply(j, 404)} : Ends(c, parent, a, k)
        \/ j.step = 2 /\ \E a \in Answers(init) :
             \E k \in {GoTo(Learn(j, a), 3), GoTo(Learn(j, a), 4), Reply(j, 500)} : Ends(c, init, a, k)
        \/ j.step = 3 /\ \E a \in Answers(put) : \E k \in {GoTo(j, 4), Reply(j, 500)} : Ends(c, put, a, k)
        \/ j.step = 4 /\ SetProperties(c, new, 5)
        \/ j.step = 5 /\ \E a \in Answers(look) : Ends(c, look, a, Reply(j, 201))
    BY DEF CreateDocument, Begins, At, Call, LearnOr
  <1>2. IsNeutral(c) /\ Simple(j.ask) /\ \A k : k.ask = j.ask => ~Past(k)
    <2>1. j.ask.op = "CreateDocument" /\ j.step # 0
      BY DEF CreateDocument, Begins, At
    <2> QED
      BY <2>1 DEF IsNeutral, Simple, Decisive, Careful, Bulk, Past
  <1>3. Base(j) /\ Called(parent, "Stat") /\ Called(init, "Initiate") /\ Called(put, "Put") /\ Called(look, "Stat")
    BY StatCalled, LooksCalled, PutCalled DEF StoreInv, JobOK
  <1>4. CASE j.step = 4
    <2>1. GoTo(j, 5).ask = j.ask
      BY <1>3, <1>4, PartsAre DEF Parts
    <2> HIDE DEF new
    <2> QED
      BY <1>1, <1>2, <1>4, <2>1, PropertiesKeep
  <1>5. CASE j.step # 4
    <2> HIDE DEF parent, init, put, look
    <2>1. Asks(c)
      BY <1>1, <1>3, <1>5, Ways DEF Asks, Codes
    <2> QED
      BY <1>2, <2>1, NeutralKeeps
  <1> QED
    BY <1>4, <1>5

LEMMA CreateFolderKeeps ==
  ASSUME StoreInv, NEW c \in Clients, CreateFolder(c)
  PROVE  Kept(c)
  <1> DEFINE j == job[c]
             ref == NewCmisFolderRef(c)
             parent == Stat(tree, Target(c))
             make == CreateContainer(tree, ref)
             look == Stat(tree, ref)
  <1>1. \/ j.step = 1 /\ \E a \in Answers(parent) : \E k \in {Learn(j, a), Reply(j, 404)} : Ends(c, parent, a, k)
        \/ /\ j.step \in 1..2
           /\ \E a \in Answers(make) : \E k : /\ Ends(c, make, a, k)
                                              /\ \/ a.code = "OK" /\ k = GoTo(j, 3)
                                                 \/ k \in {Reply(j, 409), Reply(j, 500)}
        \/ j.step = 3 /\ SetProperties(c, ref, 4)
        \/ j.step = 4 /\ \E a \in Answers(look) : Ends(c, look, a, Reply(j, 201))
    BY DEF CreateFolder, Begins, At, Call, LearnOr
  <1>2. j.ask.op = "CreateFolder" /\ Simple(j.ask) /\ j.step \in 1..4
    <2>1. j.ask.op = "CreateFolder" /\ j.step \in 1..4
      BY DEF CreateFolder, Begins, At
    <2> QED
      BY <2>1 DEF Simple, Bulk
  <1>3. /\ Base(j) /\ TreeOK(tree) /\ faults \in 0..MaxFaults
        /\ Called(parent, "Stat") /\ Called(make, "Create") /\ Called(look, "Stat")
    BY StatCalled, CreateCalled DEF StoreInv, JobOK
  <1> HIDE DEF ref, parent, make, look
  <1>4. CASE j.step = 1 /\ \E a \in Answers(parent) : \E k \in {Learn(j, a), Reply(j, 404)} : Ends(c, parent, a, k)
    <2>1. PICK a \in Answers(parent) : \E k \in {Learn(j, a), Reply(j, 404)} : Ends(c, parent, a, k)
      BY <1>4
    <2>2. /\ Goes(j, Learn(j, a)) /\ Learn(j, a).says = j.says
          /\ Learn(j, a).ask = j.ask /\ Learn(j, a).step = 2 /\ Learn(j, a).reply = 0
      BY <1>3, <1>4, Ways, PartsAre DEF Parts
    <2>3. DoneStep(j, Learn(j, a), Entry(parent, a))
      BY <1>2, <2>2 DEF DoneStep, Success, Past
    <2> QED
      BY <1>2, <1>3, <2>1, <2>2, <2>3, SimpleKeeps, FailureKeeps
  <1>5. CASE /\ j.step \in 1..2
             /\ \E a \in Answers(make) : \E k : /\ Ends(c, make, a, k)
                                                /\ \/ a.code = "OK" /\ k = GoTo(j, 3)
                                                   \/ k \in {Reply(j, 409), Reply(j, 500)}
    <2>1. PICK a \in Answers(make) : \/ a.code = "OK" /\ Ends(c, make, a, GoTo(j, 3))
                                     \/ \E code \in {409, 500} : Ends(c, make, a, Reply(j, code))
      BY <1>5
    <2>2. CASE a.code = "OK" /\ Ends(c, make, a, GoTo(j, 3))
      <3>1. a = make /\ Entry(make, a) = make.did /\ make.did.code = "OK" /\ make.did.call = "Create"
        BY <1>3, <2>2, AnswerOK DEF Called
      <3>2. DoneStep(j, GoTo(j, 3), Entry(make, a))
        BY <1>2, <3>1 DEF DoneStep, Decides, Decisive, Right
      <3>3. Goes(j, GoTo(j, 3)) /\ GoTo(j, 3).says = j.says
        BY <1>3, <1>5, Ways, PartsAre DEF Parts
      <3> QED
        BY <1>2, <1>3, <2>2, <3>2, <3>3, SimpleKeeps
    <2> QED
      BY <1>2, <1>3, <2>1, <2>2, FailureKeeps
  <1>6. CASE j.step = 3 /\ SetProperties(c, ref, 4)
    <2>1. Past(j)
      BY <1>2, <1>6 DEF Past
    <2> QED
      BY <1>2, <1>6, <2>1, PropertiesKeep
  <1>7. CASE j.step = 4 /\ \E a \in Answers(look) : Ends(c, look, a, Reply(j, 201))
    <2>1. \A e : DoneStep(j, Reply(j, 201), e)
      BY <1>2, <1>7 DEF DoneStep, Past
    <2>2. Goes(j, Reply(j, 201)) /\ Reply(j, 201).says = j.says
      BY <1>3, <1>7, Ways, PartsAre DEF Parts, Codes
    <2> QED
      BY <1>2, <1>3, <1>7, <2>1, <2>2, SimpleKeeps
  <1> QED
    BY <1>1, <1>4, <1>5, <1>6, <1>7

LEMMA UpdatePropertiesKeeps ==
  ASSUME StoreInv, NEW c \in Clients, UpdateProperties(c)
  PROVE  Kept(c)
  <1> DEFINE j == job[c]
             look == Stat(tree, Target(c))
             move == Move(tree, Target(c), Ref(j.seen[1].parent, Split(j.ask.name)))
             meta == SetMetadata(tree, Target(c), c)
  <1>1. \/ j.step = 1 /\ UNCHANGED <<tree, faults>> /\ \E n \in 3..4 : job' = [job EXCEPT ![c] = GoTo(j, n)]
        \/ j.step = 1 /\ \E a \in Answers(look) : \E k \in {Learn(j, a), GoTo(j, 3), GoTo(j, 4)} : Ends(c, look, a, k)
        \/ j.step = 2 /\ \E a \in Answers(move) : \E k \in {GoTo(j, 3), GoTo(j, 4)} : Ends(c, move, a, k)
        \/ j.step = 3 /\ \E a \in Answers(meta) : \E k \in {GoTo(j, 4), Reply(j, 500)} : Ends(c, meta, a, k)
        \/ j.step = 4 /\ \E a \in Answers(look) : Ends(c, look, a, Honest(j, a))
    BY DEF UpdateProperties, Begins, At, Call, AfterRename
  <1>2. j.ask.op = "UpdateProperties" /\ Simple(j.ask) /\ j.step \in 1..4
    <2>1. j.ask.op = "UpdateProperties" /\ j.step \in 1..4
      BY DEF UpdateProperties, Begins, At
    <2> QED
      BY <2>1 DEF Simple, Bulk
  <1>3. /\ Base(j) /\ TreeOK(tree) /\ faults \in 0..MaxFaults
        /\ Called(look, "Stat") /\ Called(move, "Move") /\ Called(meta, "Meta")
    BY StatCalled, MoveCalled, MetaCalled DEF StoreInv, JobOK
  <1>4. \A k, e : DoneStep(j, k, e)
    BY <1>2 DEF DoneStep, Decisive
  <1> HIDE DEF look, move, meta
  <1>5. CASE j.step # 4
    <2>1. /\ \A a : j.step = 1 => Goes(j, Learn(j, a)) /\ Learn(j, a).says = j.says
          /\ \A n \in (j.step + 1)..9 : Goes(j, GoTo(j, n)) /\ GoTo(j, n).says = j.says
      BY <1>2, <1>3, Ways, PartsAre DEF Parts
    <2> QED
      BY <1>1, <1>2, <1>3, <1>4, <1>5, <2>1, SimpleKeeps, SimpleRests, FailureKeeps
  <1>6. CASE j.step = 4
    <2>1. PICK a \in Answers(look) : Ends(c, look, a, Honest(j, a))
      BY <1>1, <1>6
    <2>2. Goes(j, Honest(j, a)) /\ HonestStep(j, a, Entry(look, a))
      BY <1>3, <1>6, HonestTells
    <2>3. Sound(j, Honest(j, a), Entry(look, a))
      BY <1>2, <1>4, <2>2 DEF Sound, HonestStep, BulkStep, Recalls, Bulk
    <2>4. Calls(c)
      BY <1>3, <2>1, <2>2, <2>3 DEF Calls
    <2> QED
      BY <1>6, <2>4, CallKeeps
  <1> QED
    BY <1>5, <1>6

LEMMA DeleteObjectKeeps ==
  ASSUME StoreInv, NEW c \in Clients, DeleteObject(c)
  PROVE  Kept(c)
  <1> DEFINE j == job[c]
             r == Delete(tree, Target(c))
             k == Says(j, 404, "absent")
  <1>1. j.ask.op = "DeleteObject" /\ Simple(j.ask) /\ j.step = 1
    <2>1. j.ask.op = "DeleteObject" /\ j.step = 1
      BY DEF DeleteObject, Begins, At
    <2> QED
      BY <2>1 DEF Simple, Bulk
  <1>2. Base(j) /\ TreeOK(tree) /\ faults \in 0..MaxFaults /\ Called(r, "Delete")
    BY DeleteCalled DEF StoreInv, JobOK
  <1>3. PICK a \in Answers(r) : \/ Ends(c, r, a, OkOr(j, a, 204, 500))
                                \/ a.code = "NOT_FOUND" /\ Ends(c, r, a, k)
    BY DEF DeleteObject, Call, OkOr
  <1> HIDE DEF r
  <1>4. CASE Ends(c, r, a, OkOr(j, a, 204, 500))
    BY <1>1, <1>2, <1>4, DecisiveKeeps DEF Decisive, Right
  <1>5. CASE a.code = "NOT_FOUND" /\ Ends(c, r, a, k)
    <2>1. Entry(r, a).code = "NOT_FOUND"
      BY <1>2, <1>5, AnswerOK
    <2>2. Goes(j, k)
      BY <1>1, <1>2, Ways DEF Codes
    <2>3. Parts(j, k, 0, <<>>, <<>>, 404, "absent")
      BY <1>1, <1>2, PartsAre
    <2> HIDE DEF k
    <2>4. Sound(j, k, Entry(r, a))
      BY <1>1, <2>1, <2>3 DEF Parts, Sound, DoneStep, ToldStep, BulkStep, Recalls, Success, Past, Bulk
    <2>5. Calls(c)
      BY <1>2, <1>5, <2>2, <2>4 DEF Calls
    <2> QED
      BY <1>1, <2>5, CallKeeps
  <1> QED
    BY <1>3, <1>4, <1>5

LEMMA SetContentStreamKeeps ==
  ASSUME StoreInv, NEW c \in Clients, SetContentStream(c)
  PROVE  Kept(c)
  <1> DEFINE j == job[c]
             init == Initiate(tree, Target(c))
             put == PutBytes(tree, Target(c), j.seen[1].id, c)
             look == Stat(tree, Target(c))
  <1>1. \/ j.step = 1 /\ \E a \in Answers(init) : \E k \in {Learn(j, a), Reply(j, 500)} : Ends(c, init, a, k)
        \/ /\ j.step = 2
           /\ \E a \in Answers(put) : (a.code = "OK" /\ Ends(c, put, a, GoTo(j, 3))) \/ Ends(c, put, a, Reply(j, 500))
        \/ j.step = 3 /\ \E a \in Answers(look) : Ends(c, look, a, Honest(j, a))
    BY DEF SetContentStream, InitiateContent, Begins, At, Call, LearnOr
  <1>2. j.ask.op = "SetContentStream" /\ Simple(j.ask)
    <2>1. j.ask.op = "SetContentStream"
      BY DEF SetContentStream, Begins, At
    <2> QED
      BY <2>1 DEF Simple, Bulk
  <1>3. /\ Base(j) /\ TreeOK(tree) /\ faults \in 0..MaxFaults
        /\ Called(init, "Initiate") /\ Called(put, "Put") /\ Called(look, "Stat")
    BY StatCalled, LooksCalled, PutCalled DEF StoreInv, JobOK
  <1> HIDE DEF init, put, look
  <1>4. CASE j.step = 1
    <2>1. PICK a \in Answers(init) : \E k \in {Learn(j, a), Reply(j, 500)} : Ends(c, init, a, k)
      BY <1>1, <1>4
    <2>2. /\ Goes(j, Learn(j, a)) /\ Learn(j, a).says = j.says
          /\ Learn(j, a).ask = j.ask /\ Learn(j, a).step = 2 /\ Learn(j, a).reply = 0
      BY <1>3, <1>4, Ways, PartsAre DEF Parts
    <2>3. DoneStep(j, Learn(j, a), Entry(init, a))
      BY <1>2, <2>2 DEF DoneStep, Success, Past
    <2> QED
      BY <1>2, <1>3, <1>4, <2>1, <2>2, <2>3, SimpleKeeps, FailureKeeps
  <1>5. CASE j.step = 2
    <2>1. PICK a \in Answers(put) :
            (a.code = "OK" /\ Ends(c, put, a, GoTo(j, 3))) \/ Ends(c, put, a, Reply(j, 500))
      BY <1>1, <1>5
    <2>2. CASE a.code = "OK" /\ Ends(c, put, a, GoTo(j, 3))
      <3>1. a = put /\ Entry(put, a) = put.did /\ put.did.code = "OK" /\ put.did.call = "Put"
        BY <1>3, <2>2, AnswerOK DEF Called
      <3>2. DoneStep(j, GoTo(j, 3), Entry(put, a))
        BY <1>2, <3>1 DEF DoneStep, Decides, Decisive, Right
      <3>3. Goes(j, GoTo(j, 3)) /\ GoTo(j, 3).says = j.says
        BY <1>3, <1>5, Ways, PartsAre DEF Parts
      <3> QED
        BY <1>2, <1>3, <1>5, <2>2, <3>2, <3>3, SimpleKeeps
    <2> QED
      BY <1>2, <1>3, <1>5, <2>1, <2>2, FailureKeeps
  <1>6. CASE j.step = 3
    <2>1. PICK a \in Answers(look) : Ends(c, look, a, Honest(j, a))
      BY <1>1, <1>6
    <2>2. Goes(j, Honest(j, a)) /\ HonestStep(j, a, Entry(look, a))
      BY <1>3, <1>6, HonestTells
    <2>3. Sound(j, Honest(j, a), Entry(look, a))
      BY <1>2, <1>6, <2>2 DEF Sound, DoneStep, Past, HonestStep, BulkStep, Recalls, Bulk
    <2>4. Calls(c)
      BY <1>3, <2>1, <2>2, <2>3 DEF Calls
    <2> QED
      BY <1>6, <2>4, CallKeeps
  <1> QED
    BY <1>1, <1>4, <1>5, <1>6

LEMMA StatFinds ==
  ASSUME TreeOK(tree), NEW ref, Stat(tree, ref).code = "OK"
  PROVE  Stat(tree, ref).info.id # NoId
  <1> DEFINE o == Resolve(tree, ref)
             r == Result("Stat", "NOT_FOUND", tree, NoId)
  <1>1. CASE o \in Ids
    BY <1>1, ResultOK, StoreIds DEF Stat
  <1>2. CASE o \notin Ids
    <2>1. Stat(tree, ref) = [r EXCEPT !.did.obj = ref.at] /\ r.code = "NOT_FOUND" /\ Called(r, "Stat")
      BY <1>2, ResultOK DEF Stat
    <2> HIDE DEF r
    <2> QED
      BY <2>1 DEF Called
  <1> QED
    BY <1>1, <1>2

\* MoveObject remembers the name of the object and the folder's id.
LEMMA MoveObjectKeeps ==
  ASSUME StoreInv, NEW c \in Clients, MoveObject(c)
  PROVE  Kept(c)
  <1> DEFINE j == job[c]
             dst == Ref(j.seen[2].id, <<j.seen[1].name>>)
             from == Stat(tree, Target(c))
             to == Stat(tree, j.ask.dst)
             move == Move(tree, Target(c), dst)
             look == Stat(tree, dst)
  <1>1. \/ /\ j.step = 1
           /\ \E a \in Answers(from) : \/ \E code \in {400, 404} : Ends(c, from, a, Reply(j, code))
                                       \/ a.code = "OK" /\ Ends(c, from, a, Learn(j, a))
        \/ /\ j.step = 2
           /\ \E a \in Answers(to) : Ends(c, to, a, Reply(j, 404)) \/ (a.code = "OK" /\ Ends(c, to, a, Learn(j, a)))
        \/ /\ j.step = 3
           /\ \E a \in Answers(move) : \/ Ends(c, move, a, Reply(j, 500))
                                       \/ a.code = "OK" /\ Ends(c, move, a, GoTo(j, 4))
        \/ j.step = 4 /\ \E a \in Answers(look) : Ends(c, look, a, Reply(j, 200))
    BY DEF MoveObject, Begins, At, Call, LearnOr
  <1>2. j.ask.op = "MoveObject" /\ j.ask.op \notin Bulk \cup Careful
    <2>1. j.ask.op = "MoveObject"
      BY DEF MoveObject, Begins, At
    <2> QED
      BY <2>1 DEF Bulk, Careful
  <1>3. /\ Base(j) /\ TreeOK(tree) /\ faults \in 0..MaxFaults /\ Recalls(j, j.log) /\ j.ask.dst \in IdRefs
        /\ Called(from, "Stat") /\ Called(to, "Stat") /\ Called(move, "Move") /\ Called(look, "Stat")
    BY <1>2, StatCalled, MoveCalled DEF StoreInv, JobOK, AskOK
  <1>4. to.did.obj = j.ask.dst.at
    BY <1>3, StatTells
  <1>9. (from.code = "OK" => from.info.id # NoId) /\ (to.code = "OK" => to.info.id # NoId)
    BY <1>3, StatFinds
  <1>5. move.code = "OK" => move.did.into = j.seen[2].id /\ move.did.name = j.seen[1].name
    BY <1>3, MoveTells
  <1> HIDE DEF from, to, move, look, dst
  \* With neither list nor claim of absence, two parts are left to show.
  <1>6. ASSUME j.step # 0, NEW r, NEW call, Called(r, call), NEW a \in Answers(r), NEW k, Ends(c, r, a, k), Goes(j, k),
               DoneStep(j, k, Entry(r, a)), Recalls(k, j.log \cup {Entry(r, a)})
        PROVE  Kept(c)
    <2>1. k.ask = j.ask
      BY <1>6 DEF Goes
    <2>2. Sound(j, k, Entry(r, a))
      BY <1>2, <1>6, <2>1 DEF Sound, ToldStep, BulkStep
    <2>3. Calls(c)
      BY <1>6, <2>2 DEF Calls
    <2> QED
      BY <1>6, <2>3, CallKeeps
  <1>7. ASSUME NEW r, Called(r, "Stat"), NEW a \in Answers(r), a.code = "OK"
        PROVE  /\ Entry(r, a).call = "Stat" /\ Entry(r, a).code = "OK"
               /\ Entry(r, a).name = a.info.name \/ a.info.id = NoId
               /\ a.info.id # NoId => a.info.id = Entry(r, a).obj
    BY <1>3, <1>7, AnswerOK DEF Called
  <1>8. CASE j.step = 1
    <2>1. PICK a \in Answers(from) : \/ \E code \in {400, 404} : Ends(c, from, a, Reply(j, code))
                                     \/ a.code = "OK" /\ Ends(c, from, a, Learn(j, a))
      BY <1>1, <1>8
    <2>2. CASE a.code = "OK" /\ Ends(c, from, a, Learn(j, a))
      <3>1. /\ from.info.id # NoId /\ a.info = from.info
            /\ Entry(from, a).call = "Stat" /\ Entry(from, a).code = "OK" /\ Entry(from, a).name = a.info.name
        BY <1>3, <1>7, <1>9, <2>2, AnswerOK
      <3>2. Parts(j, Learn(j, a), 2, Append(j.seen, a.info), j.left, 0, j.says) /\ Goes(j, Learn(j, a))
        BY <1>3, <1>8, PartsAre, Ways
      <3>3. Append(j.seen, a.info) = <<a.info>>
        BY <1>2, <1>3, <1>8, ShortSeqs, Appended DEF Recalls
      <3>4. PICK k : k = Learn(j, a)
        OBVIOUS
      <3>5. k.seen = <<a.info>> /\ k.step = 2 /\ k.reply = 0 /\ k.ask = j.ask
        BY <3>2, <3>3, <3>4 DEF Parts
      <3>6. Recalls(k, j.log \cup {Entry(from, a)})
        BY <1>2, <3>1, <3>5 DEF Recalls
      <3>7. DoneStep(j, k, Entry(from, a))
        BY <1>2, <3>5 DEF DoneStep, Success, Past
      <3> QED
        BY <1>3, <1>6, <1>8, <2>2, <3>2, <3>4, <3>6, <3>7
    <2> QED
      BY <1>3, <1>8, <2>1, <2>2, FailureKeeps
  <1>10. CASE j.step = 2
    <2>1. PICK a \in Answers(to) : Ends(c, to, a, Reply(j, 404)) \/ (a.code = "OK" /\ Ends(c, to, a, Learn(j, a)))
      BY <1>1, <1>10
    <2>2. CASE a.code = "OK" /\ Ends(c, to, a, Learn(j, a))
      <3>1. to.info.id # NoId /\ a.info = to.info /\ a.info.id = j.ask.dst.at
        BY <1>3, <1>4, <1>7, <1>9, <2>2, AnswerOK
      <3>2. Parts(j, Learn(j, a), 3, Append(j.seen, a.info), j.left, 0, j.says) /\ Goes(j, Learn(j, a))
        BY <1>3, <1>10, PartsAre, Ways
      <3>3. PICK i : /\ j.seen = <<i>>
                     /\ \E s \in j.log : s.call = "Stat" /\ s.code = "OK" /\ s.name = i.name
        BY <1>2, <1>3, <1>10 DEF Recalls
      <3>4. PICK k : k = Learn(j, a)
        OBVIOUS
      <3>5. k.seen = <<i, a.info>> /\ k.step = 3 /\ k.reply = 0 /\ k.ask = j.ask
        BY <3>2, <3>3, <3>4 DEF Parts
      <3>6. Recalls(k, j.log \cup {Entry(to, a)})
        BY <1>2, <3>1, <3>3, <3>5 DEF Recalls
      <3>7. DoneStep(j, k, Entry(to, a))
        BY <1>2, <3>5 DEF DoneStep, Success, Past
      <3> QED
        BY <1>3, <1>6, <1>10, <2>2, <3>2, <3>4, <3>6, <3>7
    <2> QED
      BY <1>3, <1>10, <2>1, <2>2, FailureKeeps
  <1>11. CASE j.step = 3
    <2>1. PICK a \in Answers(move) :
            Ends(c, move, a, Reply(j, 500)) \/ (a.code = "OK" /\ Ends(c, move, a, GoTo(j, 4)))
      BY <1>1, <1>11
    <2>2. CASE a.code = "OK" /\ Ends(c, move, a, GoTo(j, 4))
      <3>1. a = move /\ Entry(move, a) = move.did /\ move.did.code = "OK" /\ move.did.call = "Move"
        BY <1>3, <2>2, AnswerOK DEF Called
      <3>2. PICK i, d : /\ j.seen = <<i, d>> /\ d.id = j.ask.dst.at
                        /\ \E s \in j.log : s.call = "Stat" /\ s.code = "OK" /\ s.name = i.name
        BY <1>2, <1>3, <1>11 DEF Recalls
      <3>3. Right(j.ask, j.log, move.did)
        BY <1>2, <1>5, <2>2, <3>1, <3>2 DEF Right
      <3>4. Parts(j, GoTo(j, 4), 4, j.seen, j.left, 0, j.says) /\ Goes(j, GoTo(j, 4))
        BY <1>3, <1>11, PartsAre, Ways
      <3>5. Recalls(GoTo(j, 4), j.log \cup {Entry(move, a)})
        BY <1>2, <3>4 DEF Recalls, Parts
      <3>6. DoneStep(j, GoTo(j, 4), Entry(move, a))
        BY <1>2, <3>1, <3>3 DEF DoneStep, Decides, Decisive
      <3> QED
        BY <1>3, <1>6, <1>11, <2>2, <3>4, <3>5, <3>6
    <2> QED
      BY <1>3, <1>11, <2>1, <2>2, FailureKeeps
  <1>12. CASE j.step = 4
    <2>1. PICK a \in Answers(look) : Ends(c, look, a, Reply(j, 200))
      BY <1>1, <1>12
    <2>2. Goes(j, Reply(j, 200)) /\ Parts(j, Reply(j, 200), 0, <<>>, <<>>, 200, j.says)
      BY <1>3, <1>12, Ways, PartsAre DEF Codes
    <2>3. DoneStep(j, Reply(j, 200), Entry(look, a)) /\ Recalls(Reply(j, 200), j.log \cup {Entry(look, a)})
      BY <1>2, <1>12, <2>2 DEF DoneStep, Past, Recalls, Parts
    <2> QED
      BY <1>3, <1>6, <1>12, <2>1, <2>2, <2>3
  <1> QED
    BY <1>1, <1>8, <1>10, <1>11, <1>12

LEMMA CmisKeep ==
  ASSUME StoreInv, NEW c \in Clients, CmisStep(c)
  PROVE  Kept(c)
  BY BadIdKeeps, CreateDocumentKeeps, CreateFolderKeeps, UpdatePropertiesKeeps, DeleteObjectKeeps,
     MoveObjectKeeps, SetContentStreamKeeps, StraightKeeps DEF CmisStep

LEMMA DmsKeep ==
  ASSUME StoreInv, NEW c \in Clients, DmsStep(c)
  PROVE  Kept(c)
  BY BadIdKeeps, SetFolderKeeps, StraightKeeps, RenameFolderKeeps, CreateRootFolderKeeps, ManyKeep,
     MoveManyKeep DEF DmsStep

(***************************************************************************)
(* The import, and the check of a migration.                               *)
(***************************************************************************)
LEMMA KnowsParts ==
  ASSUME NEW j, Base(j), j.step # 0, NEW id, NEW step \in (j.step + 1)..9
  PROVE  LET k == Knows(j, id, step)
         IN  Goes(j, k) /\ k.ask = j.ask /\ k.step = step /\ k.reply = 0 /\ Bound(k) = id
  <1>1. PICK info : info = [NoInfo EXCEPT !.id = id]
    OBVIOUS
  <1>2. PICK seen : seen = Append(j.seen, info)
    OBVIOUS
  <1>3. Shape(j) /\ IsSeq(j.seen) /\ j.reply = 0
    BY DEF Base
  <1>4. Knows(j, id, step) = Job(j.ask, step, seen, j.left, j.reply, j.says, j.log) /\ info.id = id
    BY <1>1, <1>2, <1>3, KnowsAre
  <1>5. Last(seen) = info
    BY <1>2, <1>3, Appended
  <1>6. PICK k : k = Knows(j, id, step)
    OBVIOUS
  <1>7. k.ask = j.ask /\ k.step = step /\ k.reply = 0 /\ k.seen = seen
    BY <1>3, <1>4, <1>6, JobsAre
  <1>8. Bound(k) = id
    BY <1>4, <1>5, <1>7 DEF Bound
  <1>9. Goes(j, k)
    BY <1>6, Ways
  <1> QED
    BY <1>6, <1>7, <1>8, <1>9

\* A step of an import that goes on, with a call and without.
Onward(j, k, e) ==
  /\ Goes(j, k) /\ k.reply = 0
  /\ Past(k) => Past(j) \/ Decides(j.ask, j.log, e)
  /\ Recalls(k, j.log \cup {e})

LEMMA ImportKeeps ==
  ASSUME StoreInv, NEW c \in Clients, job[c].ask.op = "Import", job[c].step # 0,
         NEW r, NEW call, Called(r, call), NEW a \in Answers(r), NEW k, Ends(c, r, a, k),
         Onward(job[c], k, Entry(r, a))
  PROVE  Kept(c)
  <1>1. k.ask = job[c].ask /\ Goes(job[c], k)
    BY DEF Onward, Goes
  <1>2. DoneStep(job[c], k, Entry(r, a)) /\ ToldStep(job[c], k, Entry(r, a)) /\ BulkStep(job[c], k, Entry(r, a))
    BY DEF Onward, DoneStep, ToldStep, BulkStep, Success, Careful, Bulk
  <1>3. Calls(c)
    BY <1>1, <1>2 DEF Calls, Sound, Onward
  <1> QED
    BY <1>3, CallKeeps

\* On the way from one step to a later one, with what it knows or with more.
LEMMA OnwardGoes ==
  ASSUME NEW j, Base(j), j.ask.op = "Import", j.step # 0, NEW e, NEW step \in (j.step + 1)..9,
         step \in 6..9 => Past(j) \/ Decides(j.ask, j.log, e),
         step \in 4..9 => Bound(j) \in Ids \cup {NoId},
         step \in 4..5 => Recalls(j, j.log) /\ j.step \in 4..5
  PROVE  Onward(j, GoTo(j, step), e)
  <1>1. PICK k : k = GoTo(j, step)
    OBVIOUS
  <1>2. Goes(j, k) /\ k.ask = j.ask /\ k.step = step /\ k.reply = 0 /\ k.seen = j.seen
    BY <1>1, Ways, PartsAre DEF Parts
  <1>3. Bound(k) = Bound(j)
    BY <1>2 DEF Bound
  <1>4. Past(k) => Past(j) \/ Decides(j.ask, j.log, e)
    BY <1>2 DEF Past
  <1>5. Recalls(k, j.log \cup {e})
    BY <1>2, <1>3 DEF Recalls
  <1> QED
    BY <1>1, <1>2, <1>4, <1>5 DEF Onward

LEMMA OnwardKnows ==
  ASSUME NEW j, Base(j), j.ask.op = "Import", j.step # 0, NEW e, NEW step \in (j.step + 1)..9,
         step \in 6..9 => Past(j) \/ Decides(j.ask, j.log, e),
         NEW id, step \in 4..9 => id \in Ids \cup {NoId},
         step \in 4..5 /\ j.ask.ref # Nowhere /\ id # NoId
           => e.obj = id /\ e.call = "Initiate" /\ e.into = j.ask.ref.at /\ e.name = j.ask.name
  PROVE  Onward(j, Knows(j, id, step), e)
  <1>1. PICK k : k = Knows(j, id, step)
    OBVIOUS
  <1>2. Goes(j, k) /\ k.ask = j.ask /\ k.step = step /\ k.reply = 0 /\ Bound(k) = id
    BY <1>1, KnowsParts
  <1>3. Past(k) => Past(j) \/ Decides(j.ask, j.log, e)
    BY <1>2 DEF Past
  <1>4. Recalls(k, j.log \cup {e})
    BY <1>2 DEF Recalls
  <1> QED
    BY <1>1, <1>2, <1>3, <1>4 DEF Onward

\* Below the folder asked for, an upload goes to its id with the whole name.
LEMMA UploadsTo ==
  ASSUME NEW j, j.ask.ref # Nowhere
  PROVE  UploadRef(j) = Ref(j.ask.ref.at, <<j.ask.name>>)
  BY DEF UploadRef, GivenTarget, Escaped

LEMMA ChooseTargetKeeps ==
  ASSUME StoreInv, NEW c \in Clients, ChooseTarget(c)
  PROVE  Kept(c)
  <1> DEFINE j == job[c]
             r == ListSpaces(tree)
  <1>1. /\ j.step = 1 /\ j.ask.op = "Import"
        /\ \E a \in Answers(r) : Ends(c, r, a, Knows(j, AutoTarget(tree), 2)) \/ Ends(c, r, a, Reply(j, 500))
    BY DEF ChooseTarget, At, Call
  <1>2. Base(j) /\ Called(r, "Spaces")
    BY LooksCalled DEF StoreInv, JobOK
  <1> HIDE DEF r
  <1>3. \A e : Onward(j, Knows(j, AutoTarget(tree), 2), e)
    BY <1>1, <1>2, OnwardGoes, OnwardKnows
  <1> QED
    BY <1>1, <1>2, <1>3, ImportKeeps, FailureKeeps

LEMMA InitiateKeeps ==
  ASSUME StoreInv, NEW c \in Clients, InitiateUpload(c)
  PROVE  Kept(c)
  <1> DEFINE j == job[c]
             r == Initiate(tree, UploadRef(j))
  <1>1. /\ j.step \in 1..3 /\ j.ask.op = "Import"
        /\ \E a \in Answers(r) : \/ a.code = "OK" /\ Ends(c, r, a, Knows(j, a.info.id, 4))
                                 \/ j.step # 3 /\ Ends(c, r, a, GoTo(j, 3))
                                 \/ Ends(c, r, a, Reply(j, 500))
    BY DEF InitiateUpload, At, Call
  <1>2. Base(j) /\ TreeOK(tree) /\ faults \in 0..MaxFaults /\ Called(r, "Initiate")
    BY LooksCalled DEF StoreInv, JobOK
  <1>3. j.ask.ref # Nowhere /\ r.info.id # NoId
          => r.did.obj = r.info.id /\ r.did.into = j.ask.ref.at /\ r.did.name = j.ask.name
    <2>1. j.ask.ref # Nowhere => r = Initiate(tree, Ref(j.ask.ref.at, <<j.ask.name>>))
      BY UploadsTo
    <2>2. r.info.id \in Ids \cup {NoId}
      BY <1>2 DEF Called
    <2> HIDE DEF r
    <2> QED
      BY <1>2, <2>1, <2>2, InitiateTells
  <1> HIDE DEF r
  <1>4. PICK a \in Answers(r) : \/ a.code = "OK" /\ Ends(c, r, a, Knows(j, a.info.id, 4))
                                \/ j.step # 3 /\ Ends(c, r, a, GoTo(j, 3))
                                \/ Ends(c, r, a, Reply(j, 500))
    BY <1>1
  <1>5. CASE a.code = "OK" /\ Ends(c, r, a, Knows(j, a.info.id, 4))
    <2>1. a.info = r.info /\ Entry(r, a) = r.did /\ r.did.call = "Initiate" /\ r.info.id \in Ids \cup {NoId}
      BY <1>2, <1>5, AnswerOK DEF Called
    <2>2. Onward(j, Knows(j, a.info.id, 4), Entry(r, a))
      BY <1>1, <1>2, <1>3, <2>1, OnwardGoes, OnwardKnows
    <2> QED
      BY <1>1, <1>2, <1>5, <2>2, ImportKeeps
  <1>6. CASE j.step # 3 /\ Ends(c, r, a, GoTo(j, 3))
    <2>1. Onward(j, GoTo(j, 3), Entry(r, a))
      BY <1>1, <1>2, <1>6, OnwardGoes, OnwardKnows
    <2> QED
      BY <1>1, <1>2, <1>6, <2>1, ImportKeeps
  <1> QED
    BY <1>1, <1>2, <1>4, <1>5, <1>6, FailureKeeps

LEMMA UploadKeeps ==
  ASSUME StoreInv, NEW c \in Clients, TrySimpleUpload(c) \/ TryTUSUpload(c)
  PROVE  Kept(c)
  <1> DEFINE j == job[c]
             r == PutBytes(tree, UploadRef(j), Bound(j), c)
  <1>1. /\ j.step \in 4..5 /\ j.ask.op = "Import"
        /\ \E a \in Answers(r) :
             \/ a.code = "OK" /\ Ends(c, r, a, Knows(j, a.info.id, 8))
             \/ a.code = "OK" /\ Ends(c, r, a, Knows(j, NoId, 6))
             \/ j.step = 4 /\ Ends(c, r, a, GoTo(j, 5))
             \/ Ends(c, r, a, Reply(j, 500))
    <2> USE DEF At, Call, Stored
    <2>1. CASE TrySimpleUpload(c)
      BY <2>1 DEF TrySimpleUpload
    <2>2. CASE TryTUSUpload(c)
      BY <2>2 DEF TryTUSUpload, AfterTUS
    <2> QED
      BY <2>1, <2>2
  <1>2. Base(j) /\ TreeOK(tree) /\ faults \in 0..MaxFaults /\ Called(r, "Put") /\ Recalls(j, j.log)
    BY PutCalled DEF StoreInv, JobOK
  <1>3. /\ Bound(j) \in Ids \cup {NoId}
        /\ j.ask.ref # Nowhere /\ Bound(j) # NoId
             => \E i \in j.log : i.obj = Bound(j) /\ i.call = "Initiate" /\ i.into = j.ask.ref.at /\ i.name = j.ask.name
    BY <1>1, <1>2 DEF Recalls
  <1>4. r.code = "OK" => Right(j.ask, j.log, r.did)
    <2>1. ASSUME j.ask.ref # Nowhere, r.code = "OK"
          PROVE  IF Bound(j) = NoId THEN r.did.into = j.ask.ref.at /\ r.did.name = j.ask.name
                 ELSE r.did.obj = Bound(j)
      <3>1. r = PutBytes(tree, Ref(j.ask.ref.at, <<j.ask.name>>), Bound(j), c)
        BY <2>1, UploadsTo
      <3>2. PICK obj : obj = Bound(j)
        OBVIOUS
      <3> HIDE DEF r
      <3> QED
        BY <1>2, <1>3, <2>1, <3>1, <3>2, PutTells
    <2> HIDE DEF r
    <2> QED
      BY <1>1, <1>3, <2>1 DEF Right
  <1> HIDE DEF r
  <1>5. PICK a \in Answers(r) :
             \/ a.code = "OK" /\ Ends(c, r, a, Knows(j, a.info.id, 8))
             \/ a.code = "OK" /\ Ends(c, r, a, Knows(j, NoId, 6))
             \/ j.step = 4 /\ Ends(c, r, a, GoTo(j, 5))
             \/ Ends(c, r, a, Reply(j, 500))
    BY <1>1
  <1>6. a.code = "OK" => Decides(j.ask, j.log, Entry(r, a)) /\ a.info.id \in Ids \cup {NoId}
    <2>1. a.code = "OK" => a = r /\ Entry(r, a) = r.did /\ r.did.code = "OK" /\ r.did.call = "Put"
      BY <1>2, AnswerOK DEF Called
    <2> QED
      BY <1>1, <1>2, <1>4, <2>1 DEF Decides, Decisive, Called
  <1>7. CASE a.code = "OK" /\ Ends(c, r, a, Knows(j, a.info.id, 8))
    <2>1. Onward(j, Knows(j, a.info.id, 8), Entry(r, a))
      <3>1. PICK e : e = Entry(r, a)
        OBVIOUS
      <3>2. PICK id : id = a.info.id
        OBVIOUS
      <3>3. /\ Base(j) /\ j.ask.op = "Import" /\ 8 \in (j.step + 1)..9 /\ j.step # 0
            /\ Decides(j.ask, j.log, e) /\ id \in Ids \cup {NoId}
        BY <1>1, <1>2, <1>6, <1>7, <3>1, <3>2
      <3>4. PICK step : step = 8
        OBVIOUS
      <3>5. step \notin 4..5
        BY <3>4
      <3>6. Onward(j, Knows(j, id, step), e)
        BY <3>3, <3>4, <3>5, OnwardKnows
      <3> QED
        BY <3>1, <3>2, <3>4, <3>6
    <2> QED
      BY <1>1, <1>2, <1>7, <2>1, ImportKeeps
  <1>8. CASE a.code = "OK" /\ Ends(c, r, a, Knows(j, NoId, 6))
    <2>1. Onward(j, Knows(j, NoId, 6), Entry(r, a))
      <3>1. PICK e : e = Entry(r, a)
        OBVIOUS
      <3>2. 6 \in (j.step + 1)..9 /\ j.step # 0 /\ Decides(j.ask, j.log, e)
        BY <1>1, <1>6, <1>8, <3>1
      <3> QED
        BY <1>1, <1>2, <3>1, <3>2, OnwardKnows
    <2> QED
      BY <1>1, <1>2, <1>8, <2>1, ImportKeeps
  <1>9. CASE j.step = 4 /\ Ends(c, r, a, GoTo(j, 5))
    <2>1. Onward(j, GoTo(j, 5), Entry(r, a))
      BY <1>1, <1>2, <1>3, <1>9, OnwardGoes, OnwardKnows
    <2> QED
      BY <1>1, <1>2, <1>9, <2>1, ImportKeeps
  <1> QED
    BY <1>1, <1>2, <1>5, <1>7, <1>8, <1>9, FailureKeeps

\* Behind the upload: the lookup of its id, and its metadata.
LEMMA LookUpKeeps ==
  ASSUME StoreInv, NEW c \in Clients, LookUpUploaded(c)
  PROVE  Kept(c)
  <1> DEFINE j == job[c]
             list == ListSpaces(tree)
             stat == Stat(tree, Ref(Personal, Escaped(j.ask.name)))
  <1>1. /\ j.step \in 6..7 /\ j.ask.op = "Import"
        /\ \/ j.step = 6 /\ \E a \in Answers(list) : \E step \in 7..8 : Ends(c, list, a, GoTo(j, step))
           \/ j.step = 7 /\ \E a \in Answers(stat) :
                               Ends(c, stat, a, Knows(j, a.info.id, 8)) \/ Ends(c, stat, a, GoTo(j, 8))
    BY DEF LookUpUploaded, At, Call
  <1>2. /\ Base(j) /\ TreeOK(tree) /\ faults \in 0..MaxFaults /\ Recalls(j, j.log)
        /\ Called(list, "Spaces") /\ Called(stat, "Stat")
    BY StatCalled, LooksCalled DEF StoreInv, JobOK
  <1> HIDE DEF list, stat
  <1>3. Past(j) /\ Bound(j) \in Ids \cup {NoId}
    BY <1>1, <1>2 DEF Past, Recalls
  <1>4. ASSUME NEW step \in (j.step + 1)..8, step >= 7, NEW e
        PROVE  Onward(j, GoTo(j, step), e) /\ \A id \in Ids \cup {NoId} : Onward(j, Knows(j, id, step), e)
    BY <1>1, <1>2, <1>3, <1>4, OnwardGoes, OnwardKnows
  <1>5. CASE j.step = 6
    BY <1>1, <1>2, <1>4, <1>5, ImportKeeps
  <1>6. CASE j.step = 7
    <2>1. PICK a \in Answers(stat) : Ends(c, stat, a, Knows(j, a.info.id, 8)) \/ Ends(c, stat, a, GoTo(j, 8))
      BY <1>1, <1>6
    <2>2. a.info.id \in Ids \cup {NoId}
      BY <1>2, AnswerOK DEF Called
    <2>3. 8 \in (j.step + 1)..8
      BY <1>6
    <2> QED
      BY <1>1, <1>2, <1>4, <1>6, <2>1, <2>2, <2>3, ImportKeeps
  <1> QED
    BY <1>1, <1>5, <1>6

\* A step of an import without a call.
LEMMA ImportRests ==
  ASSUME StoreInv, NEW c \in Clients, job[c].ask.op = "Import", job[c].step # 0, NEW k,
         job' = [job EXCEPT ![c] = k], UNCHANGED <<tree, faults>>, Goes(job[c], k),
         Past(job[c]), Recalls(k, job[c].log)
  PROVE  Kept(c)
  <1>1. DoneStep(job[c], k, NoEntry) /\ ToldStep(job[c], k, NoEntry) /\ BulkStep(job[c], k, NoEntry)
    BY DEF DoneStep, ToldStep, BulkStep, Careful, Bulk
  <1>2. Rests(c)
    BY <1>1 DEF Rests
  <1> QED
    BY <1>2, RestKeeps

LEMMA StoreIndexKeeps ==
  ASSUME StoreInv, NEW c \in Clients, StoreIndex(c)
  PROVE  Kept(c)
  <1> DEFINE j == job[c]
             k == GoTo(j, 9)
             r == SetMetadata(tree, Ref(Bound(j), <<>>), c)
  <1>1. /\ j.step = 8 /\ j.ask.op = "Import"
        /\ \/ \E a \in Answers(r) : Ends(c, r, a, k)
           \/ job' = [job EXCEPT ![c] = k] /\ UNCHANGED <<tree, faults>>
    BY DEF StoreIndex, At, Call
  <1>2. Base(j) /\ Recalls(j, j.log) /\ Called(r, "Meta")
    BY MetaCalled DEF StoreInv, JobOK
  <1> HIDE DEF r
  <1>3. Past(j) /\ Bound(j) \in Ids \cup {NoId}
    BY <1>1, <1>2 DEF Past, Recalls
  <1>4. \A e : Onward(j, k, e)
    BY <1>1, <1>2, <1>3, OnwardGoes, OnwardKnows
  <1>5. Goes(j, k) /\ Recalls(k, j.log)
    <2>1. Parts(j, k, 9, j.seen, j.left, 0, j.says)
      BY <1>1, <1>2, PartsAre
    <2>2. Goes(j, k)
      BY <1>4 DEF Onward
    <2> HIDE DEF k
    <2>3. Recalls(k, j.log)
      BY <1>1, <1>3, <2>1 DEF Parts, Recalls, Bound
    <2> QED
      BY <2>2, <2>3
  <1> HIDE DEF k
  <1> QED
    BY <1>1, <1>2, <1>3, <1>4, <1>5, ImportKeeps, ImportRests

LEMMA MapOldIdKeeps ==
  ASSUME StoreInv, NEW c \in Clients, MapOldId(c)
  PROVE  Kept(c) /\ Bound(job[c]) \in Ids \cup {NoId}
  <1> DEFINE j == job[c]
             k == Says(j, 200, "there")
  <1>1. j.step = 9 /\ j.ask.op = "Import" /\ job' = [job EXCEPT ![c] = k] /\ UNCHANGED <<tree, faults>>
    BY DEF MapOldId, At
  <1>2. Base(j) /\ Recalls(j, j.log)
    BY DEF StoreInv, JobOK
  <1>3. Goes(j, k) /\ Past(j)
    BY <1>1, <1>2, Ways DEF Codes, Past
  <1>4. Recalls(k, j.log)
    BY <1>1, <1>2, PartsAre DEF Parts, Recalls
  <1>5. Bound(j) \in Ids \cup {NoId}
    BY <1>1, <1>2 DEF Recalls
  <1> HIDE DEF k
  <1>6. Kept(c)
    <2>1. j.ask.op = "Import" /\ j.step # 0
      BY <1>1
    <2> QED
      BY <1>1, <1>3, <1>4, <2>1, ImportRests
  <1> QED
    BY <1>5, <1>6

LEMMA VerifyKeeps ==
  ASSUME StoreInv, NEW c \in Clients, VerifyMigration(c)
  PROVE  Kept(c)
  <1> DEFINE j == job[c]
             new == mapping[j.ask.items[1]]
             r == Stat(tree, Ref(Bound(j), <<>>))
             first == {Says(j, 200, "unmapped"), Says(j, 200, "fine"), Knows(j, new, 2)}
             next == {Says(j, 200, "there"), Says(j, 200, "absent")}
  <1>1. /\ j.ask.op = "VerifyMigration" /\ j.step \in 1..2
        /\ \/ /\ j.step = 1 /\ UNCHANGED <<tree, faults>>
              /\ \E k \in first : job' = [job EXCEPT ![c] = k]
           \/ \E a \in Answers(r) : \E k \in next : Ends(c, r, a, k)
    BY DEF VerifyMigration, At, Call
  <1>2. Base(j) /\ Called(r, "Stat")
    BY StatCalled DEF StoreInv, JobOK
  <1>3. IsNeutral(c)
    BY <1>1 DEF IsNeutral, Decisive, Careful, Bulk
  <1>4. (j.step = 1 => \A k \in first : Goes(j, k)) /\ \A k \in next : Goes(j, k)
    BY <1>1, <1>2, Ways DEF Codes
  <1> HIDE DEF r, first, next
  <1>5. CASE \E a \in Answers(r) : \E k \in next : Ends(c, r, a, k)
    <2>1. Asks(c)
      BY <1>2, <1>4, <1>5 DEF Asks
    <2> QED
      BY <1>3, <2>1, NeutralKeeps
  <1>6. CASE j.step = 1 /\ UNCHANGED <<tree, faults>> /\ \E k \in first : job' = [job EXCEPT ![c] = k]
    BY <1>3, <1>4, <1>6, NeutralRests
  <1> QED
    BY <1>1, <1>5, <1>6

LEMMA ImportStepKeeps ==
  ASSUME StoreInv, NEW c \in Clients, ImportStep(c), mapping \in [Clients -> Ids \cup {Zero, NoId}]
  PROVE  Kept(c) /\ mapping' \in [Clients -> Ids \cup {Zero, NoId}]
  <1>1. CASE ImportDocumentDynamic(c) /\ UNCHANGED mapping /\ ~MapOldId(c)
    BY <1>1, ChooseTargetKeeps, InitiateKeeps, UploadKeeps, LookUpKeeps, StoreIndexKeeps
       DEF ImportDocumentDynamic
  <1>2. CASE MapOldId(c)
    <2>1. Kept(c) /\ Bound(job[c]) \in Ids \cup {NoId}
      BY <1>2, MapOldIdKeeps
    <2>2. mapping' = mapping \/ \E new \in Ids \cup {Zero, NoId} : mapping' = [mapping EXCEPT ![c] = new]
      BY <1>2, <2>1 DEF MapOldId
    <2> QED
      BY <2>1, <2>2
  <1>3. CASE VerifyMigration(c)
    BY <1>3, VerifyKeeps DEF VerifyMigration
  <1> QED
    BY <1>1, <1>2, <1>3 DEF ImportStep, ImportDocumentDynamic

(***************************************************************************)
(* The invariant of the specification.                                     *)
(***************************************************************************)
Inv == StoreInv /\ mapping \in [Clients -> Ids \cup {Zero, NoId}]

LEMMA IdleOK == JobOK(Idle)
  <1>1. PICK q : q = Ask("none", Nowhere, Nowhere, <<>>, <<>>, {})
    OBVIOUS
  <1>2. q.op = "none"
    BY <1>1 DEF Ask
  <1>3. PICK j : j = Idle
    OBVIOUS
  <1>4. j = Job(q, 0, <<>>, <<>>, 0, "nothing", {})
    BY <1>1, <1>3 DEF Idle, Job
  <1>5. /\ Shape(j) /\ j.ask = q /\ j.step = 0 /\ j.seen = <<>>
        /\ j.left = <<>> /\ j.reply = 0 /\ j.says = "nothing" /\ j.log = {}
    BY <1>4, JobsAre
  <1>6. Base(j)
    BY <1>5, ShortSeqs DEF Base, Codes
  <1>7. AskOK(q) /\ q.op \notin DOMAIN Decisive /\ q.op \notin Bulk /\ q.op \notin Careful
    BY <1>2 DEF AskOK, Decisive, Bulk, Careful
  <1>8. DoneOK(j) /\ ToldOK(j) /\ BulkOK(j) /\ Recalls(j, j.log)
    BY <1>2, <1>5, <1>7 DEF DoneOK, ToldOK, BulkOK, Recalls
  <1> QED
    BY <1>3, <1>5, <1>6, <1>7, <1>8 DEF JobOK

LEMMA InitHolds == Init => Inv
  BY IdleOK, StartsWithTree, FaultBound DEF Init, Inv, StoreInv

LEMMA Arrived ==
  ASSUME NEW j, Shape(j), NEW q, NEW items
  PROVE  [[[j EXCEPT !.ask = q] EXCEPT !.step = 1] EXCEPT !.left = items]
           = Job(q, 1, j.seen, items, j.reply, j.says, j.log)
  <1> DEFINE j1 == [j EXCEPT !.ask = q]
             j2 == [j1 EXCEPT !.step = 1]
  <1>1. j1 = Job(q, j.step, j.seen, j.left, j.reply, j.says, j.log)
    BY DEF Shape, Job
  <1> HIDE DEF j1
  <1>2. j2 = Job(q, 1, j.seen, j.left, j.reply, j.says, j.log)
    BY <1>1 DEF Job
  <1> HIDE DEF j2
  <1>3. [j2 EXCEPT !.left = items] = Job(q, 1, j.seen, items, j.reply, j.says, j.log)
    BY <1>2 DEF Job
  <1> QED
    BY <1>3 DEF j2, j1

LEMMA ArriveKeeps ==
  ASSUME Inv, NEW c \in Clients, Arrive(c), UNCHANGED mapping
  PROVE  /\ Inv' /\ job' = [job EXCEPT ![c] = job'[c]] /\ job[c].step = 0
         /\ tree' = tree /\ job'[c].step = 1 /\ job'[c].seen = <<>>
  <1>1. PICK q \in Asked(c) : job' = [job EXCEPT ![c].ask = q, ![c].step = 1, ![c].left = q.items]
    BY DEF Arrive
  <1>2. /\ job[c] = Idle /\ UNCHANGED <<tree, faults>> /\ job = [x \in Clients |-> job[x]]
        /\ TreeOK(tree) /\ faults \in 0..MaxFaults /\ \A x \in Clients : JobOK(job[x])
    BY DEF Arrive, Inv, StoreInv
  <1>3. PICK none : none = Ask("none", Nowhere, Nowhere, <<>>, <<>>, {})
    OBVIOUS
  <1>4. Idle = Job(none, 0, <<>>, <<>>, 0, "nothing", {})
    BY <1>3 DEF Idle, Job
  <1>5. PICK items : items = q.items
    OBVIOUS
  <1>6. PICK j : j = Job(q, 1, <<>>, items, 0, "nothing", {})
    OBVIOUS
  <1>7. job' = [job EXCEPT ![c] = j]
    <2>1. job' = [job EXCEPT ![c] = [[[job[c] EXCEPT !.ask = q] EXCEPT !.step = 1] EXCEPT !.left = items]]
      BY <1>1, <1>2, <1>5
    <2>2. PICK idle : idle = Idle
      OBVIOUS
    <2>3. Shape(idle) /\ idle.seen = <<>> /\ idle.reply = 0 /\ idle.says = "nothing" /\ idle.log = {}
      BY <1>4, <2>2, JobsAre
    <2>4. [[[idle EXCEPT !.ask = q] EXCEPT !.step = 1] EXCEPT !.left = items]
            = Job(q, 1, idle.seen, items, idle.reply, idle.says, idle.log)
      BY <2>3, Arrived
    <2>5. [[[idle EXCEPT !.ask = q] EXCEPT !.step = 1] EXCEPT !.left = items] = j
      BY <1>6, <2>3, <2>4
    <2> QED
      BY <1>2, <2>1, <2>2, <2>5
  <1>8. /\ Shape(j) /\ j.ask = q /\ j.step = 1 /\ j.seen = <<>>
        /\ j.left = items /\ j.reply = 0 /\ j.says = "nothing" /\ j.log = {}
    BY <1>6, JobsAre
  <1>9. AskOK(q)
    BY AskedById DEF AskOK
  <1>10. Base(j)
    BY <1>8, ShortSeqs DEF Base, Codes
  <1>11. DoneOK(j) /\ ToldOK(j) /\ Recalls(j, j.log)
    BY <1>8 DEF DoneOK, Success, Past, ToldOK, Recalls
  <1>12. BulkOK(j)
    <2>1. q.op \in Bulk => items \in Seq(IdRefs)
      BY <1>5, <1>9 DEF AskOK
    <2>2. items \in Seq(IdRefs) => Len(items) - Len(items) = 0 /\ \A i \in 1..Len(items) : items[i] = items[0 + i]
      OBVIOUS
    <2> QED
      BY <1>5, <1>8, <2>1, <2>2 DEF BulkOK
  <1>13. JobOK(j)
    BY <1>8, <1>9, <1>10, <1>11, <1>12 DEF JobOK
  <1>14. job'[c] = j /\ job[c].step = 0
    BY <1>2, <1>4, <1>7, JobsAre
  <1> QED
    BY <1>2, <1>7, <1>8, <1>13, <1>14 DEF Inv, StoreInv

LEMMA HandleKeeps ==
  ASSUME Inv, NEW c \in Clients, Handle(c)
  PROVE  Inv' /\ job' = [job EXCEPT ![c] = job'[c]] /\ Nearer(job[c], job'[c])
  <1>1. Kept(c) /\ mapping' \in [Clients -> Ids \cup {Zero, NoId}]
    BY DmsKeep, CmisKeep, ReadsKeep, ImportStepKeeps DEF Handle, Inv
  <1>2. StoreInv'
    BY <1>1 DEF Kept, Inv, StoreInv
  <1> QED
    BY <1>1, <1>2 DEF Kept, Inv

LEMMA NextKeepsInv ==
  ASSUME Inv, [Next]_vars
  PROVE  Inv'
  <1>1. CASE UNCHANGED vars
    BY <1>1 DEF vars, objectVars, Inv, StoreInv
  <1>2. CASE Next
    <2>1. CASE Done
      BY <1>1, <2>1 DEF Done
    <2>2. CASE \E c \in Clients : (Arrive(c) /\ UNCHANGED mapping) \/ Handle(c)
      BY <2>2, ArriveKeeps, HandleKeeps
    <2> QED
      BY <1>2, <2>1, <2>2 DEF Next
  <1> QED
    BY <1>1, <1>2

LEMMA InvHolds == Spec => []Inv
  BY InitHolds, NextKeepsInv, PTL DEF Spec

LEMMA InvIsTyped == Inv => TypeOK
  BY DEF Inv, StoreInv, JobOK, Base, TypeOK

LEMMA InvIsDone == Inv => OkMeansDone
  <1> SUFFICES ASSUME Inv, NEW c \in Clients, job[c].ask.op \in DOMAIN Decisive, job[c].reply \in 200..299
               PROVE  \E e \in Did(c) : e.call = Decisive[job[c].ask.op]
    BY DEF OkMeansDone
  <1>1. PICK e \in job[c].log : Decides(job[c].ask, job[c].log, e)
    BY DEF Inv, StoreInv, JobOK, DoneOK, Success
  <1> QED
    BY <1>1 DEF Decides, Did

LEMMA InvLands == Inv => LandsWhereAsked
  <1> SUFFICES ASSUME Inv, NEW c \in Clients, job[c].reply \in 200..299
               PROVE  LET q == job[c].ask
                          did(call) == {e \in Did(c) : e.call = call}
                      IN  /\ q.op = "SetFolder" /\ q.dst # Nowhere
                               => \E e \in did("Create") : e.into = q.dst.at /\ e.name = Escaped(q.name)[1]
                          /\ q.op = "RenameFolder"
                               => \E e \in did("Move") : e.obj = q.ref.at /\ e.name = Escaped(q.name)[1]
                          /\ q.op = "MoveObject"
                               => \E e \in did("Move") : \E s \in Stats(c) : e.into = q.dst.at /\ e.name = s.name
                          /\ q.op = "Import" /\ q.ref # Nowhere
                               => \E e \in did("Put") : \E i \in job[c].log :
                                    /\ i.obj = e.obj /\ i.call \in {"Initiate", "Put"}
                                    /\ i.into = q.ref.at /\ i.name = Escaped(q.name)[1]
    BY DEF LandsWhereAsked
  <1> DEFINE q == job[c].ask
             log == job[c].log
  <1>1. q.op \in {"SetFolder", "RenameFolder", "MoveObject", "Import"}
          => \E e \in log : Decides(q, log, e)
    BY DEF Inv, StoreInv, JobOK, DoneOK, Success, Decisive
  <1>2. Escaped(q.name)[1] = q.name
    BY DEF Escaped
  <1>3. /\ Did(c) = {e \in log : e.code \in {"OK"} \cup Found(q.op)}
        /\ Stats(c) = {e \in log : e.call = "Stat" /\ e.code = "OK"}
    BY DEF Did, Stats
  <1> HIDE DEF q, log
  <1>4. CASE q.op = "SetFolder"
    BY <1>1, <1>2, <1>3, <1>4 DEF Decides, Decisive, Right, q, log
  <1>5. CASE q.op = "RenameFolder"
    BY <1>1, <1>2, <1>3, <1>5 DEF Decides, Decisive, Right, q, log
  <1>6. CASE q.op = "MoveObject"
    BY <1>1, <1>2, <1>3, <1>6 DEF Decides, Decisive, Right, q, log
  <1>7. CASE q.op = "Import"
    BY <1>1, <1>2, <1>3, <1>7 DEF Decides, Decisive, Right, q, log
  <1>8. CASE q.op \notin {"SetFolder", "RenameFolder", "MoveObject", "Import"}
    BY <1>8 DEF q
  <1> QED
    BY <1>4, <1>5, <1>6, <1>7, <1>8

LEMMA InvTellsTruth == Inv => AbsentIsTrue
  BY DEF Inv, StoreInv, JobOK, ToldOK, AbsentIsTrue

LEMMA InvTriesEvery == Inv => BulkTriesEvery
  <1> SUFFICES ASSUME Inv, NEW c \in Clients, job[c].ask.op \in Bulk, job[c].reply = 200,
                      NEW i \in DOMAIN job[c].ask.items, job[c].ask.items[i] # Nowhere
               PROVE  \E e \in job[c].log : e.obj = job[c].ask.items[i].at
    BY DEF BulkTriesEvery
  <1>1. job[c].ask.items \in Seq(IdRefs) /\ \A n \in 1..Len(job[c].ask.items) : Tried(job[c].ask.items[n], job[c].log)
    BY DEF Inv, StoreInv, JobOK, AskOK, BulkOK
  <1> QED
    BY <1>1 DEF Tried

LEMMA StepsAdvance ==
  ASSUME Inv, Next, NEW c \in Clients, job[c].step # 0, job'[c] # job[c]
  PROVE  Nearer(job[c], job'[c])
  <1>1. job = [x \in Clients |-> job[x]]
    BY DEF Inv, StoreInv
  <1>2. ~Done
    BY DEF Done, vars, objectVars
  <1>3. PICK x \in Clients : (Arrive(x) /\ UNCHANGED mapping) \/ Handle(x)
    BY <1>2 DEF Next
  <1>4. CASE Arrive(x) /\ UNCHANGED mapping
    BY <1>1, <1>4, ArriveKeeps
  <1>5. CASE Handle(x)
    BY <1>1, <1>5, HandleKeeps
  <1> QED
    BY <1>3, <1>4, <1>5

(***************************************************************************)
(* What a call changes.                                                    *)
(***************************************************************************)
LEMMA OwnLineage == ASSUME NEW t, NEW o \in Ids PROVE o \in Lineage(t, o)
  <1> DEFINE Closed(S) == \A y \in S : t[y].parent \in Ids => t[y].parent \in S
             Reach(x) == {y \in Ids : \A S \in SUBSET Ids : x \in S /\ Closed(S) => y \in S}
             R == [x \in Ids |-> Reach(x)]
             Is(f) == f = [x \in Ids |-> {x} \cup IF t[x].parent \in Ids THEN f[t[x].parent] ELSE {}]
  <1>1. ASSUME NEW x \in Ids, t[x].parent \in Ids
        PROVE  Reach(x) = {x} \cup Reach(t[x].parent)
    <2> DEFINE p == t[x].parent
               T == {x} \cup Reach(p)
    <2>1. T \subseteq Reach(x)
      <3>1. \A S \in SUBSET Ids : x \in S /\ Closed(S) => p \in S
        BY <1>1
      <3> QED
        BY <1>1, <3>1
    <2>2. T \in SUBSET Ids /\ x \in T
      BY <1>1
    <2>3. Closed(T)
      <3>1. p \in Reach(p)
        BY <1>1
      <3>2. ASSUME NEW y \in Reach(p), t[y].parent \in Ids
            PROVE  t[y].parent \in Reach(p)
        BY <3>2
      <3> QED
        BY <3>1, <3>2
    <2>4. Reach(x) \subseteq T
      <3> HIDE DEF T
      <3> QED
        BY <2>2, <2>3
    <2> QED
      BY <2>1, <2>4
  <1>2. ASSUME NEW x \in Ids, t[x].parent \notin Ids
        PROVE  Reach(x) = {x}
    <2>1. {x} \in SUBSET Ids /\ Closed({x})
      BY <1>2
    <2> QED
      BY <2>1
  <1>3. Is(R)
    <2> HIDE DEF Reach
    <2>1. \A x \in Ids : R[x] = {x} \cup IF t[x].parent \in Ids THEN R[t[x].parent] ELSE {}
      BY <1>1, <1>2
    <2> QED
      BY <2>1
  <1> HIDE DEF R, Reach, Closed
  <1>4. PICK f : Is(f) /\ Lineage(t, o) = f[o]
    BY <1>3 DEF Lineage
  <1> QED
    BY <1>4

\* A call changes nothing that is in use but x, what is in x, and what went to
\* the bin with x.
Changes(r, x) ==
  \A o \in Ids : r.tree[o] # tree[o] /\ tree[o] # Unused
    => x \in Ids /\ (x \in Lineage(tree, o) \/ x = tree[o].bin)

LEMMA NoChange ==
  ASSUME NEW r, NEW x, r.tree = tree PROVE Changes(r, x)
  BY DEF Changes

LEMMA OneChanges ==
  ASSUME TreeOK(tree), NEW r, NEW o, NEW n, r.tree = [tree EXCEPT ![o] = n], o \in Ids
  PROVE  Changes(r, o)
  BY OwnLineage DEF Changes, TreeOK

LEMMA ResultTree == ASSUME NEW call, NEW code, NEW t, NEW o PROVE Result(call, code, t, o).tree = t
  BY DEF Result

LEMMA ReadsLeave ==
  /\ \A ref : Stat(tree, ref).tree = tree
  /\ \A call, ref, kinds : Look(call, tree, ref, kinds).tree = tree
  /\ ListSpaces(tree).tree = tree
  /\ \A ref : Initiate(tree, ref).tree = tree
  <1>1. ASSUME NEW ref PROVE Stat(tree, ref).tree = tree
    <2>1. PICK r : r = Result("Stat", "NOT_FOUND", tree, NoId)
      OBVIOUS
    <2>2. r.tree = tree /\ DOMAIN r = {"code", "tree", "info", "did"}
      BY <2>1 DEF Result
    <2>3. \/ Stat(tree, ref) = Result("Stat", "OK", tree, Resolve(tree, ref))
          \/ Stat(tree, ref) = [r EXCEPT !.did.obj = ref.at]
      BY <2>1 DEF Stat
    <2> QED
      BY <2>2, <2>3, ResultTree
  <1>2. \A call, ref, kinds : Look(call, tree, ref, kinds).tree = tree
    BY ResultTree DEF Look
  <1>3. ListSpaces(tree).tree = tree /\ \A ref : Initiate(tree, ref).tree = tree
    BY ResultTree DEF ListSpaces, Initiate
  <1> QED
    BY <1>1, <1>2, <1>3

LEMMA FreshChanges ==
  ASSUME TreeOK(tree), ~Full(tree), NEW r, NEW n, r.tree = [tree EXCEPT ![FreshId(tree)] = n]
  PROVE  Changes(r, NoId)
  <1>1. tree[FreshId(tree)] = Unused
    BY DEF Full, FreshId
  <1>2. \A o \in Ids : r.tree[o] # tree[o] => o = FreshId(tree)
    BY DEF TreeOK
  <1> QED
    BY <1>1, <1>2 DEF Changes

LEMMA CreateChanges == ASSUME TreeOK(tree), NEW ref PROVE Changes(CreateContainer(tree, ref), NoId)
  <1>1. \/ CreateContainer(tree, ref).tree = tree
        \/ ~Full(tree) /\ CreateContainer(tree, ref).tree = Born(tree, ref, "folder", NoId)
    BY ResultTree DEF CreateContainer
  <1> QED
    BY <1>1, NoChange, FreshChanges DEF Born

LEMMA SpaceChanges == ASSUME TreeOK(tree), NEW name PROVE Changes(CreateSpace(tree, name), NoId)
  <1>1. \/ CreateSpace(tree, name).tree = tree
        \/ /\ ~Full(tree)
           /\ CreateSpace(tree, name).tree = [tree EXCEPT ![FreshId(tree)] = Node("live", Slash, name, "folder", NoId)]
    BY ResultTree DEF CreateSpace
  <1> QED
    BY <1>1, NoChange, FreshChanges

LEMMA MoveChanges ==
  ASSUME TreeOK(tree), NEW src, NEW dst PROVE Changes(Move(tree, src, dst), Resolve(tree, src))
  <1> DEFINE o == Resolve(tree, src)
             n == [tree[o] EXCEPT !.parent = Into(tree, dst), !.name = Last(dst.path)]
  <1>1. \/ Move(tree, src, dst).tree = tree
        \/ /\ o \in Ids
           /\ Move(tree, src, dst).tree = [tree EXCEPT ![o].parent = Into(tree, dst), ![o].name = Last(dst.path)]
    BY ResultTree DEF Move
  <1>2. [tree EXCEPT ![o].parent = Into(tree, dst), ![o].name = Last(dst.path)] = [tree EXCEPT ![o] = n]
    OBVIOUS
  <1> HIDE DEF n, o
  <1> QED
    BY <1>1, <1>2, NoChange, OneChanges DEF o

LEMMA DeleteChanges ==
  ASSUME TreeOK(tree), NEW ref PROVE Changes(Delete(tree, ref), Resolve(tree, ref))
  <1> DEFINE o == Resolve(tree, ref)
             left == [x \in Ids |-> IF x \in Below(tree, o)
                                      THEN [tree[x] EXCEPT !.state = "bin", !.bin = o] ELSE tree[x]]
  <1>1. \/ Delete(tree, ref) = Result("Delete", "NOT_FOUND", tree, ref.at)
        \/ o \in Ids /\ Delete(tree, ref) = Result("Delete", "OK", left, o)
    BY DEF Delete
  <1>2. \A x \in Ids : left[x] # tree[x] => o \in Lineage(tree, x)
    BY DEF Below
  <1> HIDE DEF left, o
  <1>3. Delete(tree, ref).tree = tree \/ (o \in Ids /\ Delete(tree, ref).tree = left)
    BY <1>1, ResultTree
  <1> QED
    BY <1>2, <1>3 DEF Changes, o

LEMMA RestoreChanges == ASSUME TreeOK(tree), NEW key PROVE Changes(Restore(tree, key), key)
  <1> DEFINE back == {x \in Ids : tree[x].state = "bin" /\ tree[x].bin = key}
             left == [x \in Ids |-> IF x \in back
                                      THEN [tree[x] EXCEPT !.state = "live", !.bin = NoId] ELSE tree[x]]
  <1>1. \/ Restore(tree, key) = Result("Restore", "NOT_FOUND", tree, key)
        \/ Restore(tree, key) = Result("Restore", "OK", left, key)
    BY DEF Restore
  <1>2. \A x \in back : key \in Ids /\ key = tree[x].bin
    BY DEF TreeOK, NodeOK
  <1> HIDE DEF back
  <1>3. \A x \in Ids : left[x] # tree[x] => x \in back
    OBVIOUS
  <1> HIDE DEF left
  <1>4. Restore(tree, key).tree = tree \/ Restore(tree, key).tree = left
    BY <1>1, ResultTree
  <1> QED
    BY <1>2, <1>3, <1>4 DEF Changes

LEMMA MetaChanges ==
  ASSUME TreeOK(tree), NEW ref, NEW who PROVE Changes(SetMetadata(tree, ref, who), Resolve(tree, ref))
  <1> DEFINE o == Resolve(tree, ref)
             n == [tree[o] EXCEPT !.meta = @ \cup {who}]
  <1>1. \/ SetMetadata(tree, ref, who).tree = tree
        \/ o \in Ids /\ SetMetadata(tree, ref, who).tree = [tree EXCEPT ![o].meta = @ \cup {who}]
    BY ResultTree DEF SetMetadata
  <1>2. [tree EXCEPT ![o].meta = @ \cup {who}] = [tree EXCEPT ![o] = n]
    OBVIOUS
  <1> HIDE DEF n, o
  <1> QED
    BY <1>1, <1>2, NoChange, OneChanges DEF o

LEMMA PutChanges ==
  ASSUME TreeOK(tree), NEW ref, NEW obj, NEW body
  PROVE  Changes(PutBytes(tree, ref, obj, body), IF obj = NoId THEN Resolve(tree, ref) ELSE obj)
  <1> DEFINE o == IF obj = NoId THEN Resolve(tree, ref) ELSE obj
             n == [tree[o] EXCEPT !.body = body]
             r == PutBytes(tree, ref, obj, body)
  <1>1. \/ r.tree = tree
        \/ o \in Ids /\ r.tree = [tree EXCEPT ![o].body = body]
        \/ ~Full(tree) /\ r.tree = Born(tree, ref, "file", body)
    BY ResultTree DEF PutBytes
  <1>2. [tree EXCEPT ![o].body = body] = [tree EXCEPT ![o] = n]
    OBVIOUS
  <1> HIDE DEF n, r
  <1>3. ASSUME ~Full(tree), r.tree = Born(tree, ref, "file", body) PROVE Changes(r, NoId)
    BY <1>3, FreshChanges DEF Born
  <1>4. Changes(r, NoId) => Changes(r, o)
    BY StoreIds DEF Changes
  <1> HIDE DEF o
  <1> QED
    BY <1>1, <1>2, <1>3, <1>4, NoChange, OneChanges DEF o, r

(***************************************************************************)
(* What a request remembers of ids: those it goes on with were told by the *)
(* storage of objects that its history names.                              *)
(***************************************************************************)
Known(id, log) == id = NoId \/ (id \in Ids /\ \E e \in log : e.obj = id)
HasOne(seen, log) == \E i : seen = <<i>> /\ Known(i.id, log)
HasTwo(seen, log) == \E i, d : seen = <<i, d>> /\ Known(i.id, log) /\ Known(d.id, log)

LearnsOne == {"CreateRootFolder", "SetContentStream", "DeleteContentStream", "CreateDocument", "CreateFolder"}
Minds == LearnsOne \cup {"SetFile", "Import"}

\* An import that was given no place goes on with the one it was told of.
Aims(q, seen) == GivenTarget(q) = Nowhere => seen # <<>> /\ seen[1].id \in Ids \cup {NoId}

Mem(q, step, seen, log) ==
  /\ q.op \in Minds /\ step = 1 => seen = <<>>
  /\ q.op \in LearnsOne /\ step = 2 => HasOne(seen, log)
  /\ q.op = "SetFile" /\ step = 2 => seen = <<>>
  /\ q.op = "SetFile" /\ step = 3 => HasOne(seen, log)
  /\ q.op = "CreateDocument" /\ step \in 3..5 => HasTwo(seen, log)
  /\ q.op = "CreateFolder" /\ step \in 3..4
       => HasOne(seen, log) \/ (seen = <<>> /\ q.ref.at \notin {Slash, NoId})
  /\ q.op = "Import" /\ step \in 2..9 => Aims(q, seen)
  /\ q.op = "Import" /\ step \in 4..9 => seen # <<>> /\ Known(Last(seen).id, log)

MemOK(j) == Mem(j.ask, j.step, j.seen, j.log)
MemInv == Inv /\ \A c \in Clients : MemOK(job[c])

LEMMA NoMem ==
  ASSUME NEW j, j.step = 0 \/ j.ask.op \notin Minds
  PROVE  MemOK(j)
  BY DEF MemOK, Mem, Minds, LearnsOne

(***************************************************************************)
(* What a step changes.                                                    *)
(***************************************************************************)
By(r) == \E a \in Answers(r) : tree' = a.tree

Contained(c) ==
  \A o \in Ids : tree'[o] # tree[o] /\ tree[o] # Unused
    => (Lineage(tree, o) \cup {tree[o].bin}) \cap Named(c) \cap Ids # {}

LEMMA Untouched == ASSUME NEW c, tree' = tree PROVE Contained(c)
  BY DEF Contained

LEMMA ContainedBy ==
  ASSUME NEW c, NEW r, NEW call, Called(r, call), By(r), NEW x, Changes(r, x), x \in Ids => x \in Named(c)
  PROVE  Contained(c)
  <1>1. PICK a \in Answers(r) : tree' = a.tree
    BY DEF By
  <1>2. a = r \/ \E code \in {"ERROR", "OTHER"}, t \in {tree, r.tree} : a = Fail(r, code, t)
    BY DEF Answers
  <1>3. a.tree = tree \/ a.tree = r.tree
    BY <1>2 DEF Fail, Called
  <1> QED
    BY <1>1, <1>3, Untouched DEF Contained, Changes

LEMMA ReadsContained ==
  ASSUME TreeOK(tree), NEW c, NEW ref, By(Stat(tree, ref)) \/ By(Initiate(tree, ref)) \/ By(ListSpaces(tree))
  PROVE  Contained(c)
  <1>1. \A r : r.tree = tree => Changes(r, NoId)
    BY NoChange
  <1>2. NoId \notin Ids
    BY StoreIds
  <1>3. Contained(c) \/ ~By(Stat(tree, ref))
    BY <1>1, <1>2, ContainedBy, StatCalled, ReadsLeave
  <1>4. Contained(c) \/ ~By(Initiate(tree, ref))
    BY <1>1, <1>2, ContainedBy, LooksCalled, ReadsLeave
  <1>5. Contained(c) \/ ~By(ListSpaces(tree))
    BY <1>1, <1>2, ContainedBy, LooksCalled, ReadsLeave
  <1> QED
    BY <1>3, <1>4, <1>5

LEMMA CallsContained ==
  ASSUME TreeOK(tree), NEW c, NEW ref
  PROVE  /\ By(CreateContainer(tree, ref)) => Contained(c)
         /\ \A name : By(CreateSpace(tree, name)) => Contained(c)
         /\ (Resolve(tree, ref) \in Ids => Resolve(tree, ref) \in Named(c))
              => /\ \A dst : By(Move(tree, ref, dst)) => Contained(c)
                 /\ By(Delete(tree, ref)) \/ By(SetMetadata(tree, ref, c)) => Contained(c)
  <1>1. NoId \notin Ids
    BY StoreIds
  <1>2. By(CreateContainer(tree, ref)) => Contained(c)
    BY <1>1, ContainedBy, CreateCalled, CreateChanges
  <1>3. \A name : By(CreateSpace(tree, name)) => Contained(c)
    BY <1>1, ContainedBy, SpaceCalled, SpaceChanges
  <1>4. (Resolve(tree, ref) \in Ids => Resolve(tree, ref) \in Named(c))
          => \A dst : By(Move(tree, ref, dst)) => Contained(c)
    BY ContainedBy, MoveCalled, MoveChanges
  <1>5. (Resolve(tree, ref) \in Ids => Resolve(tree, ref) \in Named(c))
          => (By(Delete(tree, ref)) => Contained(c))
    BY ContainedBy, DeleteCalled, DeleteChanges
  <1>6. (Resolve(tree, ref) \in Ids => Resolve(tree, ref) \in Named(c))
          => (By(SetMetadata(tree, ref, c)) => Contained(c))
    BY ContainedBy, MetaCalled, MetaChanges
  <1> QED
    BY <1>2, <1>3, <1>4, <1>5, <1>6

LEMMA RestoresContained ==
  ASSUME TreeOK(tree), NEW c, NEW key \in Named(c), By(Restore(tree, key))
  PROVE  Contained(c)
  BY ContainedBy, RestoreCalled, RestoreChanges

LEMMA NamesKnown == ASSUME NEW c, NEW id \in Ids, Known(id, job[c].log) PROVE id \in Named(c)
  BY StoreIds DEF Named, Touched, Known

LEMMA PutsContained ==
  ASSUME TreeOK(tree), NEW c, NEW ref, NEW obj, Known(obj, job[c].log), NEW body, By(PutBytes(tree, ref, obj, body)),
         Resolve(tree, ref) \in Ids => Resolve(tree, ref) \in Named(c)
  PROVE  Contained(c)
  <1>1. obj \in Ids \cup {NoId} /\ (obj \in Ids => obj \in Named(c))
    BY NamesKnown DEF Known
  <1> QED
    BY <1>1, ContainedBy, PutCalled, PutChanges

\* What the request names.
LEMMA NowhereResolves == ASSUME NEW ref, ref.at = NoId PROVE Resolve(tree, ref) \notin Ids
  BY StoreIds DEF Resolve, Live

LEMMA NamesTarget ==
  ASSUME NEW c
  PROVE  /\ Resolve(tree, Target(c)) \in Named(c)
         /\ Resolve(tree, job[c].ask.ref) \in Ids => Resolve(tree, job[c].ask.ref) \in Named(c)
  <1>1. Target(c) = Meant(job[c].ask)
    BY DEF Target, BuildPathRef, Meant
  <1>2. Resolve(tree, Meant(job[c].ask)) \in Named(c)
    BY DEF Named
  <1>3. job[c].ask.ref.at # NoId => Meant(job[c].ask) = job[c].ask.ref
    BY DEF Meant
  <1> QED
    BY <1>1, <1>2, <1>3, NowhereResolves

LEMMA NamesBelow ==
  ASSUME NEW c, NEW b, NEW path \in {Split(job[c].ask.name), Escaped(job[c].ask.name)},
         \/ \E i \in DOMAIN job[c].seen : b = job[c].seen[i].id
         \/ b = job[c].ask.ref.at \/ b = job[c].ask.dst.at,
         b # Slash, Resolve(tree, Ref(b, path)) \in Ids
  PROVE  Resolve(tree, Ref(b, path)) \in Named(c)
  <1>1. b \in Bases(c)
    BY DEF Bases, Told
  <1>2. b \in Ids
    BY StoreIds DEF Resolve, Live, Ref
  <1> QED
    BY <1>1, <1>2 DEF Named

LEMMA NamesItems ==
  ASSUME Inv, NEW c \in Clients, job[c].ask.op \in Bulk, job[c].step # 0, job[c].left # <<>>
  PROVE  /\ Head(job[c].left) \in IdRefs /\ Head(job[c].left).at \in Named(c)
         /\ Resolve(tree, Head(job[c].left)) \in Ids
              => Resolve(tree, Head(job[c].left)) \in Named(c)
  <1> DEFINE j == job[c]
  <1>1. /\ j.ask.items \in Seq(IdRefs) /\ j.left \in Seq(IdRefs) /\ Len(j.left) <= Len(j.ask.items)
        /\ \A i \in 1..Len(j.left) : j.left[i] = j.ask.items[Len(j.ask.items) - Len(j.left) + i]
    <2>1. JobOK(j)
      BY DEF Inv, StoreInv
    <2> QED
      BY <2>1 DEF JobOK, AskOK, BulkOK
  <1> HIDE DEF j
  <1>2. PICK all, left : all = j.ask.items /\ left = j.left
    OBVIOUS
  <1>3. left # <<>> /\ Len(all) \in Nat /\ Len(left) \in Nat /\ Len(left) <= Len(all)
    BY <1>1, <1>2 DEF j
  <1>4. /\ all \in Seq(IdRefs) /\ left \in Seq(IdRefs)
        /\ \A i \in 1..Len(left) : left[i] = all[Len(all) - Len(left) + i]
    BY <1>1, <1>2
  <1>8. Head(left) = all[Len(all) - Len(left) + 1]
    BY <1>3, <1>4, RestOf
  <1>5. Len(all) - Len(left) + 1 \in DOMAIN all
    <2>1. Len(left) > 0
      BY <1>1, <1>2, <1>3
    <2>2. DOMAIN all = 1..Len(all)
      BY <1>1, <1>2
    <2> QED
      BY <1>3, <2>1, <2>2
  <1>6. Head(j.left) \in IdRefs /\ Head(j.left).at \in Named(c)
    <2>1. all[Len(all) - Len(left) + 1] \in IdRefs
      BY <1>4, <1>5
    <2>2. \A i \in DOMAIN job[c].ask.items : job[c].ask.items[i].at \in Named(c)
      BY DEF Named
    <2> QED
      BY <1>2, <1>5, <1>8, <2>1, <2>2 DEF j
  <1>7. Resolve(tree, Head(j.left)) \in Ids => Resolve(tree, Head(j.left)) = Head(j.left).at
    BY <1>6, ResolvesItself, StoreIds DEF IdRefs, Ref
  <1> QED
    BY <1>6, <1>7 DEF j

(***************************************************************************)
(* The handlers that need nothing they remember.                           *)
(***************************************************************************)
LEMMA FoldersContained ==
  ASSUME Inv, NEW c \in Clients,
         SetFolder(c) \/ CreateFolderByParentFolderID(c) \/ CreateFolderByParentFolderPath(c)
  PROVE  Contained(c)
  <1>1. \E ref : By(CreateContainer(tree, ref)) \/ By(Stat(tree, ref))
    BY DEF SetFolder, CreateFolderByParentFolderID, CreateFolderByParentFolderPath, Begins, At, Call, Ends, By
  <1>2. TreeOK(tree)
    BY DEF Inv, StoreInv
  <1> QED
    BY <1>1, <1>2, CallsContained, ReadsContained

LEMMA RenamesContained ==
  ASSUME Inv, NEW c \in Clients, RenameFolder(c) \/ RenameDocument(c)
  PROVE  Contained(c)
  <1>1. (\E ref : By(Stat(tree, ref))) \/ (\E dst : By(Move(tree, job[c].ask.ref, dst)))
    BY DEF RenameFolder, RenameDocument, Begins, At, Call, Ends, By
  <1>2. TreeOK(tree)
    BY DEF Inv, StoreInv
  <1> QED
    BY <1>1, <1>2, CallsContained, ReadsContained, NamesTarget

LEMMA SkipsContained ==
  ASSUME NEW c, SkipsBadId(c) \/ EndsLoop(c) \/ \E ops : BadId(c, ops)
  PROVE  Contained(c)
  <1>1. tree' = tree
    BY DEF SkipsBadId, EndsLoop, BadId
  <1> QED
    BY <1>1, Untouched

LEMMA DeletesContained ==
  ASSUME Inv, NEW c \in Clients, DeleteFolders(c) \/ BinDocuments(c)
  PROVE  Contained(c)
  <1>1. /\ job[c].ask.op \in Bulk /\ job[c].step # 0
        /\ SkipsBadId(c) \/ EndsLoop(c) \/ DeletesNext(c)
    BY DEF DeleteFolders, BinDocuments, At, Bulk
  <1>2. TreeOK(tree)
    BY DEF Inv, StoreInv
  <1>3. CASE DeletesNext(c)
    <2>1. job[c].left # <<>> /\ By(Delete(tree, Head(job[c].left)))
      BY <1>3 DEF DeletesNext, Call, Ends, By
    <2> QED
      BY <1>1, <1>2, <2>1, NamesItems, CallsContained
  <1> QED
    BY <1>1, <1>3, SkipsContained

LEMMA RecoversContained ==
  ASSUME Inv, NEW c \in Clients, RecoverObjects(c)
  PROVE  Contained(c)
  <1>1. /\ job[c].ask.op \in Bulk /\ job[c].step # 0
        /\ EndsLoop(c) \/ RestoresNext(c)
    BY DEF RecoverObjects, At, Bulk
  <1>2. TreeOK(tree)
    BY DEF Inv, StoreInv
  <1>3. CASE RestoresNext(c)
    <2>1. job[c].left # <<>> /\ By(Restore(tree, Head(job[c].left).at))
      BY <1>3 DEF RestoresNext, Call, Ends, By
    <2> QED
      BY <1>1, <1>2, <2>1, NamesItems, RestoresContained
  <1> QED
    BY <1>1, <1>3, SkipsContained

LEMMA MovesContained ==
  ASSUME Inv, NEW c \in Clients, MoveObjects(c) \/ CopyObjects(c)
  PROVE  Contained(c)
  <1>1. /\ job[c].ask.op \in Bulk /\ job[c].step # 0
        /\ \/ SkipsBadId(c) \/ EndsLoop(c) \/ \E ref : By(Stat(tree, ref))
           \/ job[c].step = 3 /\ \E dst : By(Move(tree, Head(job[c].left), dst))
    BY DEF MoveObjects, CopyObjects, Begins, At, Bulk, Call, Ends, By
  <1>2. TreeOK(tree) /\ (job[c].step = 3 => job[c].left # <<>>)
    BY <1>1 DEF Inv, StoreInv, JobOK, BulkOK
  <1> QED
    BY <1>1, <1>2, NamesItems, CallsContained, ReadsContained, SkipsContained

LEMMA TargetsContained ==
  ASSUME Inv, NEW c \in Clients,
         SetIndex(c) \/ UpdateProperties(c) \/ DeleteObject(c) \/ MoveObject(c)
  PROVE  Contained(c)
  <1>1. \/ tree' = tree
        \/ \E ref : By(Stat(tree, ref))
        \/ \E ref \in {job[c].ask.ref, Target(c)} :
             (\E dst : By(Move(tree, ref, dst))) \/ By(Delete(tree, ref)) \/ By(SetMetadata(tree, ref, c))
    <2>1. \A r : (\E a \in Answers(r) : \E k : Ends(c, r, a, k)) => By(r)
      BY DEF Ends, By
    <2>2. SetIndex(c) => By(SetMetadata(tree, job[c].ask.ref, c))
      BY <2>1 DEF SetIndex, Call
    <2>3. DeleteObject(c) => By(Delete(tree, Target(c)))
      BY <2>1 DEF DeleteObject, Call
    <2>4. MoveObject(c) => (\E ref : By(Stat(tree, ref))) \/ (\E dst : By(Move(tree, Target(c), dst)))
      BY <2>1 DEF MoveObject, Call
    <2>5. UpdateProperties(c) => \/ tree' = tree
                                 \/ \E ref : By(Stat(tree, ref))
                                 \/ (\E dst : By(Move(tree, Target(c), dst))) \/ By(SetMetadata(tree, Target(c), c))
      BY <2>1 DEF UpdateProperties, Call
    <2> QED
      BY <2>2, <2>3, <2>4, <2>5
  <1>2. TreeOK(tree)
    BY DEF Inv, StoreInv
  <1> QED
    BY <1>1, <1>2, CallsContained, ReadsContained, NamesTarget, Untouched

\* The handlers that only read.
LEMMA LooksContained ==
  ASSUME TreeOK(tree), NEW c, NEW call, NEW ref, NEW kinds, By(Look(call, tree, ref, kinds))
  PROVE  Contained(c)
  <1>1. Changes(Look(call, tree, ref, kinds), NoId)
    BY ReadsLeave, NoChange
  <1> QED
    BY <1>1, StoreIds, LooksCalled, ContainedBy

LEMMA AllReadsContained ==
  ASSUME Inv, NEW c \in Clients, ReadStep(c)
  PROVE  Contained(c)
  <1> DEFINE R == \/ \E ref : By(Stat(tree, ref)) \/ By(Initiate(tree, ref)) \/ By(ListSpaces(tree))
                  \/ \E call, ref, kinds : By(Look(call, tree, ref, kinds))
                  \/ tree' = tree
  <1>1. \A r : (\E a \in Answers(r) : \E k : Ends(c, r, a, k)) => By(r)
    BY DEF Ends, By
  <1>2. R \/ ~(GetDocument(c) \/ GetDocumentMetaData(c) \/ GetFolderRights(c) \/ ExistObjectPath(c)
               \/ ExistObjectId(c) \/ IsDocument(c) \/ IsFolder(c))
    BY <1>1 DEF GetDocument, GetDocumentMetaData, GetFolderRights, ExistObjectPath, ExistObjectId,
                IsDocument, IsFolder, Ask1, Call
  <1>3. R \/ ~(GetFolderByFolderpath(c) \/ GetFolderRoot(c) \/ GetDeletedFiles(c) \/ GetDocumentVersions(c)
               \/ GetFolderMeta(c))
    BY <1>1 DEF GetFolderByFolderpath, GetFolderRoot, GetDeletedFiles, GetDocumentVersions, GetFolderMeta, Call
  <1>4. R \/ ~(GetFile(c) \/ GetChildren(c) \/ GetContentStream(c) \/ GetAllVersions(c))
    BY <1>1 DEF GetFile, GetChildren, GetContentStream, GetAllVersions, Call
  <1>5. R \/ ~(GetObject(c) \/ GetFolderParent(c) \/ GetObjectParents(c) \/ GetAllowableActions(c)
               \/ GetRenditions(c) \/ GetRepositories(c) \/ GetRepositoryInfo(c))
    BY <1>1 DEF GetObject, GetFolderParent, GetObjectParents, GetAllowableActions, GetRenditions,
                GetRepositories, GetRepositoryInfo, ParentOf, Ask1, Call
  <1>6. R \/ ~BadId(c, ReadOps)
    BY DEF BadId
  <1>7. R
    BY <1>2, <1>3, <1>4, <1>5, <1>6 DEF ReadStep, DmsRead, CmisRead
  <1>8. TreeOK(tree)
    BY DEF Inv, StoreInv
  <1> QED
    BY <1>7, <1>8, ReadsContained, LooksContained, Untouched

(***************************************************************************)
(* The handlers that go on with what they were told.                       *)
(***************************************************************************)
\* What a call makes of a request that goes on as k.
LEMMA EndsAt ==
  ASSUME Inv, NEW c \in Clients, NEW r, NEW call, Called(r, call), NEW a \in Answers(r),
         NEW step, NEW seen, NEW left, NEW reply, NEW says,
         Ends(c, r, a, Job(job[c].ask, step, seen, left, reply, says, job[c].log))
  PROVE  LET j == job'[c]
         IN  /\ j.ask = job[c].ask /\ j.step = step /\ j.seen = seen
             /\ job[c].log \subseteq j.log /\ Known(a.info.id, j.log)
  <1>1. PICK k : k = Job(job[c].ask, step, seen, left, reply, says, job[c].log)
    OBVIOUS
  <1>2. PICK e : e = Entry(r, a)
    OBVIOUS
  <1>3. Shape(k) /\ k.log = job[c].log
    BY <1>1, JobsAre
  <1>4. PICK log : log = k.log \cup {e}
    OBVIOUS
  <1>5. [k EXCEPT !.log = log] = Job(job[c].ask, step, seen, left, reply, says, log)
    BY <1>1 DEF Job
  <1>6. job'[c] = [k EXCEPT !.log = log]
    <2>1. job = [x \in Clients |-> job[x]]
      BY DEF Inv, StoreInv
    <2> QED
      BY <1>1, <1>2, <1>4, <2>1 DEF Ends
  <1>7. a.info = r.info /\ e.obj = r.did.obj
    BY <1>2, AnswerOK DEF Inv, StoreInv
  <1>8. Known(a.info.id, log)
    BY <1>4, <1>7 DEF Called, Known
  <1>9. job'[c] = Job(job[c].ask, step, seen, left, reply, says, log)
    BY <1>5, <1>6
  <1> QED
    BY <1>3, <1>4, <1>8, <1>9, JobsAre

LEMMA Stays == ASSUME NEW id, NEW log, NEW more, log \subseteq more, Known(id, log) PROVE Known(id, more)
  BY DEF Known

\* An answer ends what there is to remember.
LEMMA Forgets ==
  ASSUME Inv, NEW c \in Clients, NEW r, NEW call, Called(r, call), NEW a \in Answers(r),
         NEW code, Ends(c, r, a, Reply(job[c], code)) \/ \E what : Ends(c, r, a, Says(job[c], code, what))
  PROVE  MemOK(job'[c])
  <1>1. Shape(job[c])
    BY DEF Inv, StoreInv, JobOK, Base
  <1>2. PICK none : none = <<>>
    OBVIOUS
  <1>3. PICK says : Ends(c, r, a, Job(job[c].ask, 0, none, none, code, says, job[c].log))
    BY <1>1, <1>2, RepliesAre, SaysAre
  <1>4. LET j == job'[c] IN /\ j.ask = job[c].ask /\ j.step = 0 /\ j.seen = none
                            /\ job[c].log \subseteq j.log /\ Known(a.info.id, j.log)
    BY <1>3, EndsAt
  <1> QED
    BY <1>4, NoMem

\* A request that goes on with what it remembers, and one that learns of an object.
LEMMA GoesOn ==
  ASSUME Inv, NEW c \in Clients, NEW r, NEW call, Called(r, call), NEW a \in Answers(r), NEW step,
         Ends(c, r, a, GoTo(job[c], step))
  PROVE  LET j == job'[c]
         IN  /\ j.ask = job[c].ask /\ j.step = step /\ j.seen = job[c].seen
             /\ job[c].log \subseteq j.log /\ Known(a.info.id, j.log)
  <1>1. Shape(job[c])
    BY DEF Inv, StoreInv, JobOK, Base
  <1>2. PICK seen, left, reply, says :
          seen = job[c].seen /\ left = job[c].left /\ reply = job[c].reply /\ says = job[c].says
    OBVIOUS
  <1>3. Ends(c, r, a, Job(job[c].ask, step, seen, left, reply, says, job[c].log))
    BY <1>1, <1>2, GoesToAre
  <1>4. LET j == job'[c] IN /\ j.ask = job[c].ask /\ j.step = step /\ j.seen = seen
                            /\ job[c].log \subseteq j.log /\ Known(a.info.id, j.log)
    BY <1>3, EndsAt
  <1> QED
    BY <1>2, <1>4

LEMMA LearnsMore ==
  ASSUME Inv, NEW c \in Clients, NEW r, NEW call, Called(r, call), NEW a \in Answers(r), NEW step,
         \/ Ends(c, r, a, GoTo(Learn(job[c], a), step))
         \/ Ends(c, r, a, Learn(job[c], a)) /\ step = job[c].step + 1
  PROVE  LET j == job'[c]
         IN  /\ j.ask = job[c].ask /\ j.step = step /\ j.seen = Append(job[c].seen, a.info)
             /\ job[c].log \subseteq j.log /\ Known(a.info.id, j.log)
  <1>1. Shape(job[c])
    BY DEF Inv, StoreInv, JobOK, Base
  <1>2. PICK more, left, reply, says : /\ more = Append(job[c].seen, a.info)
                                       /\ left = job[c].left /\ reply = job[c].reply /\ says = job[c].says
    OBVIOUS
  <1>3. Ends(c, r, a, Job(job[c].ask, step, more, left, reply, says, job[c].log))
    BY <1>1, <1>2, LearnsAre, LearnsToAre
  <1>4. LET j == job'[c] IN /\ j.ask = job[c].ask /\ j.step = step /\ j.seen = more
                            /\ job[c].log \subseteq j.log /\ Known(a.info.id, j.log)
    BY <1>3, EndsAt
  <1> QED
    BY <1>2, <1>4

\* The ways a call may leave a request.
Answered(c, r) ==
  \E a \in Answers(r) : \E code : \/ Ends(c, r, a, Reply(job[c], code))
                                  \/ \E what : Ends(c, r, a, Says(job[c], code, what))
Passed(c, r, step) == \E a \in Answers(r) : Ends(c, r, a, GoTo(job[c], step))
Learned(c, r, step) ==
  \E a \in Answers(r) : \/ Ends(c, r, a, GoTo(Learn(job[c], a), step))
                        \/ Ends(c, r, a, Learn(job[c], a)) /\ step = job[c].step + 1

LEMMA WaysOn ==
  ASSUME Inv, NEW c \in Clients, NEW r, NEW call, Called(r, call)
  PROVE  /\ Answered(c, r) => MemOK(job'[c]) /\ By(r)
         /\ \A step : Passed(c, r, step)
              => /\ By(r) /\ job'[c].ask = job[c].ask /\ job'[c].step = step /\ job'[c].seen = job[c].seen
                 /\ job[c].log \subseteq job'[c].log
         /\ \A step : Learned(c, r, step)
              => /\ By(r) /\ job'[c].ask = job[c].ask /\ job'[c].step = step
                 /\ \E i : job'[c].seen = Append(job[c].seen, i) /\ Known(i.id, job'[c].log)
                 /\ job[c].log \subseteq job'[c].log
  <1>1. \A a \in Answers(r) : \A k : Ends(c, r, a, k) => By(r)
    BY DEF Ends, By
  <1>2. Answered(c, r) => MemOK(job'[c]) /\ By(r)
    BY <1>1, Forgets DEF Answered
  <1>3. ASSUME NEW step, Passed(c, r, step)
        PROVE  /\ By(r) /\ job'[c].ask = job[c].ask /\ job'[c].step = step /\ job'[c].seen = job[c].seen
               /\ job[c].log \subseteq job'[c].log
    <2>1. PICK a \in Answers(r) : Ends(c, r, a, GoTo(job[c], step))
      BY <1>3 DEF Passed
    <2>2. LET j == job'[c] IN /\ j.ask = job[c].ask /\ j.step = step /\ j.seen = job[c].seen
                              /\ job[c].log \subseteq j.log /\ Known(a.info.id, j.log)
      BY <2>1, GoesOn
    <2> QED
      BY <1>1, <2>1, <2>2
  <1>4. ASSUME NEW step, Learned(c, r, step)
        PROVE  /\ By(r) /\ job'[c].ask = job[c].ask /\ job'[c].step = step
               /\ \E i : job'[c].seen = Append(job[c].seen, i) /\ Known(i.id, job'[c].log)
               /\ job[c].log \subseteq job'[c].log
    <2>1. PICK a \in Answers(r) : \/ Ends(c, r, a, GoTo(Learn(job[c], a), step))
                                  \/ Ends(c, r, a, Learn(job[c], a)) /\ step = job[c].step + 1
      BY <1>4 DEF Learned
    <2>2. LET j == job'[c] IN /\ j.ask = job[c].ask /\ j.step = step /\ j.seen = Append(job[c].seen, a.info)
                              /\ job[c].log \subseteq j.log /\ Known(a.info.id, j.log)
      <3>1. CASE Ends(c, r, a, GoTo(Learn(job[c], a), step))
        BY <3>1, LearnsMore
      <3>2. CASE Ends(c, r, a, Learn(job[c], a)) /\ step = job[c].step + 1
        BY <3>2, LearnsMore
      <3> QED
        BY <2>1, <3>1, <3>2
    <2> QED
      BY <1>1, <2>1, <2>2
  <1> QED
    BY <1>2, <1>3, <1>4

LEMMA HasMore ==
  ASSUME NEW seen, NEW log, NEW more, log \subseteq more
  PROVE  /\ HasOne(seen, log) => HasOne(seen, more)
         /\ HasTwo(seen, log) => HasTwo(seen, more)
         /\ \A d : HasOne(seen, log) /\ Known(d.id, more) => HasTwo(Append(seen, d), more)
         /\ \A d : seen = <<>> /\ Known(d.id, more) => HasOne(Append(seen, d), more)
  <1>1. \A d : Append(<<>>, d) = <<d>>
    OBVIOUS
  <1>2. ASSUME NEW i, NEW d PROVE Append(<<i>>, d) = <<i, d>>
    <2>1. Append(<<i>>, d) \in Seq({i, d}) /\ Len(Append(<<i>>, d)) = 2
      OBVIOUS
    <2>2. Append(<<i>>, d)[1] = i /\ Append(<<i>>, d)[2] = d
      OBVIOUS
    <2>3. PICK u : u = Append(<<i>>, d)
      OBVIOUS
    <2>4. u \in Seq({i, d}) /\ Len(u) = 2 /\ u[1] = i /\ u[2] = d
      BY <2>1, <2>2, <2>3
    <2>5. u = <<i, d>>
      BY <2>4
    <2> QED
      BY <2>3, <2>5
  <1> QED
    BY <1>1, <1>2, Stays DEF HasOne, HasTwo

Safe(c) == Contained(c) /\ MemOK(job'[c])

LEMMA SetFileSafe ==
  ASSUME MemInv, NEW c \in Clients, SetFile(c)
  PROVE  Safe(c)
  <1> DEFINE j == job[c]
             init == Initiate(tree, j.ask.ref)
             put == PutBytes(tree, j.ask.ref, j.seen[1].id, c)
  <1>1. \/ j.step = 1 /\ (Learned(c, init, 3) \/ Passed(c, init, 2) \/ Answered(c, init))
        \/ j.step = 2 /\ (Learned(c, init, 3) \/ Answered(c, init))
        \/ j.step = 3 /\ Answered(c, put)
    BY DEF SetFile, Begins, At, Call, LearnOr, OkOr, Learned, Passed, Answered
  <1>2. j.ask.op = "SetFile"
    BY DEF SetFile, Begins, At
  <1>3. Inv /\ TreeOK(tree) /\ MemOK(j) /\ Called(init, "Initiate") /\ Called(put, "Put")
    BY LooksCalled, PutCalled DEF MemInv, Inv, StoreInv
  <1>4. CASE j.step \in 1..2 /\ (Learned(c, init, 3) \/ Passed(c, init, 2) \/ Answered(c, init))
    <2>1. By(init)
      BY <1>3, <1>4, WaysOn
    <2>2. Contained(c)
      BY <1>3, <2>1, ReadsContained
    <2>3. j.seen = <<>>
      BY <1>2, <1>3, <1>4 DEF MemOK, Mem, Minds
    <2> HIDE DEF j, init
    <2>4. MemOK(job'[c]) \/ Learned(c, init, 3) \/ Passed(c, init, 2)
      BY <1>3, <1>4, WaysOn
    <2>5. CASE Learned(c, init, 3)
      <3>1. /\ job'[c].ask.op = "SetFile" /\ job'[c].step = 3
            /\ HasOne(job'[c].seen, job'[c].log)
        <4>1. PICK i : /\ job'[c].ask = job[c].ask /\ job'[c].step = 3
                       /\ job'[c].seen = Append(job[c].seen, i) /\ Known(i.id, job'[c].log)
          BY <1>3, <2>5, WaysOn
        <4>2. HasOne(Append(job[c].seen, i), job'[c].log)
          BY <2>3, <4>1, HasMore DEF j
        <4> QED
          BY <1>2, <4>1, <4>2 DEF j
      <3> QED
        BY <2>2, <3>1 DEF MemOK, Mem, LearnsOne, Safe
    <2>6. CASE Passed(c, init, 2)
      <3>1. job'[c].ask.op = "SetFile" /\ job'[c].step = 2 /\ job'[c].seen = <<>>
        BY <1>2, <1>3, <2>3, <2>6, WaysOn DEF j
      <3> QED
        BY <2>2, <3>1 DEF MemOK, Mem, LearnsOne, Safe
    <2> QED
      BY <2>2, <2>4, <2>5, <2>6 DEF Safe
  <1>5. CASE j.step = 3 /\ Answered(c, put)
    <2>1. By(put) /\ MemOK(job'[c])
      BY <1>3, <1>5, WaysOn
    <2>2. Known(j.seen[1].id, j.log)
      BY <1>2, <1>3, <1>5 DEF MemOK, Mem, HasOne
    <2>3. Contained(c)
      BY <1>3, <2>1, <2>2, NamesTarget, PutsContained
    <2> QED
      BY <2>1, <2>3 DEF Safe
  <1> QED
    BY <1>1, <1>4, <1>5

LEMMA CreateRootFolderSafe ==
  ASSUME MemInv, NEW c \in Clients, CreateRootFolder(c)
  PROVE  Safe(c)
  <1> DEFINE j == job[c]
             make == CreateSpace(tree, j.ask.name)
             ref == Ref(j.seen[1].id, <<>>)
             set == SetMetadata(tree, ref, c)
  <1>1. \/ j.step = 1 /\ (Learned(c, make, 2) \/ Answered(c, make))
        \/ j.step = 2 /\ Answered(c, set)
    BY DEF CreateRootFolder, At, Call, OkOr, Learned, Answered
  <1>2. j.ask.op = "CreateRootFolder"
    BY DEF CreateRootFolder, At
  <1>3. Inv /\ TreeOK(tree) /\ MemOK(j) /\ Called(make, "Space") /\ Called(set, "Meta")
    BY SpaceCalled, MetaCalled DEF MemInv, Inv, StoreInv
  <1>4. CASE j.step = 1 /\ (Learned(c, make, 2) \/ Answered(c, make))
    <2>1. By(make)
      BY <1>3, <1>4, WaysOn
    <2>2. Contained(c)
      BY <1>3, <2>1, CallsContained
    <2>3. j.seen = <<>>
      BY <1>2, <1>3, <1>4 DEF MemOK, Mem, Minds, LearnsOne
    <2> HIDE DEF j, make
    <2>4. CASE Learned(c, make, 2)
      <3>1. PICK i : /\ job'[c].ask = job[c].ask /\ job'[c].step = 2
                     /\ job'[c].seen = Append(job[c].seen, i) /\ Known(i.id, job'[c].log)
        BY <1>3, <2>4, WaysOn
      <3>2. HasOne(Append(job[c].seen, i), job'[c].log)
        BY <2>3, <3>1, HasMore DEF j
      <3> QED
        BY <1>2, <2>2, <3>1, <3>2 DEF j, MemOK, Mem, Safe
    <2>5. CASE Answered(c, make)
      BY <1>3, <2>2, <2>5, WaysOn DEF Safe
    <2> QED
      BY <1>4, <2>4, <2>5
  <1>5. CASE j.step = 2 /\ Answered(c, set)
    <2>1. By(set) /\ MemOK(job'[c])
      BY <1>3, <1>5, WaysOn
    <2>2. Known(j.seen[1].id, j.log)
      BY <1>2, <1>3, <1>5 DEF MemOK, Mem, LearnsOne, HasOne
    <2>3. Resolve(tree, ref) \in Ids => Resolve(tree, ref) \in Named(c)
      BY <2>2, ResolvesItself, NamesKnown, StoreIds
    <2>4. Contained(c)
      BY <1>3, <2>1, <2>3, CallsContained
    <2> QED
      BY <2>1, <2>4 DEF Safe
  <1> QED
    BY <1>1, <1>4, <1>5

LEMMA ContentSafe ==
  ASSUME MemInv, NEW c \in Clients, SetContentStream(c) \/ DeleteContentStream(c)
  PROVE  Safe(c)
  <1> DEFINE j == job[c]
             init == Initiate(tree, Target(c))
             look == Stat(tree, Target(c))
             Put(body) == PutBytes(tree, Target(c), j.seen[1].id, body)
  <1>1. \/ j.step = 1 /\ (Learned(c, init, 2) \/ Answered(c, init))
        \/ j.step = 2 /\ \E body : Answered(c, Put(body)) \/ Passed(c, Put(body), 3)
        \/ j.step = 3 /\ Answered(c, look)
    <2>1. \A a : Honest(j, a) \in {Says(j, 200, "there"), Says(j, 404, "absent"), Reply(j, 500)}
      BY DEF Honest
    <2>2. (\E a \in Answers(look) : Ends(c, look, a, Honest(j, a))) => Answered(c, look)
      BY <2>1 DEF Answered
    <2> HIDE DEF look
    <2>3. DeleteContentStream(c) =>
            \/ j.step = 1 /\ (Learned(c, init, 2) \/ Answered(c, init))
            \/ j.step = 2 /\ \E body : Answered(c, Put(body))
      BY DEF DeleteContentStream, InitiateContent, Begins, At, Call, LearnOr, OkOr, Learned, Answered
    <2>4. SetContentStream(c) =>
            \/ j.step = 1 /\ (Learned(c, init, 2) \/ Answered(c, init))
            \/ j.step = 2 /\ \E body : Answered(c, Put(body)) \/ Passed(c, Put(body), 3)
            \/ j.step = 3 /\ \E a \in Answers(look) : Ends(c, look, a, Honest(j, a))
      BY DEF SetContentStream, InitiateContent, Begins, At, Call, LearnOr, Learned, Passed, Answered, look
    <2> QED
      BY <2>2, <2>3, <2>4
  <1>2. j.ask.op \in {"SetContentStream", "DeleteContentStream"}
    BY DEF SetContentStream, DeleteContentStream, Begins, At
  <1>3. /\ Inv /\ TreeOK(tree) /\ MemOK(j) /\ Called(init, "Initiate") /\ Called(look, "Stat")
        /\ \A body : Called(Put(body), "Put")
    BY LooksCalled, StatCalled, PutCalled DEF MemInv, Inv, StoreInv
  <1>4. CASE j.step = 1 /\ (Learned(c, init, 2) \/ Answered(c, init))
    <2>1. By(init)
      BY <1>3, <1>4, WaysOn
    <2>2. Contained(c)
      BY <1>3, <2>1, ReadsContained
    <2>3. j.seen = <<>>
      BY <1>2, <1>3, <1>4 DEF MemOK, Mem, Minds, LearnsOne
    <2> HIDE DEF j, init
    <2>4. CASE Learned(c, init, 2)
      <3>1. PICK i : /\ job'[c].ask = job[c].ask /\ job'[c].step = 2
                     /\ job'[c].seen = Append(job[c].seen, i) /\ Known(i.id, job'[c].log)
        BY <1>3, <2>4, WaysOn
      <3>2. HasOne(Append(job[c].seen, i), job'[c].log)
        BY <2>3, <3>1, HasMore DEF j
      <3> QED
        BY <1>2, <2>2, <3>1, <3>2 DEF j, MemOK, Mem, Safe
    <2>5. CASE Answered(c, init)
      BY <1>3, <2>2, <2>5, WaysOn DEF Safe
    <2> QED
      BY <1>4, <2>4, <2>5
  <1>5. CASE j.step = 2 /\ \E body : Answered(c, Put(body)) \/ Passed(c, Put(body), 3)
    <2>1. PICK body : Answered(c, Put(body)) \/ Passed(c, Put(body), 3)
      BY <1>5
    <2>2. By(Put(body))
      BY <1>3, <2>1, WaysOn
    <2>3. Known(j.seen[1].id, j.log)
      BY <1>2, <1>3, <1>5 DEF MemOK, Mem, LearnsOne, HasOne
    <2>4. Contained(c)
      BY <1>3, <2>2, <2>3, NamesTarget, PutsContained
    <2>5. CASE Passed(c, Put(body), 3)
      <3>1. job'[c].ask = job[c].ask /\ job'[c].step = 3
        BY <1>3, <2>5, WaysOn
      <3> QED
        BY <1>2, <2>4, <3>1 DEF MemOK, Mem, LearnsOne, Safe
    <2>6. CASE Answered(c, Put(body))
      BY <1>3, <2>4, <2>6, WaysOn DEF Safe
    <2> QED
      BY <2>1, <2>5, <2>6
  <1>6. CASE j.step = 3 /\ Answered(c, look)
    <2>1. By(look) /\ MemOK(job'[c])
      BY <1>3, <1>6, WaysOn
    <2> QED
      BY <1>3, <2>1, ReadsContained DEF Safe
  <1> QED
    BY <1>1, <1>4, <1>5, <1>6

\* The properties go to what is named, by a call or without.
LEMMA PropertiesPass ==
  ASSUME Inv, NEW c \in Clients, NEW ref, NEW next, SetProperties(c, ref, next),
         Resolve(tree, ref) \in Ids => Resolve(tree, ref) \in Named(c)
  PROVE  /\ Contained(c) /\ job'[c].ask = job[c].ask /\ job'[c].step = next
         /\ job'[c].seen = job[c].seen /\ job[c].log \subseteq job'[c].log
  <1> DEFINE set == SetMetadata(tree, ref, c)
  <1>1. Called(set, "Meta") /\ TreeOK(tree) /\ job = [x \in Clients |-> job[x]] /\ Shape(job[c])
    BY MetaCalled DEF Inv, StoreInv, JobOK, Base
  <1>2. \/ Passed(c, set, next)
        \/ job' = [job EXCEPT ![c] = GoTo(@, next)] /\ tree' = tree
    BY DEF SetProperties, Call, Passed
  <1>3. CASE Passed(c, set, next)
    BY <1>1, <1>3, WaysOn, CallsContained
  <1>4. CASE job' = [job EXCEPT ![c] = GoTo(@, next)] /\ tree' = tree
    <2>1. PICK ask, seen, left, reply, says, log :
            /\ ask = job[c].ask /\ seen = job[c].seen /\ left = job[c].left
            /\ reply = job[c].reply /\ says = job[c].says /\ log = job[c].log
      OBVIOUS
    <2>2. job'[c] = Job(ask, next, seen, left, reply, says, log)
      BY <1>1, <1>4, <2>1, GoesToAre
    <2> QED
      BY <1>4, <2>1, <2>2, JobsAre, Untouched
  <1> QED
    BY <1>2, <1>3, <1>4

LEMMA CreateDocumentSafe ==
  ASSUME MemInv, NEW c \in Clients, CreateDocument(c)
  PROVE  Safe(c)
  <1> DEFINE j == job[c]
             ref == Ref(j.seen[1].id, Split(j.ask.name))
             parent == Stat(tree, Target(c))
             init == Initiate(tree, ref)
             put == PutBytes(tree, ref, j.seen[2].id, c)
             look == Stat(tree, ref)
  <1>1. \/ j.step = 1 /\ (Learned(c, parent, 2) \/ Answered(c, parent))
        \/ j.step = 2 /\ (Learned(c, init, 3) \/ Learned(c, init, 4) \/ Answered(c, init))
        \/ j.step = 3 /\ (Passed(c, put, 4) \/ Answered(c, put))
        \/ j.step = 4 /\ SetProperties(c, ref, 5)
        \/ j.step = 5 /\ Answered(c, look)
    BY DEF CreateDocument, Begins, At, Call, LearnOr, Learned, Passed, Answered
  <1>2. j.ask.op = "CreateDocument"
    BY DEF CreateDocument, Begins, At
  <1>3. /\ Inv /\ TreeOK(tree) /\ MemOK(j) /\ Called(parent, "Stat") /\ Called(init, "Initiate")
        /\ Called(put, "Put") /\ Called(look, "Stat")
    BY LooksCalled, StatCalled, PutCalled DEF MemInv, Inv, StoreInv
  <1>4. CASE j.step = 1 /\ (Learned(c, parent, 2) \/ Answered(c, parent))
    <2>1. Contained(c)
      BY <1>3, <1>4, WaysOn, ReadsContained
    <2>2. j.seen = <<>>
      BY <1>2, <1>3, <1>4 DEF MemOK, Mem, Minds, LearnsOne
    <2> HIDE DEF j, parent
    <2>3. CASE Learned(c, parent, 2)
      <3>1. PICK i : /\ job'[c].ask = job[c].ask /\ job'[c].step = 2
                     /\ job'[c].seen = Append(job[c].seen, i) /\ Known(i.id, job'[c].log)
        BY <1>3, <2>3, WaysOn
      <3>2. HasOne(Append(job[c].seen, i), job'[c].log)
        BY <2>2, <3>1, HasMore DEF j
      <3> QED
        BY <1>2, <2>1, <3>1, <3>2 DEF j, MemOK, Mem, Safe
    <2>4. CASE Answered(c, parent)
      BY <1>3, <2>1, <2>4, WaysOn DEF Safe
    <2> QED
      BY <1>4, <2>3, <2>4
  <1>5. CASE j.step = 2 /\ (Learned(c, init, 3) \/ Learned(c, init, 4) \/ Answered(c, init))
    <2>1. Contained(c)
      BY <1>3, <1>5, WaysOn, ReadsContained
    <2>2. HasOne(j.seen, j.log)
      BY <1>2, <1>3, <1>5 DEF MemOK, Mem, LearnsOne
    <2> HIDE DEF j, init
    <2>3. ASSUME NEW step \in {3, 4}, Learned(c, init, step)
          PROVE  Safe(c)
      <3>1. PICK i : /\ job'[c].ask = job[c].ask /\ job'[c].step = step /\ job[c].log \subseteq job'[c].log
                     /\ job'[c].seen = Append(job[c].seen, i) /\ Known(i.id, job'[c].log)
        BY <1>3, <2>3, WaysOn
      <3>2. HasTwo(Append(job[c].seen, i), job'[c].log)
        BY <2>2, <3>1, HasMore DEF j
      <3> QED
        BY <1>2, <2>1, <3>1, <3>2 DEF j, MemOK, Mem, LearnsOne, Safe
    <2>4. CASE Answered(c, init)
      BY <1>3, <2>1, <2>4, WaysOn DEF Safe
    <2> QED
      BY <1>5, <2>3, <2>4
  <1>6. j.step \in 3..5 =>
          /\ HasTwo(j.seen, j.log)
          /\ Resolve(tree, ref) \in Ids => Resolve(tree, ref) \in Named(c)
    <2>1. j.step \in 3..5 => HasTwo(j.seen, j.log)
      BY <1>2, <1>3 DEF MemOK, Mem
    <2>2. HasTwo(j.seen, j.log) => 1 \in DOMAIN j.seen /\ j.seen[1].id # Slash
      BY StoreIds DEF HasTwo, Known
    <2> QED
      BY <2>1, <2>2, NamesBelow
  <1>7. CASE j.step = 3 /\ (Passed(c, put, 4) \/ Answered(c, put))
    <2>1. Known(j.seen[2].id, j.log)
      BY <1>6, <1>7 DEF HasTwo
    <2>2. By(put)
      BY <1>3, <1>7, WaysOn
    <2>3. Contained(c)
      BY <1>3, <1>6, <1>7, <2>1, <2>2, PutsContained
    <2>4. CASE Passed(c, put, 4)
      <3>1. /\ job'[c].ask = j.ask /\ job'[c].step = 4 /\ job'[c].seen = j.seen
            /\ j.log \subseteq job'[c].log
        BY <1>3, <2>4, WaysOn
      <3>2. HasTwo(job'[c].seen, job'[c].log)
        <4>1. HasTwo(j.seen, j.log)
          BY <1>6, <1>7
        <4>2. HasTwo(j.seen, job'[c].log)
          BY <3>1, <4>1, HasMore
        <4> QED
          BY <3>1, <4>2
      <3> QED
        BY <1>2, <2>3, <3>1, <3>2 DEF MemOK, Mem, LearnsOne, Safe
    <2>5. CASE Answered(c, put)
      BY <1>3, <2>3, <2>5, WaysOn DEF Safe
    <2> QED
      BY <1>7, <2>4, <2>5
  <1>8. CASE j.step = 4 /\ SetProperties(c, ref, 5)
    <2>1. /\ Contained(c) /\ job'[c].ask = j.ask /\ job'[c].step = 5 /\ job'[c].seen = j.seen
          /\ j.log \subseteq job'[c].log
      BY <1>3, <1>6, <1>8, PropertiesPass
    <2>2. HasTwo(job'[c].seen, job'[c].log)
      <3>1. HasTwo(j.seen, j.log)
        BY <1>6, <1>8
      <3>2. HasTwo(j.seen, job'[c].log)
        BY <2>1, <3>1, HasMore
      <3> QED
        BY <2>1, <3>2
    <2> QED
      BY <1>2, <2>1, <2>2 DEF MemOK, Mem, LearnsOne, Safe
  <1>9. CASE j.step = 5 /\ Answered(c, look)
    BY <1>3, <1>9, WaysOn, ReadsContained DEF Safe
  <1> QED
    BY <1>1, <1>4, <1>5, <1>7, <1>8, <1>9

LEMMA CreateFolderSafe ==
  ASSUME MemInv, NEW c \in Clients, CreateFolder(c)
  PROVE  Safe(c)
  <1> DEFINE j == job[c]
             ref == NewCmisFolderRef(c)
             parent == Stat(tree, Target(c))
             make == CreateContainer(tree, ref)
             look == Stat(tree, ref)
             Unasked == j.seen = <<>> /\ j.ask.ref.at \notin {Slash, NoId}
  <1>1. \/ j.step = 1 /\ (Learned(c, parent, 2) \/ Answered(c, parent))
        \/ j.step = 1 /\ Target(c).at # Slash /\ (Passed(c, make, 3) \/ Answered(c, make))
        \/ j.step = 2 /\ (Passed(c, make, 3) \/ Answered(c, make))
        \/ j.step = 3 /\ SetProperties(c, ref, 4)
        \/ j.step = 4 /\ Answered(c, look)
    <2> HIDE DEF parent, look
    <2>1. \/ /\ j.step = 1
             /\ \E a \in Answers(parent) : Ends(c, parent, a, Learn(j, a)) \/ Ends(c, parent, a, Reply(j, 404))
          \/ /\ j.step = 2 \/ (j.step = 1 /\ Target(c).at # Slash)
             /\ \E a \in Answers(make) : \E k \in {GoTo(j, 3), Reply(j, 409), Reply(j, 500)} : Ends(c, make, a, k)
          \/ j.step = 3 /\ SetProperties(c, ref, 4)
          \/ j.step = 4 /\ \E a \in Answers(look) : Ends(c, look, a, Reply(j, 201))
      BY DEF CreateFolder, Begins, At, Call, LearnOr, parent, look
    <2> HIDE DEF make, ref
    <2>2. (\E a \in Answers(make) : \E k \in {GoTo(j, 3), Reply(j, 409), Reply(j, 500)} : Ends(c, make, a, k))
            => Passed(c, make, 3) \/ Answered(c, make)
      BY DEF Passed, Answered
    <2>3. (\E a \in Answers(look) : Ends(c, look, a, Reply(j, 201))) => Answered(c, look)
      BY DEF Answered
    <2>4. j.step = 1
          /\ (\E a \in Answers(parent) : Ends(c, parent, a, Learn(j, a)) \/ Ends(c, parent, a, Reply(j, 404)))
            => Learned(c, parent, 2) \/ Answered(c, parent)
      BY DEF Learned, Answered
    <2> QED
      BY <2>1, <2>2, <2>3, <2>4
  <1>2. j.ask.op = "CreateFolder"
    BY DEF CreateFolder, Begins, At
  <1>3. /\ Inv /\ TreeOK(tree) /\ MemOK(j) /\ Called(parent, "Stat") /\ Called(make, "Create")
        /\ Called(look, "Stat")
    BY StatCalled, CreateCalled DEF MemInv, Inv, StoreInv
  <1>4. CASE j.step = 1 /\ (Learned(c, parent, 2) \/ Answered(c, parent))
    <2>1. Contained(c)
      BY <1>3, <1>4, WaysOn, ReadsContained
    <2>2. j.seen = <<>>
      BY <1>2, <1>3, <1>4 DEF MemOK, Mem, Minds, LearnsOne
    <2> HIDE DEF j, parent
    <2>3. CASE Learned(c, parent, 2)
      <3>1. PICK i : /\ job'[c].ask = job[c].ask /\ job'[c].step = 2
                     /\ job'[c].seen = Append(job[c].seen, i) /\ Known(i.id, job'[c].log)
        BY <1>3, <2>3, WaysOn
      <3>2. HasOne(Append(job[c].seen, i), job'[c].log)
        BY <2>2, <3>1, HasMore DEF j
      <3> QED
        BY <1>2, <2>1, <3>1, <3>2 DEF j, MemOK, Mem, Safe
    <2>4. CASE Answered(c, parent)
      BY <1>3, <2>1, <2>4, WaysOn DEF Safe
    <2> QED
      BY <1>4, <2>3, <2>4
  <1>5. j.step \in 2..4 \/ (j.step = 1 /\ Target(c).at # Slash) => HasOne(j.seen, j.log) \/ Unasked
    <2>1. j.step = 1 => j.seen = <<>>
      BY <1>2, <1>3 DEF MemOK, Mem, Minds, LearnsOne
    <2>2. Target(c).at # Slash => j.ask.ref.at \notin {Slash, NoId}
      BY DEF Target, BuildPathRef, Ref
    <2>3. j.step \in 2..4 => HasOne(j.seen, j.log) \/ Unasked
      BY <1>2, <1>3 DEF MemOK, Mem, LearnsOne
    <2> QED
      BY <2>1, <2>2, <2>3
  <1>6. \A step \in 3..4 : /\ job'[c].ask = j.ask /\ job'[c].step = step /\ job'[c].seen = j.seen
                           /\ j.log \subseteq job'[c].log
                           /\ HasOne(j.seen, j.log) \/ Unasked
                           => MemOK(job'[c])
    <2>1. j.log \subseteq job'[c].log /\ HasOne(j.seen, j.log) => HasOne(j.seen, job'[c].log)
      BY HasMore
    <2> QED
      BY <1>2, <2>1 DEF MemOK, Mem, LearnsOne
  <1>7. CASE /\ j.step = 2 \/ (j.step = 1 /\ Target(c).at # Slash)
             /\ Passed(c, make, 3) \/ Answered(c, make)
    <2>1. Contained(c)
      BY <1>3, <1>7, WaysOn, CallsContained
    <2>2. CASE Passed(c, make, 3)
      <3>1. /\ job'[c].ask = j.ask /\ job'[c].step = 3 /\ job'[c].seen = j.seen
            /\ j.log \subseteq job'[c].log
        BY <1>3, <2>2, WaysOn
      <3> QED
        BY <1>5, <1>6, <1>7, <2>1, <3>1 DEF Safe
    <2>3. CASE Answered(c, make)
      BY <1>3, <2>1, <2>3, WaysOn DEF Safe
    <2> QED
      BY <1>7, <2>2, <2>3
  <1>8. CASE j.step = 3 /\ SetProperties(c, ref, 4)
    <2>1. HasOne(j.seen, j.log) \/ Unasked
      BY <1>5, <1>8
    <2>2. Resolve(tree, ref) \in Ids => Resolve(tree, ref) \in Named(c)
      <3>1. CASE HasOne(j.seen, j.log)
        <4>1. 1 \in DOMAIN j.seen /\ j.seen[1].id # Slash /\ j.seen # <<>>
          BY <3>1, StoreIds DEF HasOne, Known
        <4>2. ref = Ref(j.seen[1].id, Split(j.ask.name))
          BY <4>1 DEF NewCmisFolderRef
        <4> QED
          BY <4>1, <4>2, NamesBelow
      <3>2. CASE Unasked
        <4>1. Target(c) = j.ask.ref
          BY <3>2 DEF Target, BuildPathRef
        <4>2. ref = Ref(j.ask.ref.at, Split(j.ask.name))
          BY <3>2, <4>1 DEF NewCmisFolderRef
        <4> QED
          BY <3>2, <4>2, NamesBelow
      <3> QED
        BY <2>1, <3>1, <3>2
    <2> HIDE DEF ref
    <2>3. /\ Contained(c) /\ job'[c].ask = j.ask /\ job'[c].step = 4 /\ job'[c].seen = j.seen
          /\ j.log \subseteq job'[c].log
      BY <1>3, <1>8, <2>2, PropertiesPass
    <2> QED
      BY <1>6, <2>1, <2>3 DEF Safe
  <1>9. CASE j.step = 4 /\ Answered(c, look)
    BY <1>3, <1>9, WaysOn, ReadsContained DEF Safe
  <1> QED
    BY <1>1, <1>4, <1>7, <1>8, <1>9

(***************************************************************************)
(* The import, which goes on with ids it makes entries of itself.          *)
(***************************************************************************)
LEMMA KnowsMore ==
  ASSUME Inv, NEW c \in Clients, NEW r, NEW call, Called(r, call), NEW a \in Answers(r), NEW id, NEW step,
         Ends(c, r, a, Knows(job[c], id, step))
  PROVE  LET j == job'[c]
         IN  /\ j.ask = job[c].ask /\ j.step = step
             /\ \E i : i.id = id /\ j.seen = Append(job[c].seen, i)
             /\ job[c].log \subseteq j.log /\ Known(a.info.id, j.log)
  <1>1. Shape(job[c])
    BY DEF Inv, StoreInv, JobOK, Base
  <1>2. PICK i : i = [NoInfo EXCEPT !.id = id]
    OBVIOUS
  <1>3. i.id = id
    BY <1>1, <1>2, KnowsAre
  <1>4. PICK more, left, reply, says : /\ more = Append(job[c].seen, i)
                                       /\ left = job[c].left /\ reply = job[c].reply /\ says = job[c].says
    OBVIOUS
  <1>5. Ends(c, r, a, Job(job[c].ask, step, more, left, reply, says, job[c].log))
    BY <1>1, <1>2, <1>4, KnowsAre
  <1>6. LET j == job'[c] IN /\ j.ask = job[c].ask /\ j.step = step /\ j.seen = more
                            /\ job[c].log \subseteq j.log /\ Known(a.info.id, j.log)
    BY <1>5, EndsAt
  <1> QED
    BY <1>3, <1>4, <1>6

LEMMA Grown ==
  ASSUME NEW s, IsSeq(s), NEW i
  PROVE  /\ Append(s, i) # <<>> /\ Last(Append(s, i)) = i
         /\ s # <<>> => Append(s, i)[1] = s[1]
         /\ s = <<>> => Append(s, i)[1] = i
  <1>0. Len(s) \in Nat
    BY DEF IsSeq
  <1>1. Append(s, i) # <<>> /\ Last(Append(s, i)) = i
    <2>1. Len(Append(s, i)) = Len(s) + 1 /\ Last(Append(s, i)) = i
      BY Appended
    <2> QED
      BY <1>0, <2>1
  <1>2. s # <<>> => Append(s, i)[1] = s[1]
    <2>1. PICK S : s \in Seq(S)
      BY DEF IsSeq
    <2>2. s # <<>> => 1 \in 1..Len(s)
      BY <2>1
    <2> QED
      BY <2>1, <2>2
  <1>3. s = <<>> => Append(s, i) = <<i>>
    BY Appended
  <1> QED
    BY <1>1, <1>2, <1>3

\* What an import that goes on has to remember.
LEMMA Imports ==
  ASSUME NEW j, j.ask.op = "Import", j.step \in 2..9, Aims(j.ask, j.seen),
         j.step \in 4..9 => j.seen # <<>> /\ Known(Last(j.seen).id, j.log)
  PROVE  MemOK(j)
  BY DEF MemOK, Mem, LearnsOne

\* One that learns an id goes on aiming where it did.
LEMMA ImportLearns ==
  ASSUME Inv, NEW c \in Clients, job[c].ask.op = "Import", NEW r, NEW call, Called(r, call), NEW a \in Answers(r),
         NEW id, NEW step \in 2..9, Ends(c, r, a, Knows(job[c], id, step)),
         Aims(job[c].ask, job[c].seen) \/ (job[c].seen = <<>> /\ id \in Ids),
         step \in 4..9 => id \in {NoId, a.info.id}
  PROVE  MemOK(job'[c])
  <1>1. IsSeq(job[c].seen)
    BY DEF Inv, StoreInv, JobOK, Base
  <1>2. PICK i : /\ i.id = id /\ job'[c].seen = Append(job[c].seen, i)
                 /\ job'[c].ask = job[c].ask /\ job'[c].step = step /\ Known(a.info.id, job'[c].log)
    <2>1. LET j == job'[c]
          IN  /\ j.ask = job[c].ask /\ j.step = step
              /\ \E i : i.id = id /\ j.seen = Append(job[c].seen, i)
              /\ job[c].log \subseteq j.log /\ Known(a.info.id, j.log)
      BY KnowsMore
    <2> QED
      BY <2>1
  <1>3. PICK s : s = Append(job[c].seen, i)
    OBVIOUS
  <1>4. /\ s # <<>> /\ Last(s) = i /\ (job[c].seen # <<>> => s[1] = job[c].seen[1])
        /\ job[c].seen = <<>> => s[1] = i
    BY <1>1, <1>3, Grown
  <1>5. Aims(job[c].ask, s)
    BY <1>2, <1>4 DEF Aims
  <1>6. step \in 4..9 => s # <<>> /\ Known(Last(s).id, job'[c].log)
    BY <1>2, <1>4 DEF Known
  <1>7. Aims(job'[c].ask, job'[c].seen)
    BY <1>2, <1>3, <1>5
  <1>8. job'[c].step \in 4..9 => job'[c].seen # <<>> /\ Known(Last(job'[c].seen).id, job'[c].log)
    BY <1>2, <1>3, <1>6
  <1> QED
    BY <1>2, <1>7, <1>8, Imports

\* One that goes on without.
LEMMA ImportPasses ==
  ASSUME Inv, NEW c \in Clients, job[c].ask.op = "Import", NEW step \in 2..9,
         job'[c].ask = job[c].ask, job'[c].step = step, job'[c].seen = job[c].seen, job[c].log \subseteq job'[c].log,
         Aims(job[c].ask, job[c].seen),
         step \in 4..9 => job[c].seen # <<>> /\ Known(Last(job[c].seen).id, job[c].log)
  PROVE  MemOK(job'[c])
  <1>1. \A id : Known(id, job[c].log) => Known(id, job'[c].log)
    BY Stays
  <1> QED
    BY <1>1, Imports

\* An import uploads to the name it was given in the place it was given or told.
LEMMA UploadNamed ==
  ASSUME MemInv, NEW c \in Clients, job[c].ask.op = "Import", Aims(job[c].ask, job[c].seen),
         Resolve(tree, UploadRef(job[c])) \in Ids
  PROVE  Resolve(tree, UploadRef(job[c])) \in Named(c)
  <1> DEFINE j == job[c]
  <1>1. IsSeq(j.seen) /\ j.ask.ref \in IdRefs /\ j.ask.dst \in IdRefs
    BY DEF MemInv, Inv, StoreInv, JobOK, Base, AskOK
  <1>2. CASE GivenTarget(j.ask) # Nowhere
    <2>1. GivenTarget(j.ask) \in {j.ask.ref, j.ask.dst}
      BY DEF GivenTarget
    <2>2. GivenTarget(j.ask).at # Slash
      BY <1>1, <2>1, StoreIds DEF IdRefs, Ref
    <2>3. UploadRef(j) = Ref(GivenTarget(j.ask).at, Escaped(j.ask.name))
      BY <1>2 DEF UploadRef
    <2> QED
      BY <2>1, <2>2, <2>3, NamesBelow
  <1>3. CASE GivenTarget(j.ask) = Nowhere
    <2>1. j.seen # <<>> /\ j.seen[1].id # Slash
      BY <1>3, StoreIds DEF Aims
    <2>2. 1 \in DOMAIN j.seen
      BY <1>1, <2>1 DEF IsSeq
    <2>3. UploadRef(j) = Ref(j.seen[1].id, Escaped(j.ask.name))
      BY <1>3 DEF UploadRef
    <2> QED
      BY <2>1, <2>2, <2>3, NamesBelow
  <1> QED
    BY <1>2, <1>3

LEMMA ChooseTargetSafe ==
  ASSUME MemInv, NEW c \in Clients, ChooseTarget(c)
  PROVE  Safe(c)
  <1> DEFINE j == job[c]
             r == ListSpaces(tree)
             id == AutoTarget(tree)
  <1>1. /\ j.step = 1 /\ j.ask.op = "Import"
        /\ \E a \in Answers(r) : \/ id # NoId /\ Ends(c, r, a, Knows(j, id, 2))
                                 \/ Ends(c, r, a, Reply(j, 500))
    BY DEF ChooseTarget, At, Call
  <1>2. Inv /\ TreeOK(tree) /\ MemOK(j) /\ Called(r, "Spaces")
    BY LooksCalled DEF MemInv, Inv, StoreInv
  <1>3. id # NoId => id \in Ids
    BY DEF AutoTarget, Spaces, Live
  <1> HIDE DEF id
  <1>4. PICK a \in Answers(r) : (id # NoId /\ Ends(c, r, a, Knows(j, id, 2))) \/ Ends(c, r, a, Reply(j, 500))
    BY <1>1
  <1>5. By(r) /\ Contained(c)
    <2>1. By(r)
      BY <1>4 DEF Ends, By
    <2> QED
      BY <1>2, <2>1, ReadsContained
  <1> HIDE DEF r
  <1>6. j.seen = <<>>
    BY <1>1, <1>2 DEF MemOK, Mem, Minds
  <1>7. CASE id # NoId /\ Ends(c, r, a, Knows(j, id, 2))
    <2>1. PICK step : step = 2
      OBVIOUS
    <2>2. step \in 2..9 /\ step \notin 4..9 /\ Ends(c, r, a, Knows(j, id, step))
      BY <1>7, <2>1
    <2>3. MemOK(job'[c])
      BY <1>1, <1>2, <1>3, <1>6, <1>7, <2>2, ImportLearns
    <2> QED
      BY <1>5, <2>3 DEF Safe
  <1>8. CASE Ends(c, r, a, Reply(j, 500))
    BY <1>2, <1>5, <1>8, Forgets DEF Safe
  <1> QED
    BY <1>4, <1>7, <1>8

LEMMA InitiateSafe ==
  ASSUME MemInv, NEW c \in Clients, InitiateUpload(c)
  PROVE  Safe(c)
  <1> DEFINE j == job[c]
             r == Initiate(tree, UploadRef(j))
  <1>1. /\ j.step \in 1..3 /\ j.ask.op = "Import" /\ (j.step = 1 => GivenTarget(j.ask) # Nowhere)
        /\ \E a \in Answers(r) : \/ Ends(c, r, a, Knows(j, a.info.id, 4))
                                 \/ Ends(c, r, a, GoTo(j, 3))
                                 \/ Ends(c, r, a, Reply(j, 500))
    BY DEF InitiateUpload, At, Call
  <1>2. Inv /\ TreeOK(tree) /\ MemOK(j) /\ Called(r, "Initiate")
    BY LooksCalled DEF MemInv, Inv, StoreInv
  <1>3. PICK a \in Answers(r) : \/ Ends(c, r, a, Knows(j, a.info.id, 4))
                                \/ Ends(c, r, a, GoTo(j, 3))
                                \/ Ends(c, r, a, Reply(j, 500))
    BY <1>1
  <1>4. By(r) /\ Contained(c)
    <2>1. By(r)
      BY <1>3 DEF Ends, By
    <2> QED
      BY <1>2, <2>1, ReadsContained
  <1>5. Aims(j.ask, j.seen)
    <2>1. j.step \in 2..3 => Aims(j.ask, j.seen)
      BY <1>1, <1>2 DEF MemOK, Mem
    <2> QED
      BY <1>1, <2>1 DEF Aims
  <1> HIDE DEF r
  <1>6. CASE Ends(c, r, a, Knows(j, a.info.id, 4))
    <2>1. PICK id, step : id = a.info.id /\ step = 4
      OBVIOUS
    <2>2. step \in 2..9 /\ id \in {NoId, a.info.id} /\ Ends(c, r, a, Knows(j, id, step))
      BY <1>6, <2>1
    <2>3. MemOK(job'[c])
      BY <1>1, <1>2, <1>5, <2>2, ImportLearns
    <2> QED
      BY <1>4, <2>3 DEF Safe
  <1>7. CASE Ends(c, r, a, GoTo(j, 3))
    <2>1. PICK step : step = 3
      OBVIOUS
    <2>2. step \in 2..9 /\ step \notin 4..9 /\ Ends(c, r, a, GoTo(j, step))
      BY <1>7, <2>1
    <2>3. LET h == job'[c] IN /\ h.ask = job[c].ask /\ h.step = step /\ h.seen = job[c].seen
                              /\ job[c].log \subseteq h.log /\ Known(a.info.id, h.log)
      BY <1>2, <2>2, GoesOn
    <2>4. MemOK(job'[c])
      BY <1>1, <1>2, <1>5, <2>2, <2>3, ImportPasses
    <2> QED
      BY <1>4, <2>4 DEF Safe
  <1>8. CASE Ends(c, r, a, Reply(j, 500))
    BY <1>2, <1>4, <1>8, Forgets DEF Safe
  <1> QED
    BY <1>3, <1>6, <1>7, <1>8

LEMMA UploadSafe ==
  ASSUME MemInv, NEW c \in Clients, TrySimpleUpload(c) \/ TryTUSUpload(c)
  PROVE  Safe(c)
  <1> DEFINE j == job[c]
             r == PutBytes(tree, UploadRef(j), Bound(j), c)
  <1>1. /\ j.step \in 4..5 /\ j.ask.op = "Import"
        /\ \E a \in Answers(r) :
             \/ Ends(c, r, a, Knows(j, a.info.id, 8))
             \/ Ends(c, r, a, Knows(j, NoId, 6))
             \/ Ends(c, r, a, GoTo(j, 5))
             \/ Ends(c, r, a, Reply(j, 500))
    <2> USE DEF At, Call, Stored
    <2>1. CASE TrySimpleUpload(c)
      BY <2>1 DEF TrySimpleUpload
    <2>2. CASE TryTUSUpload(c)
      BY <2>2 DEF TryTUSUpload, AfterTUS
    <2> QED
      BY <2>1, <2>2
  <1>2. Inv /\ TreeOK(tree) /\ MemOK(j) /\ Called(r, "Put")
    BY PutCalled DEF MemInv, Inv, StoreInv
  <1>3. Aims(j.ask, j.seen) /\ j.seen # <<>> /\ Known(Bound(j), j.log)
    BY <1>1, <1>2 DEF MemOK, Mem, Bound
  <1>4. PICK a \in Answers(r) : \/ Ends(c, r, a, Knows(j, a.info.id, 8))
                                \/ Ends(c, r, a, Knows(j, NoId, 6))
                                \/ Ends(c, r, a, GoTo(j, 5))
                                \/ Ends(c, r, a, Reply(j, 500))
    BY <1>1
  <1>5. Contained(c)
    <2>1. By(r)
      BY <1>4 DEF Ends, By
    <2> QED
      BY <1>1, <1>2, <1>3, <2>1, UploadNamed, PutsContained
  <1> HIDE DEF r
  <1>6. ASSUME NEW id \in {NoId, a.info.id}, NEW step \in 2..9, Ends(c, r, a, Knows(j, id, step))
        PROVE  Safe(c)
    <2>1. MemOK(job'[c])
      BY <1>1, <1>2, <1>3, <1>6, ImportLearns
    <2> QED
      BY <1>5, <2>1 DEF Safe
  <1>7. CASE Ends(c, r, a, Knows(j, a.info.id, 8)) \/ Ends(c, r, a, Knows(j, NoId, 6))
    BY <1>6, <1>7
  <1>8. CASE Ends(c, r, a, GoTo(j, 5))
    <2>1. PICK step : step = 5
      OBVIOUS
    <2>2. step \in 2..9 /\ Ends(c, r, a, GoTo(j, step))
      BY <1>8, <2>1
    <2>3. LET h == job'[c] IN /\ h.ask = job[c].ask /\ h.step = step /\ h.seen = job[c].seen
                              /\ job[c].log \subseteq h.log /\ Known(a.info.id, h.log)
      BY <1>2, <2>2, GoesOn
    <2>4. MemOK(job'[c])
      BY <1>1, <1>2, <1>3, <2>2, <2>3, ImportPasses DEF Bound
    <2> QED
      BY <1>5, <2>4 DEF Safe
  <1>9. CASE Ends(c, r, a, Reply(j, 500))
    BY <1>2, <1>5, <1>9, Forgets DEF Safe
  <1> QED
    BY <1>4, <1>7, <1>8, <1>9

LEMMA LookUpSafe ==
  ASSUME MemInv, NEW c \in Clients, LookUpUploaded(c)
  PROVE  Safe(c)
  <1> DEFINE j == job[c]
             list == ListSpaces(tree)
             stat == Stat(tree, Ref(Personal, Escaped(j.ask.name)))
  <1>1. /\ j.step \in 6..7 /\ j.ask.op = "Import"
        /\ \/ \E a \in Answers(list) : \E step \in 7..8 : Ends(c, list, a, GoTo(j, step))
           \/ \E a \in Answers(stat) : Ends(c, stat, a, Knows(j, a.info.id, 8)) \/ Ends(c, stat, a, GoTo(j, 8))
    BY DEF LookUpUploaded, At, Call
  <1>2. Inv /\ TreeOK(tree) /\ MemOK(j) /\ Called(list, "Spaces") /\ Called(stat, "Stat")
    BY StatCalled, LooksCalled DEF MemInv, Inv, StoreInv
  <1>3. Aims(j.ask, j.seen) /\ j.seen # <<>> /\ Known(Last(j.seen).id, j.log)
    BY <1>1, <1>2 DEF MemOK, Mem
  <1>4. \E ref : By(list) \/ By(Stat(tree, ref))
    BY <1>1 DEF Ends, By
  <1>5. Contained(c)
    BY <1>2, <1>4, ReadsContained
  <1> HIDE DEF list, stat
  <1>6. PICK r \in {list, stat} : \E a \in Answers(r) : \/ \E step \in 7..8 : Ends(c, r, a, GoTo(j, step))
                                                      \/ Ends(c, r, a, Knows(j, a.info.id, 8))
    BY <1>1
  <1>7. PICK a \in Answers(r) : \/ \E step \in 7..8 : Ends(c, r, a, GoTo(j, step))
                                \/ Ends(c, r, a, Knows(j, a.info.id, 8))
    BY <1>6
  <1>8. \E call : Called(r, call)
    BY <1>2
  <1>9. CASE \E step \in 7..8 : Ends(c, r, a, GoTo(j, step))
    <2>1. PICK step \in 7..8 : Ends(c, r, a, GoTo(j, step))
      BY <1>9
    <2>2. LET h == job'[c] IN /\ h.ask = job[c].ask /\ h.step = step /\ h.seen = job[c].seen
                              /\ job[c].log \subseteq h.log /\ Known(a.info.id, h.log)
      BY <1>2, <1>8, <2>1, GoesOn
    <2>3. MemOK(job'[c])
      BY <1>1, <1>2, <1>3, <2>1, <2>2, ImportPasses
    <2> QED
      BY <1>5, <2>3 DEF Safe
  <1>10. CASE Ends(c, r, a, Knows(j, a.info.id, 8))
    <2>1. PICK id, step : id = a.info.id /\ step = 8
      OBVIOUS
    <2>2. step \in 2..9 /\ id \in {NoId, a.info.id} /\ Ends(c, r, a, Knows(j, id, step))
      BY <1>10, <2>1
    <2>3. MemOK(job'[c])
      BY <1>1, <1>2, <1>3, <1>8, <2>2, ImportLearns
    <2> QED
      BY <1>5, <2>3 DEF Safe
  <1> QED
    BY <1>7, <1>9, <1>10

LEMMA StoreIndexSafe ==
  ASSUME MemInv, NEW c \in Clients, StoreIndex(c)
  PROVE  Safe(c)
  <1> DEFINE j == job[c]
             ref == Ref(Bound(j), <<>>)
             r == SetMetadata(tree, ref, c)
  <1>1. /\ j.step = 8 /\ j.ask.op = "Import"
        /\ \/ Passed(c, r, 9)
           \/ job' = [job EXCEPT ![c] = GoTo(j, 9)] /\ tree' = tree
    BY DEF StoreIndex, At, Call, Passed
  <1>2. /\ Inv /\ TreeOK(tree) /\ MemOK(j) /\ Called(r, "Meta")
        /\ job = [x \in Clients |-> job[x]] /\ Shape(j)
    BY MetaCalled DEF MemInv, Inv, StoreInv, JobOK, Base
  <1>3. Aims(j.ask, j.seen) /\ j.seen # <<>> /\ Known(Bound(j), j.log)
    BY <1>1, <1>2 DEF MemOK, Mem, Bound
  <1>4. Resolve(tree, ref) \in Ids => Resolve(tree, ref) \in Named(c)
    BY <1>3, ResolvesItself, NamesKnown, StoreIds DEF Known
  <1>5. PICK step : step = 9
    OBVIOUS
  <1>6. /\ Contained(c) /\ job'[c].ask = j.ask /\ job'[c].step = step /\ job'[c].seen = j.seen
        /\ j.log \subseteq job'[c].log
    <2>1. CASE Passed(c, r, 9)
      BY <1>2, <1>4, <1>5, <2>1, WaysOn, CallsContained
    <2>2. CASE job' = [job EXCEPT ![c] = GoTo(j, 9)] /\ tree' = tree
      <3>1. PICK ask, seen, left, reply, says, log :
              /\ ask = j.ask /\ seen = j.seen /\ left = j.left
              /\ reply = j.reply /\ says = j.says /\ log = j.log
        OBVIOUS
      <3>2. job'[c] = Job(ask, step, seen, left, reply, says, log)
        BY <1>2, <1>5, <2>2, <3>1, GoesToAre
      <3> QED
        BY <2>2, <3>1, <3>2, JobsAre, Untouched
    <2> QED
      BY <1>1, <2>1, <2>2
  <1>7. step \in 2..9
    BY <1>5
  <1>8. MemOK(job'[c])
    BY <1>1, <1>2, <1>3, <1>6, <1>7, ImportPasses DEF Bound
  <1> QED
    BY <1>6, <1>8 DEF Safe

LEMMA MapOldIdSafe ==
  ASSUME MemInv, NEW c \in Clients, MapOldId(c)
  PROVE  Safe(c)
  <1>1. job' = [job EXCEPT ![c] = Says(job[c], 200, "there")] /\ tree' = tree
    BY DEF MapOldId
  <1>2. job = [x \in Clients |-> job[x]] /\ Shape(job[c])
    BY DEF MemInv, Inv, StoreInv, JobOK, Base
  <1>3. PICK none, says : none = <<>> /\ says = job[c].says
    OBVIOUS
  <1>4. job'[c] = Job(job[c].ask, 0, none, none, 200, "there", job[c].log)
    BY <1>1, <1>2, <1>3, SaysAre
  <1>5. job'[c].step = 0
    BY <1>4, JobsAre
  <1> QED
    BY <1>1, <1>5, NoMem, Untouched DEF Safe

LEMMA VerifySafe ==
  ASSUME MemInv, NEW c \in Clients, VerifyMigration(c)
  PROVE  Contained(c) /\ job[c].ask.op = "VerifyMigration"
  <1>1. tree' = tree \/ \E ref : By(Stat(tree, ref))
    BY DEF VerifyMigration, Call, Ends, By
  <1>2. TreeOK(tree)
    BY DEF MemInv, Inv, StoreInv
  <1> QED
    BY <1>1, <1>2, ReadsContained, Untouched DEF VerifyMigration, At

(***************************************************************************)
(* Every step.                                                             *)
(***************************************************************************)
LEMMA HandleKept == ASSUME Inv, NEW c \in Clients, Handle(c) PROVE Kept(c)
  BY DmsKeep, CmisKeep, ReadsKeep, ImportStepKeeps DEF Handle, Inv

\* A request that cannot be read is answered at once.
LEMMA BadIdSafe ==
  ASSUME Inv, NEW c \in Clients, NEW ops, BadId(c, ops)
  PROVE  Safe(c)
  <1>1. job' = [job EXCEPT ![c] = Reply(job[c], 400)]
    BY DEF BadId
  <1>2. job = [x \in Clients |-> job[x]] /\ Shape(job[c])
    BY DEF Inv, StoreInv, JobOK, Base
  <1>3. PICK none, says : none = <<>> /\ says = job[c].says
    OBVIOUS
  <1>4. job'[c] = Job(job[c].ask, 0, none, none, 400, says, job[c].log)
    BY <1>1, <1>2, <1>3, RepliesAre
  <1>5. job'[c].step = 0
    BY <1>4, JobsAre
  <1> QED
    BY <1>5, NoMem, SkipsContained DEF Safe

LEMMA ReadsMindNothing ==
  ASSUME NEW c, DmsRead(c) \/ CmisRead(c)
  PROVE  job[c].ask.op \notin Minds
  <1> USE DEF At, Begins, Ask1, ParentOf, Minds, LearnsOne
  <1>1. job[c].ask.op \notin Minds
        \/ ~(GetDocument(c) \/ GetDocumentMetaData(c) \/ GetFolderRights(c) \/ ExistObjectPath(c)
             \/ ExistObjectId(c) \/ IsDocument(c) \/ IsFolder(c))
    BY DEF GetDocument, GetDocumentMetaData, GetFolderRights, ExistObjectPath, ExistObjectId, IsDocument, IsFolder
  <1>2. job[c].ask.op \notin Minds
        \/ ~(GetFolderByFolderpath(c) \/ GetFolderRoot(c) \/ GetDeletedFiles(c) \/ GetDocumentVersions(c)
             \/ GetFolderMeta(c))
    BY DEF GetFolderByFolderpath, GetFolderRoot, GetDeletedFiles, GetDocumentVersions, GetFolderMeta
  <1>3. job[c].ask.op \notin Minds
        \/ ~(GetFile(c) \/ GetChildren(c) \/ GetContentStream(c) \/ GetAllVersions(c))
    BY DEF GetFile, GetChildren, GetContentStream, GetAllVersions
  <1>4. job[c].ask.op \notin Minds
        \/ ~(GetObject(c) \/ GetFolderParent(c) \/ GetObjectParents(c) \/ GetAllowableActions(c)
             \/ GetRenditions(c) \/ GetRepositories(c) \/ GetRepositoryInfo(c))
    BY DEF GetObject, GetFolderParent, GetObjectParents, GetAllowableActions, GetRenditions,
           GetRepositories, GetRepositoryInfo
  <1> QED
    BY <1>1, <1>2, <1>3, <1>4 DEF DmsRead, CmisRead

LEMMA HandleSafe ==
  ASSUME MemInv, NEW c \in Clients, Handle(c)
  PROVE  Safe(c)
  <1>1. Inv /\ job'[c].ask = job[c].ask
    BY HandleKept DEF MemInv, Kept
  <1>2. job[c].ask.op \notin Minds => MemOK(job'[c])
    BY <1>1, NoMem
  <1>3. CASE DmsStep(c)
    <2> DEFINE Plain == \/ SetFolder(c) \/ CreateFolderByParentFolderID(c) \/ CreateFolderByParentFolderPath(c)
                        \/ RenameFolder(c) \/ RenameDocument(c) \/ DeleteFolders(c) \/ BinDocuments(c)
                        \/ RecoverObjects(c) \/ MoveObjects(c) \/ CopyObjects(c) \/ SetIndex(c)
    <2>1. Plain => job[c].ask.op \notin Minds
      BY DEF SetFolder, CreateFolderByParentFolderID, CreateFolderByParentFolderPath, RenameFolder, RenameDocument,
             DeleteFolders, BinDocuments, RecoverObjects, MoveObjects, CopyObjects, SetIndex,
             Begins, At, Minds, LearnsOne
    <2>2. Plain => Contained(c)
      BY <1>1, FoldersContained, RenamesContained, DeletesContained, RecoversContained, MovesContained, TargetsContained
    <2>3. Plain \/ SetFile(c) \/ CreateRootFolder(c) \/ BadId(c, DmsOps)
      BY <1>3 DEF DmsStep
    <2> HIDE DEF Plain
    <2> QED
      BY <1>1, <1>2, <2>1, <2>2, <2>3, SetFileSafe, CreateRootFolderSafe, BadIdSafe DEF Safe
  <1>4. CASE CmisStep(c)
    <2> DEFINE Plain == UpdateProperties(c) \/ DeleteObject(c) \/ MoveObject(c)
    <2>1. Plain => job[c].ask.op \notin Minds
      BY DEF UpdateProperties, DeleteObject, MoveObject, Begins, At, Minds, LearnsOne
    <2>2. Plain => Contained(c)
      BY <1>1, TargetsContained
    <2>3. \/ Plain \/ CreateDocument(c) \/ CreateFolder(c)
          \/ SetContentStream(c) \/ DeleteContentStream(c) \/ BadId(c, CmisOps)
      BY <1>4 DEF CmisStep
    <2> HIDE DEF Plain
    <2> QED
      BY <1>1, <1>2, <2>1, <2>2, <2>3, CreateDocumentSafe, CreateFolderSafe, ContentSafe, BadIdSafe DEF Safe
  <1>5. CASE ReadStep(c)
    <2>1. Contained(c)
      BY <1>1, <1>5, AllReadsContained
    <2>2. MemOK(job'[c])
      BY <1>1, <1>2, <1>5, ReadsMindNothing, BadIdSafe DEF ReadStep, Safe
    <2> QED
      BY <2>1, <2>2 DEF Safe
  <1>6. CASE ImportStep(c)
    <2>1. CASE VerifyMigration(c)
      <3>1. job[c].ask.op \notin Minds /\ Contained(c)
        BY <2>1, VerifySafe DEF Minds, LearnsOne
      <3> QED
        BY <1>2, <3>1 DEF Safe
    <2>2. CASE ImportDocumentDynamic(c)
      BY <2>2, ChooseTargetSafe, InitiateSafe, UploadSafe, LookUpSafe, StoreIndexSafe, MapOldIdSafe
         DEF ImportDocumentDynamic
    <2> QED
      BY <1>6, <2>1, <2>2 DEF ImportStep
  <1> QED
    BY <1>3, <1>4, <1>5, <1>6 DEF Handle

LEMMA ArriveSafe ==
  ASSUME MemInv, NEW c \in Clients, Arrive(c), UNCHANGED mapping
  PROVE  MemOK(job'[c]) /\ tree' = tree /\ job' = [job EXCEPT ![c] = job'[c]]
  <1>1. /\ job' = [job EXCEPT ![c] = job'[c]] /\ tree' = tree
        /\ job'[c].step = 1 /\ job'[c].seen = <<>>
    BY ArriveKeeps DEF MemInv
  <1> QED
    BY <1>1 DEF MemOK, Mem

LEMMA MemInit == Init => MemInv
  <1> SUFFICES ASSUME Init PROVE MemInv
    OBVIOUS
  <1>1. PICK none, idle : none = Ask("none", Nowhere, Nowhere, <<>>, <<>>, {}) /\ idle = Idle
    OBVIOUS
  <1>2. idle.step = 0
    BY <1>1, JobsAre DEF Idle, Job
  <1>3. \A c \in Clients : job[c].step = 0
    BY <1>1, <1>2 DEF Init
  <1> QED
    BY <1>3, InitHolds, NoMem DEF MemInv

LEMMA NextKeepsMem ==
  ASSUME MemInv, [Next]_vars
  PROVE  MemInv'
  <1>1. Inv /\ Inv' /\ job = [x \in Clients |-> job[x]]
    BY NextKeepsInv DEF MemInv, Inv, StoreInv
  <1>2. ASSUME NEW c \in Clients, job' = [job EXCEPT ![c] = job'[c]], MemOK(job'[c])
        PROVE  MemInv'
    <2>1. \A x \in Clients : x # c => job'[x] = job[x]
      BY <1>1, <1>2
    <2>2. \A x \in Clients : MemOK(job'[x])
      BY <1>2, <2>1 DEF MemInv
    <2> QED
      BY <1>1, <2>2 DEF MemInv, MemOK
  <1>3. CASE UNCHANGED job
    BY <1>1, <1>3 DEF MemInv, MemOK
  <1>4. ASSUME NEW c \in Clients, Arrive(c) /\ UNCHANGED mapping
        PROVE  MemInv'
    BY <1>2, <1>4, ArriveSafe
  <1>5. ASSUME NEW c \in Clients, Handle(c)
        PROVE  MemInv'
    BY <1>1, <1>2, <1>5, HandleSafe, HandleKept DEF Safe, Kept
  <1> QED
    BY <1>3, <1>4, <1>5 DEF Next, Done, vars, objectVars

LEMMA MemHolds == Spec => []MemInv
  BY MemInit, NextKeepsMem, PTL DEF Spec

LEMMA StepsAreNamed ==
  ASSUME MemInv, Next, NEW o \in Ids, tree'[o] # tree[o], tree[o] # Unused
  PROVE  \E c \in Clients :
           job'[c] # job[c] /\ (Lineage(tree, o) \cup {tree[o].bin}) \cap Named(c) \cap Ids # {}
  <1>1. ~Done
    BY DEF Done, vars, objectVars
  <1>2. PICK c \in Clients : (Arrive(c) /\ UNCHANGED mapping) \/ Handle(c)
    BY <1>1 DEF Next
  <1>3. Handle(c)
    BY <1>2, ArriveSafe
  <1>4. Contained(c) /\ job'[c] # job[c]
    BY <1>3, HandleSafe, HandleKept DEF Safe, Kept, MemInv
  <1> QED
    BY <1>4 DEF Contained

(***************************************************************************)
(* The results.                                                            *)
(***************************************************************************)
\* Whatever is asked and however calls fail, the storage stays a tree of nodes,
\* every request stands at one of its steps, and the answers are the statuses
\* the handlers send.
THEOREM ObjectsTyping == Spec => []TypeOK
  BY InvHolds, InvIsTyped, PTL

\* A success is answered only after the storage did what the operation is for.
THEOREM SuccessIsDone == Spec => []OkMeansDone
  BY InvHolds, InvIsDone, PTL

\* What is created, renamed, moved and imported by id is in the folder with that
\* id and under the whole name, whatever other requests did meanwhile.
THEOREM LandsByTheId == Spec => []LandsWhereAsked
  BY InvHolds, InvLands, PTL

\* The careful handlers say an object is absent only when the storage said so.
THEOREM AbsenceWasTold == Spec => []AbsentIsTrue
  BY InvHolds, InvTellsTruth, PTL

\* A bulk operation that answers ok has tried every item whose id decodes.
THEOREM EveryItemTried == Spec => []BulkTriesEvery
  BY InvHolds, InvTriesEvery, PTL

\* Every step of a handler takes it nearer to its answer.
THEOREM HandlersAdvance == Spec => EachStepAdvances
  <1>1. Inv /\ [Next]_vars => [\A c \in Clients : job[c].step # 0 /\ job'[c] # job[c] => Nearer(job[c], job'[c])]_vars
    BY StepsAdvance
  <1> QED
    BY <1>1, InvHolds, PTL DEF Spec, EachStepAdvances

\* An object changes, goes to the bin or comes back only by a request that names
\* it or a folder it goes or comes back with, whatever else is in flight.
THEOREM NamedChange == Spec => OnlyNamedChange
  <1>1. MemInv /\ [Next]_vars
          => [\A o \in Ids : tree'[o] # tree[o] /\ tree[o] # Unused
                => \E c \in Clients : job'[c] # job[c]
                     /\ (Lineage(tree, o) \cup {tree[o].bin}) \cap Named(c) \cap Ids # {}]_vars
    BY StepsAreNamed
  <1> QED
    BY <1>1, MemHolds, PTL DEF Spec, OnlyNamedChange

=============================================================================
