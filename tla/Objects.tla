------------------------------ MODULE Objects ------------------------------
(***************************************************************************)
(* The handlers of both APIs on one storage: DMS requests, requests of the *)
(* CMIS browser binding and imports in flight at the same time.            *)
(***************************************************************************)
EXTENDS DmsObjects, CmisObjects, Import

CONSTANT Tree0    \* the storage at the start

ASSUME StartsWithTree == TreeOK(Tree0)

Bulk == {"DeleteFolders", "BinDocuments", "RecoverObjects", "MoveObjects", "CopyObjects"}

\* An object id becomes a reference to the object itself, or does not decode.
IdRefs == {Ref(at, <<>>) : at \in Ids \cup {NoId}}

ASSUME AskedById ==
  \A c \in Clients : \A q \in Asked(c) :
    /\ q = Ask(q.op, q.ref, q.dst, q.name, q.items, q.with)
    /\ q.op \in Bulk => q.items \in Seq(IdRefs)
    /\ q.op \in {"RenameFolder", "Import"} => q.ref \in IdRefs
    /\ q.op \in {"SetFolder", "MoveObject", "Import"} => q.dst \in IdRefs

Init ==
  /\ tree = Tree0
  /\ faults = 0
  /\ job = [c \in Clients |-> Idle]
  /\ mapping = [c \in Clients |-> NoId]

vars == <<objectVars, mapping>>

Handle(c) ==
  \/ (DmsStep(c) \/ CmisStep(c) \/ ReadStep(c)) /\ UNCHANGED mapping
  \/ ImportStep(c)

Done == (\A c \in Clients : job[c].ask.op # "none" /\ job[c].step = 0) /\ UNCHANGED vars

Next == (\E c \in Clients : (Arrive(c) /\ UNCHANGED mapping) \/ Handle(c))
        \/ Done

Spec == Init /\ [][Next]_vars

-----------------------------------------------------------------------------
Codes == {0, 200, 201, 204, 400, 404, 409, 500}

TypeOK ==
  /\ faults \in 0..MaxFaults
  /\ TreeOK(tree)
  /\ \A c \in Clients : job[c].step \in 0..9 /\ job[c].reply \in Codes
  /\ mapping \in [Clients -> Ids \cup {Zero, NoId}]

\* What a request means, read off the request alone: the object it names, the
\* items of its list, and what is or will be of the name it gives in a folder it
\* names, works in or was told of.
Meant(q) == IF q.ref.at = NoId THEN Ref(Slash, q.ref.path) ELSE q.ref
Touched(c) == {e.obj : e \in job[c].log}
Told(c) == {job[c].seen[i].id : i \in DOMAIN job[c].seen}
Bases(c) == Touched(c) \cup Told(c) \cup {job[c].ask.ref.at, job[c].ask.dst.at}

Named(c) ==
  LET q == job[c].ask
  IN  {Resolve(tree, Meant(q))} \cup {q.items[i].at : i \in DOMAIN q.items} \cup Touched(c)
        \cup {Resolve(tree, Ref(b, path)) : b \in Bases(c) \cap Ids,
                                            path \in {Split(q.name), Escaped(q.name)}}

\* An object that exists changes, goes to the bin or comes back only by a
\* request that names it, or the folder it goes or comes back with.
OnlyNamedChange ==
  [][\A o \in Ids : tree'[o] # tree[o] /\ tree[o] # Unused
       => \E c \in Clients : job'[c] # job[c] /\ (Lineage(tree, o) \cup {tree[o].bin}) \cap Named(c) \cap Ids # {}]_vars

\* The call that does what an operation is for.
Decisive ==
  [SetFolder |-> "Create", CreateFolderByParentFolderID |-> "Create",
   CreateFolderByParentFolderPath |-> "Create", RenameFolder |-> "Move",
   RenameDocument |-> "Move", SetIndex |-> "Meta", SetFile |-> "Put",
   CreateRootFolder |-> "Space", CreateFolder |-> "Create", DeleteObject |-> "Delete",
   MoveObject |-> "Move", SetContentStream |-> "Put", DeleteContentStream |-> "Put",
   Import |-> "Put"]

\* SetFolder is content with a folder that is there.
Found(op) == IF op = "SetFolder" THEN {"ALREADY_EXISTS"} ELSE {}

Did(c) == {e \in job[c].log : e.code \in {"OK"} \cup Found(job[c].ask.op)}

\* A success is answered only when the storage did what was asked, whatever
\* calls failed on the way and however often they were tried.
OkMeansDone ==
  \A c \in Clients : job[c].ask.op \in DOMAIN Decisive /\ job[c].reply \in 200..299
    => \E e \in Did(c) : e.call = Decisive[job[c].ask.op]

Stats(c) == {e \in job[c].log : e.call = "Stat" /\ e.code = "OK"}

\* A folder created below an id, a folder renamed, an object moved and a document
\* imported into a folder are in the folder with that id and have the whole name
\* that was asked, slashes included, whatever became of its path meanwhile.
LandsWhereAsked ==
  \A c \in Clients : job[c].reply \in 200..299 =>
    LET q == job[c].ask
        did(call) == {e \in Did(c) : e.call = call}
    IN  /\ q.op = "SetFolder" /\ q.dst # Nowhere
             => \E e \in did("Create") : e.into = q.dst.at /\ e.name = Escaped(q.name)[1]
        /\ q.op = "RenameFolder"
             => \E e \in did("Move") : e.obj = q.ref.at /\ e.name = Escaped(q.name)[1]
        /\ q.op = "MoveObject"
             => \E e \in did("Move") : \E s \in Stats(c) : e.into = q.dst.at /\ e.name = s.name
        /\ q.op = "Import" /\ q.ref # Nowhere
             => \E e \in did("Put") : \E i \in job[c].log :
                  /\ i.obj = e.obj /\ i.call \in {"Initiate", "Put"}
                  /\ i.into = q.ref.at /\ i.name = Escaped(q.name)[1]

\* The handlers that tell absence from failure.
Careful == {"GetDocument", "GetObject", "DeleteObject", "SetContentStream", "UpdateProperties"}

\* They say an object is absent only when the storage said so, never because a
\* call failed.
AbsentIsTrue ==
  \A c \in Clients : job[c].says = "absent" /\ job[c].ask.op \in Careful
    => \E e \in job[c].log : e.code = "NOT_FOUND"

\* A bulk operation that answers ok has tried every item whose id decodes,
\* whatever came of the ones before it.
BulkTriesEvery ==
  \A c \in Clients : job[c].ask.op \in Bulk /\ job[c].reply = 200
    => \A i \in DOMAIN job[c].ask.items : LET item == job[c].ask.items[i]
         IN item # Nowhere => \E e \in job[c].log : e.obj = item.at

\* The index of an import goes to the document it stored.
IndexOnUpload ==
  \A c \in Clients : job[c].ask.op = "Import"
    => \A e \in job[c].log : e.call = "Meta"
         => \E p \in job[c].log : p.call = "Put" /\ p.obj = e.obj

\* A handler that has begun gets nearer to its answer with every step: it
\* shortens its list, or goes further on, or answers.
Nearer(was, is) ==
  \/ is.step = 0
  \/ Len(is.left) < Len(was.left)
  \/ is.left = was.left /\ is.step > was.step

EachStepAdvances ==
  [][\A c \in Clients : job[c].step # 0 /\ job'[c] # job[c] => Nearer(job[c], job'[c])]_vars
=============================================================================
