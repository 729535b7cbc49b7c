----------------------------- MODULE DmsObjects -----------------------------
(***************************************************************************)
(* The handlers of the DMS API that change the storage.                    *)
(***************************************************************************)
EXTENDS Requests

NewFolderRefRaw(q) == IF q.dst # Nowhere THEN Ref(q.dst.at, Split(q.name)) ELSE q.ref

\* SetFolder: below a parent id with the name escaped, or at a path as it is.
NewFolderRef(q) == IF q.dst # Nowhere THEN Ref(q.dst.at, Escaped(q.name)) ELSE q.ref

SetFolder(c) ==
  LET j == job[c]
      ref == NewFolderRef(j.ask)
  IN  \/ /\ At(c, "SetFolder", 1)
         /\ Call(c, CreateContainer(tree, ref),
                 LAMBDA a : CASE a.code = "ERROR" -> Reply(j, 500)
                              [] a.code \in {"OK", "ALREADY_EXISTS"} -> GoTo(j, 2)
                              [] OTHER -> Reply(j, 409))
      \/ /\ At(c, "SetFolder", 2)
         /\ Call(c, Stat(tree, ref), LAMBDA a : Reply(j, 200))

CreateFolderByParentFolderID(c) ==
  LET j == job[c]
  IN  \/ /\ Begins(c, "CreateFolderByParentFolderID")
         /\ Call(c, Stat(tree, j.ask.ref), LAMBDA a : LearnOr(j, a, 404))
      \/ /\ At(c, "CreateFolderByParentFolderID", 2)
         /\ Call(c, CreateContainer(tree, Ref(Slash, j.seen[1].path \o Split(j.ask.name))),
                 LAMBDA a : OkOr(j, a, 200, 500))

CreateFolderByParentFolderPath(c) ==
  LET j == job[c]
  IN  /\ At(c, "CreateFolderByParentFolderPath", 1)
      /\ Call(c, CreateContainer(tree, Ref(Slash, j.ask.ref.path \o Split(j.ask.name))),
              LAMBDA a : OkOr(j, a, 200, 500))

\* The target is the parent's id with the escaped name.
RenameFolder(c) ==
  LET j == job[c]
  IN  \/ /\ Begins(c, "RenameFolder")
         /\ Call(c, Stat(tree, j.ask.ref), LAMBDA a : LearnOr(j, a, 404))
      \/ /\ At(c, "RenameFolder", 2)
         /\ Call(c, Move(tree, j.ask.ref, Ref(j.seen[1].parent, Escaped(j.ask.name))),
                 LAMBDA a : OkOr(j, a, 200, 500))

\* The target is the absolute path of the parent with the name as it is.
RenameDocument(c) ==
  LET j == job[c]
  IN  \/ /\ Begins(c, "RenameDocument")
         /\ Call(c, Stat(tree, j.ask.ref), LAMBDA a : LearnOr(j, a, 404))
      \/ /\ At(c, "RenameDocument", 2)
         /\ Call(c, Move(tree, j.ask.ref, Ref(Slash, Front(j.seen[1].path) \o Split(j.ask.name))),
                 LAMBDA a : OkOr(j, a, 200, 500))

StopsAtBadId(c) ==
  /\ job[c].left # <<>> /\ Head(job[c].left) = Nowhere
  /\ job' = [job EXCEPT ![c] = Reply(@, 200)]
  /\ UNCHANGED <<tree, faults>>

\* A bad id among many is passed over.
SkipsBadId(c) ==
  /\ job[c].left # <<>> /\ Head(job[c].left) = Nowhere
  /\ job' = [job EXCEPT ![c] = NextItem(@, @.step)]
  /\ UNCHANGED <<tree, faults>>

DeletesNext(c) ==
  /\ job[c].left # <<>> /\ Head(job[c].left) # Nowhere
  /\ Call(c, Delete(tree, Head(job[c].left)), LAMBDA a : NextItem(job[c], 1))

DeleteFolders(c) == At(c, "DeleteFolders", 1) /\ (SkipsBadId(c) \/ DeletesNext(c) \/ EndsLoop(c))
BinDocuments(c)  == At(c, "BinDocuments", 1) /\ (SkipsBadId(c) \/ DeletesNext(c) \/ EndsLoop(c))

RestoresNext(c) ==
  /\ job[c].left # <<>>
  /\ Call(c, Restore(tree, Head(job[c].left).at), LAMBDA a : NextItem(job[c], 1))

RecoverObjects(c) == At(c, "RecoverObjects", 1) /\ (RestoresNext(c) \/ EndsLoop(c))

\* Each source is looked up and moved to the path the target had at the start,
\* under the last segment of its own; what the storage says is not looked at.
MoveObjects(c) ==
  LET j == job[c]
  IN  \/ /\ Begins(c, "MoveObjects")
         /\ Call(c, Stat(tree, j.ask.ref), LAMBDA a : LearnOr(j, a, 404))
      \/ /\ At(c, "MoveObjects", 2)
         /\ \/ SkipsBadId(c)
            \/ EndsLoop(c)
            \/ /\ j.left # <<>> /\ Head(j.left) # Nowhere
               /\ Call(c, Stat(tree, Head(j.left)),
                       LAMBDA a : IF a.code = "OK" THEN Learn(j, a) ELSE NextItem(j, 2))
      \/ /\ At(c, "MoveObjects", 3)
         /\ Call(c, Move(tree, Head(j.left),
                         Ref(Slash, Append(j.seen[1].path, Last(j.seen[2].path)))),
                 LAMBDA a : NextItem(j, 2))

\* The copy of the first phase: it looks everything up and copies nothing.
CopyObjects(c) ==
  LET j == job[c]
  IN  \/ /\ Begins(c, "CopyObjects")
         /\ Call(c, Stat(tree, j.ask.ref), LAMBDA a : LearnOr(j, a, 404))
      \/ /\ At(c, "CopyObjects", 2)
         /\ \/ SkipsBadId(c)
            \/ EndsLoop(c)
            \/ /\ j.left # <<>> /\ Head(j.left) # Nowhere
               /\ Call(c, Stat(tree, Head(j.left)), LAMBDA a : NextItem(j, 2))

SetIndex(c) ==
  /\ Begins(c, "SetIndex")
  /\ Call(c, SetMetadata(tree, job[c].ask.ref, c), LAMBDA a : OkOr(job[c], a, 200, 500))

\* One retry of the initiation after a broken connection, none of the upload.
SetFile(c) ==
  LET j == job[c]
  IN  \/ /\ Begins(c, "SetFile")
         /\ \E reconnected \in BOOLEAN :
              Call(c, Initiate(tree, j.ask.ref),
                   LAMBDA a : CASE a.code = "OK" -> GoTo(Learn(j, a), 3)
                                [] a.code = "ERROR" /\ reconnected -> GoTo(j, 2)
                                [] OTHER -> Reply(j, 500))
      \/ /\ At(c, "SetFile", 2)
         /\ Call(c, Initiate(tree, j.ask.ref), LAMBDA a : LearnOr(j, a, 500))
      \/ /\ At(c, "SetFile", 3)
         /\ Call(c, PutBytes(tree, j.ask.ref, j.seen[1].id, c), LAMBDA a : OkOr(j, a, 200, 500))

\* The metadata of a new space are set without regard to the result.
CreateRootFolder(c) ==
  LET j == job[c]
  IN  \/ /\ At(c, "CreateRootFolder", 1)
         /\ Call(c, CreateSpace(tree, j.ask.name),
                 LAMBDA a : IF a.code = "OK" /\ "aktz" \in j.ask.with THEN Learn(j, a)
                            ELSE OkOr(j, a, 200, 500))
      \/ /\ At(c, "CreateRootFolder", 2)
         /\ Call(c, SetMetadata(tree, Ref(j.seen[1].id, <<>>), c), LAMBDA a : Reply(j, 200))

DmsOps == {"CreateFolderByParentFolderID", "RenameFolder", "RenameDocument", "MoveObjects",
           "CopyObjects", "SetIndex", "SetFile"}

DmsStep(c) ==
  \/ SetFolder(c) \/ CreateFolderByParentFolderID(c) \/ CreateFolderByParentFolderPath(c)
  \/ RenameFolder(c) \/ RenameDocument(c) \/ DeleteFolders(c) \/ BinDocuments(c)
  \/ RecoverObjects(c) \/ MoveObjects(c) \/ CopyObjects(c) \/ SetIndex(c) \/ SetFile(c)
  \/ CreateRootFolder(c) \/ BadId(c, DmsOps)
=============================================================================
