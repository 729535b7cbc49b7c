---------------------------- MODULE ObjectReads ----------------------------
(***************************************************************************)
(* The handlers of both APIs that only read.  They differ in what they     *)
(* make of an answer other than OK: some tell absence from failure, some   *)
(* call every failure absence, some call it emptiness.                     *)
(***************************************************************************)
EXTENDS Requests

Kinds == {"file", "folder"}

ThereOr(j, a, code, what) == IF a.code = "OK" THEN Says(j, 200, "there") ELSE Says(j, code, what)

Hides(j, a)  == ThereOr(j, a, 404, "absent")

Honest(j, a) ==
  CASE a.code = "OK"        -> Says(j, 200, "there")
    [] a.code = "NOT_FOUND" -> Says(j, 404, "absent")
    [] OTHER                -> Reply(j, 500)

Denies(j, a) == ThereOr(j, a, 200, "absent")
Empties(j, a) == ThereOr(j, a, 200, "empty")
Fails(j, a)  == ThereOr(j, a, 500, "nothing")

\* The object is there and of the kind asked for, of another kind, or absent.
Classifies(j, a, kind) ==
  IF a.code = "OK" /\ a.info.kind # kind THEN Says(j, 200, "other") ELSE Denies(j, a)

Ask1(c, op, Tells(_, _)) ==
  Begins(c, op) /\ Call(c, Stat(tree, Target(c)), LAMBDA a : Tells(job[c], a))

GetDocument(c)         == Ask1(c, "GetDocument", Honest)
GetObject(c)           == Ask1(c, "GetObject", Honest)
GetDocumentMetaData(c) == Ask1(c, "GetDocumentMetaData", Hides)
GetFolderRights(c)     == Ask1(c, "GetFolderRights", Hides)
GetAllowableActions(c) == Ask1(c, "GetAllowableActions", Hides)
GetRenditions(c)       == Ask1(c, "GetRenditions", Hides)
ExistObjectPath(c)     == Ask1(c, "ExistObjectPath", Denies)
IsDocument(c) == Ask1(c, "IsDocument", LAMBDA j, a : Classifies(j, a, "file"))
IsFolder(c)   == Ask1(c, "IsFolder", LAMBDA j, a : Classifies(j, a, "folder"))

\* The one handler that calls an id it cannot decode absent.
ExistObjectId(c) ==
  \/ Ask1(c, "ExistObjectId", Denies)
  \/ /\ At(c, "ExistObjectId", 1) /\ job[c].ask.ref = Nowhere
     /\ job' = [job EXCEPT ![c] = Says(@, 200, "unknown")]
     /\ UNCHANGED <<tree, faults>>

GetFolderByFolderpath(c) ==
  LET j == job[c]
  IN  \/ /\ At(c, "GetFolderByFolderpath", 1) /\ j.ask.ref.path = <<>>
         /\ Call(c, ListSpaces(tree), LAMBDA a : Fails(j, a))
      \/ /\ At(c, "GetFolderByFolderpath", 1) /\ j.ask.ref.path # <<>>
         /\ Call(c, Stat(tree, j.ask.ref),
                 LAMBDA a : IF a.code = "OK" THEN Learn(j, a) ELSE Hides(j, a))
      \/ /\ At(c, "GetFolderByFolderpath", 2)
         /\ Call(c, Look("List", tree, j.ask.ref, {"folder"}), LAMBDA a : Fails(j, a))

GetFolderRoot(c) ==
  At(c, "GetFolderRoot", 1) /\ Call(c, ListSpaces(tree), LAMBDA a : Empties(job[c], a))

\* A folder id that does not decode, or none, means the bin of everything.
GetDeletedFiles(c) ==
  LET q == job[c].ask
  IN  /\ At(c, "GetDeletedFiles", 1)
      /\ Call(c, Look("Recycle", tree, IF q.ref = Nowhere THEN Ref(Slash, <<>>) ELSE q.ref, Kinds),
              LAMBDA a : Empties(job[c], a))

GetDocumentVersions(c) ==
  /\ Begins(c, "GetDocumentVersions")
  /\ Call(c, Look("Versions", tree, job[c].ask.ref, {"file"}), LAMBDA a : Empties(job[c], a))

GetFolderMeta(c) ==
  /\ Begins(c, "GetFolderMeta")
  /\ Call(c, Look("List", tree, job[c].ask.ref, {"folder"}), LAMBDA a : Fails(job[c], a))

GetChildren(c) ==
  /\ Begins(c, "GetChildren")
  /\ Call(c, Look("List", tree, Target(c), {"folder"}),
          LAMBDA a : IF a.code = "ERROR" THEN Reply(job[c], 500) ELSE Hides(job[c], a))

\* One retry of the initiation after a broken connection, as in SetFile.
GetFile(c) ==
  LET j == job[c]
      open == Look("Open", tree, j.ask.ref, {"file"})
  IN  \/ /\ Begins(c, "GetFile")
         /\ \E reconnected \in BOOLEAN :
              Call(c, open, LAMBDA a : CASE a.code = "OK" -> GoTo(Learn(j, a), 3)
                                         [] a.code = "ERROR" /\ reconnected -> GoTo(j, 2)
                                         [] OTHER -> Reply(j, 500))
      \/ At(c, "GetFile", 2) /\ Call(c, open, LAMBDA a : LearnOr(j, a, 500))
      \/ /\ At(c, "GetFile", 3)
         /\ Call(c, Look("Get", tree, Ref(j.seen[1].id, <<>>), {"file"}),
                 LAMBDA a : CASE a.code = "OK"    -> Says(j, 200, "there")
                              [] a.code = "ERROR" -> Reply(j, 500)
                              [] OTHER            -> Reply(j, 404))

\* What the data gateway answers is passed on, its errors included.
GetContentStream(c) ==
  LET j == job[c]
  IN  \/ /\ Begins(c, "GetContentStream")
         /\ Call(c, Stat(tree, Target(c)),
                 LAMBDA a : CASE a.code # "OK"         -> Hides(j, a)
                              [] a.info.kind # "file"  -> Says(j, 400, "other")
                              [] OTHER                 -> Learn(j, a))
      \/ /\ At(c, "GetContentStream", 2)
         /\ Call(c, Look("Open", tree, Target(c), {"file"}), LAMBDA a : LearnOr(j, a, 500))
      \/ /\ At(c, "GetContentStream", 3)
         /\ Call(c, Look("Get", tree, Ref(j.seen[2].id, <<>>), {"file"}),
                 LAMBDA a : CASE a.code = "OK"    -> Says(j, 200, "there")
                              [] a.code = "ERROR" -> Reply(j, 500)
                              [] OTHER            -> Reply(j, 404))

GetAllVersions(c) ==
  LET j == job[c]
  IN  \/ /\ Begins(c, "GetAllVersions")
         /\ Call(c, Stat(tree, Target(c)),
                 LAMBDA a : CASE a.code # "OK"         -> Hides(j, a)
                              [] a.info.kind # "file"  -> Says(j, 400, "other")
                              [] OTHER                 -> Learn(j, a))
      \/ /\ At(c, "GetAllVersions", 2)
         /\ Call(c, Look("Versions", tree, Target(c), {"file"}),
                 LAMBDA a : Says(j, 200, "there"))

\* The parent is asked for by the id the first answer gave.
ParentOf(c, op, NoParent(_), Gone(_, _)) ==
  LET j == job[c]
  IN  \/ /\ Begins(c, op)
         /\ Call(c, Stat(tree, Target(c)),
                 LAMBDA a : CASE a.code # "OK"           -> Hides(j, a)
                              [] a.info.parent = NoId    -> NoParent(j)
                              [] OTHER                   -> Learn(j, a))
      \/ /\ At(c, op, 2)
         /\ Call(c, Stat(tree, Ref(j.seen[1].parent, <<>>)), LAMBDA a : Gone(j, a))

GetFolderParent(c)  == ParentOf(c, "GetFolderParent", LAMBDA j : Says(j, 400, "root"),
                                LAMBDA j, a : ThereOr(j, a, 404, "parentless"))
GetObjectParents(c) == ParentOf(c, "GetObjectParents", LAMBDA j : Says(j, 200, "empty"), Empties)

\* The repositories are the spaces; one is looked for among them by its id.
GetRepositories(c) ==
  At(c, "GetRepositories", 1) /\ Call(c, ListSpaces(tree), LAMBDA a : Fails(job[c], a))

GetRepositoryInfo(c) ==
  /\ At(c, "GetRepositoryInfo", 1)
  /\ Call(c, ListSpaces(tree),
          LAMBDA a : IF a.code = "OK" /\ Target(c).at \in Spaces(tree)
                       THEN Says(job[c], 200, "there") ELSE Says(job[c], 404, "absent"))

ReadOps == {"GetDocument", "GetObject", "GetDocumentMetaData", "GetFolderRights",
            "GetAllowableActions", "GetRenditions", "IsDocument", "IsFolder", "GetFile",
            "GetDocumentVersions", "GetFolderMeta", "GetChildren", "GetContentStream",
            "GetAllVersions", "GetFolderParent", "GetObjectParents"}

\* The DMS handlers that read, and the selectors of the browser binding.
DmsRead(c) ==
  \/ GetDocument(c) \/ GetDocumentMetaData(c) \/ GetFolderRights(c) \/ ExistObjectPath(c)
  \/ ExistObjectId(c) \/ IsDocument(c) \/ IsFolder(c) \/ GetFolderByFolderpath(c)
  \/ GetFolderRoot(c) \/ GetDeletedFiles(c) \/ GetDocumentVersions(c) \/ GetFolderMeta(c)
  \/ GetFile(c)

CmisRead(c) ==
  \/ GetObject(c) \/ GetChildren(c) \/ GetContentStream(c) \/ GetAllVersions(c)
  \/ GetFolderParent(c) \/ GetObjectParents(c) \/ GetAllowableActions(c)
  \/ GetRenditions(c) \/ GetRepositories(c) \/ GetRepositoryInfo(c)

ReadStep(c) == DmsRead(c) \/ CmisRead(c) \/ BadId(c, ReadOps)
=============================================================================
