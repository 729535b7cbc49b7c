---------------------------- MODULE CmisObjects ----------------------------
(***************************************************************************)
(* The handlers of the CMIS browser binding that change objects.           *)
(***************************************************************************)
EXTENDS ObjectReads

\* The properties of the form are set without regard to the result.
SetProperties(c, ref, next) ==
  IF "props" \in job[c].ask.with
    THEN Call(c, SetMetadata(tree, ref, c), LAMBDA a : GoTo(job[c], next))
    ELSE job' = [job EXCEPT ![c] = GoTo(@, next)] /\ UNCHANGED <<tree, faults>>

CreateDocument(c) ==
  LET j == job[c]
      newRef == Ref(j.seen[1].id, Split(j.ask.name))
  IN  \/ /\ Begins(c, "CreateDocument")
         /\ Call(c, Stat(tree, Target(c)), LAMBDA a : LearnOr(j, a, 404))
      \/ /\ At(c, "CreateDocument", 2)
         /\ Call(c, Initiate(tree, newRef),
                 LAMBDA a : IF a.code = "OK"
                              THEN GoTo(Learn(j, a), IF "content" \in j.ask.with THEN 3 ELSE 4)
                              ELSE Reply(j, 500))
      \/ /\ At(c, "CreateDocument", 3)
         /\ Call(c, PutBytes(tree, newRef, j.seen[2].id, c),
                 LAMBDA a : IF a.code = "OK" THEN GoTo(j, 4) ELSE Reply(j, 500))
      \/ /\ At(c, "CreateDocument", 4)
         /\ SetProperties(c, newRef, 5)
      \/ /\ At(c, "CreateDocument", 5)
         /\ Call(c, Stat(tree, newRef), LAMBDA a : Reply(j, 201))

\* With a resource id the new folder goes right below it: the path of the
\* parent in the repository is not looked at.
NewCmisFolderRef(c) ==
  Ref(IF job[c].seen = <<>> THEN Target(c).at ELSE job[c].seen[1].id, Split(job[c].ask.name))

CreateFolder(c) ==
  LET j == job[c]
  IN  \/ /\ Begins(c, "CreateFolder") /\ Target(c).at = Slash
         /\ Call(c, Stat(tree, Target(c)), LAMBDA a : LearnOr(j, a, 404))
      \/ /\ \/ Begins(c, "CreateFolder") /\ Target(c).at # Slash
            \/ At(c, "CreateFolder", 2)
         /\ Call(c, CreateContainer(tree, NewCmisFolderRef(c)),
                 LAMBDA a : CASE a.code = "OK"             -> GoTo(j, 3)
                              [] a.code = "ALREADY_EXISTS" -> Reply(j, 409)
                              [] OTHER                     -> Reply(j, 500))
      \/ /\ At(c, "CreateFolder", 3)
         /\ SetProperties(c, NewCmisFolderRef(c), 4)
      \/ /\ At(c, "CreateFolder", 4)
         /\ Call(c, Stat(tree, NewCmisFolderRef(c)), LAMBDA a : Reply(j, 201))

\* The rename goes first, its failures are passed over, and the properties go
\* to the reference of the request.
AfterRename(j) == IF "props" \in j.ask.with THEN 3 ELSE 4

UpdateProperties(c) ==
  LET j == job[c]
  IN  \/ /\ Begins(c, "UpdateProperties") /\ "name" \notin j.ask.with
         /\ job' = [job EXCEPT ![c] = GoTo(@, AfterRename(@))]
         /\ UNCHANGED <<tree, faults>>
      \/ /\ Begins(c, "UpdateProperties") /\ "name" \in j.ask.with
         /\ Call(c, Stat(tree, Target(c)),
                 LAMBDA a : IF a.code = "OK" /\ a.info.parent # NoId
                              THEN Learn(j, a) ELSE GoTo(j, AfterRename(j)))
      \/ /\ At(c, "UpdateProperties", 2)
         /\ Call(c, Move(tree, Target(c), Ref(j.seen[1].parent, Split(j.ask.name))),
                 LAMBDA a : GoTo(j, AfterRename(j)))
      \/ /\ At(c, "UpdateProperties", 3)
         /\ Call(c, SetMetadata(tree, Target(c), c),
                 LAMBDA a : IF a.code = "OK" THEN GoTo(j, 4) ELSE Reply(j, 500))
      \/ /\ At(c, "UpdateProperties", 4)
         /\ Call(c, Stat(tree, Target(c)), LAMBDA a : Honest(j, a))

\* DeleteTree is DeleteObject.
DeleteObject(c) ==
  /\ Begins(c, "DeleteObject")
  /\ Call(c, Delete(tree, Target(c)),
          LAMBDA a : CASE a.code = "OK"        -> Reply(job[c], 204)
                       [] a.code = "NOT_FOUND" -> Says(job[c], 404, "absent")
                       [] OTHER                -> Reply(job[c], 500))

MoveObject(c) ==
  LET j == job[c]
      dst == Ref(j.seen[2].id, <<j.seen[1].name>>)
  IN  \/ /\ Begins(c, "MoveObject")
         /\ Call(c, Stat(tree, Target(c)),
                 LAMBDA a : IF a.code # "OK" THEN Reply(j, 404)
                            ELSE IF j.ask.dst = Nowhere THEN Reply(j, 400) ELSE Learn(j, a))
      \/ /\ At(c, "MoveObject", 2)
         /\ Call(c, Stat(tree, j.ask.dst), LAMBDA a : LearnOr(j, a, 404))
      \/ /\ At(c, "MoveObject", 3)
         /\ Call(c, Move(tree, Target(c), dst),
                 LAMBDA a : IF a.code = "OK" THEN GoTo(j, 4) ELSE Reply(j, 500))
      \/ /\ At(c, "MoveObject", 4)
         /\ Call(c, Stat(tree, dst), LAMBDA a : Reply(j, 200))

InitiateContent(c) ==
  Call(c, Initiate(tree, Target(c)), LAMBDA a : LearnOr(job[c], a, 500))

SetContentStream(c) ==
  LET j == job[c]
  IN  \/ Begins(c, "SetContentStream") /\ InitiateContent(c)
      \/ /\ At(c, "SetContentStream", 2)
         /\ Call(c, PutBytes(tree, Target(c), j.seen[1].id, c),
                 LAMBDA a : IF a.code = "OK" THEN GoTo(j, 3) ELSE Reply(j, 500))
      \/ /\ At(c, "SetContentStream", 3)
         /\ Call(c, Stat(tree, Target(c)), LAMBDA a : Honest(j, a))

\* The content is cleared by an upload of nothing.
DeleteContentStream(c) ==
  LET j == job[c]
  IN  \/ Begins(c, "DeleteContentStream") /\ InitiateContent(c)
      \/ /\ At(c, "DeleteContentStream", 2)
         /\ Call(c, PutBytes(tree, Target(c), j.seen[1].id, NoId),
                 LAMBDA a : OkOr(j, a, 204, 500))

CmisOps == {"CreateDocument", "CreateFolder", "UpdateProperties", "DeleteObject", "MoveObject",
            "SetContentStream", "DeleteContentStream"}

CmisStep(c) ==
  \/ CreateDocument(c) \/ CreateFolder(c) \/ UpdateProperties(c) \/ DeleteObject(c)
  \/ MoveObject(c) \/ SetContentStream(c) \/ DeleteContentStream(c) \/ BadId(c, CmisOps)
=============================================================================
