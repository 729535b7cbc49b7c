------------------------------- MODULE Import -------------------------------
(***************************************************************************)
(* ImportDocumentDynamic: a legacy document is uploaded, its index becomes *)
(* metadata and its legacy id is mapped to the new one; and the check of a *)
(* migration that reads the map.  A request's ref is the folder asked for, *)
(* its dst the space; the legacy id is that of the client.                 *)
(***************************************************************************)
EXTENDS Requests

CONSTANTS
  Personal,   \* the personal space of the session
  Zero        \* the id of nothing, 00000000-0000-0000-0000-000000000000

ASSUME ImportIds == Personal \in Ids /\ Zero \notin Ids \cup {NoId, Slash}

VARIABLE mapping    \* the migration map: legacy id -> new id, Zero or NoId (none)

\* The folder when its id decodes, else the space, else the personal space,
\* else some other space; no space at all is an error.
GivenTarget(q) == IF q.ref # Nowhere THEN q.ref ELSE q.dst
AutoTarget(t) ==
  IF Spaces(t) = {} THEN NoId
  ELSE IF Personal \in Spaces(t) THEN Personal ELSE CHOOSE o \in Spaces(t) : TRUE

UploadRef(j) ==
  Ref(IF GivenTarget(j.ask) # Nowhere THEN GivenTarget(j.ask).at ELSE j.seen[1].id,
      Escaped(j.ask.name))

KnowsName(j, id, step) == [GoTo(j, step) EXCEPT !.seen = Append(@, [NoInfo EXCEPT !.id = j.ask.name])]
Knows(j, id, step) == [GoTo(j, step) EXCEPT !.seen = Append(@, [NoInfo EXCEPT !.id = id])]

ChooseTarget(c) ==
  LET j == job[c]
  IN  /\ At(c, "Import", 1) /\ GivenTarget(j.ask) = Nowhere
      /\ Call(c, ListSpaces(tree),
              LAMBDA a : IF a.code = "OK" /\ AutoTarget(tree) # NoId
                           THEN Knows(j, AutoTarget(tree), 2) ELSE Reply(j, 500))

\* One retry after a broken connection.
InitiateUpload(c) ==
  LET j == job[c]
  IN  /\ \/ At(c, "Import", 1) /\ GivenTarget(j.ask) # Nowhere
         \/ At(c, "Import", 2)
         \/ At(c, "Import", 3)
      /\ \E reconnected \in BOOLEAN :
           Call(c, Initiate(tree, UploadRef(j)),
                LAMBDA a : CASE a.code = "OK" -> Knows(j, a.info.id, 4)
                             [] a.code = "ERROR" /\ reconnected /\ j.step # 3 -> GoTo(j, 3)
                             [] OTHER -> Reply(j, 500))

Bound(j) == Last(j.seen).id

\* What is known of the new id: the header of the answer names it, or is empty.
Stored(j, a, told) == Knows(j, IF told THEN a.info.id ELSE NoId, IF told THEN 8 ELSE 6)

\* The simple protocol, and the other one when it fails.
TrySimpleUpload(c) ==
  LET j == job[c]
  IN  /\ At(c, "Import", 4)
      /\ \E told, offered \in BOOLEAN :
           Call(c, PutBytes(tree, UploadRef(j), Bound(j), c),
                LAMBDA a : IF a.code = "OK" THEN Stored(j, a, told)
                           ELSE IF offered THEN GoTo(j, 5) ELSE Reply(j, 500))

AfterTUS(j, a, told) == IF a.code = "OK" THEN Stored(j, a, told) ELSE Reply(j, 500)

TryTUSUpload(c) ==
  LET j == job[c]
  IN  /\ At(c, "Import", 5)
      /\ \E told \in BOOLEAN :
           Call(c, PutBytes(tree, UploadRef(j), Bound(j), c), LAMBDA a : AfterTUS(j, a, told))

\* Without an id the document is looked up by its name, in the personal space
\* whatever the target was.
LookUpUploaded(c) ==
  LET j == job[c]
  IN  \/ /\ At(c, "Import", 6)
         /\ Call(c, ListSpaces(tree),
                 LAMBDA a : GoTo(j, IF a.code = "OK" /\ Personal \in Spaces(tree) THEN 7 ELSE 8))
      \/ /\ At(c, "Import", 7)
         /\ Call(c, Stat(tree, Ref(Personal, Escaped(j.ask.name))),
                 LAMBDA a : IF a.code = "OK" THEN Knows(j, a.info.id, 8) ELSE GoTo(j, 8))

\* The index is set without regard to the result.
StoreIndex(c) ==
  LET j == job[c]
  IN  /\ At(c, "Import", 8)
      /\ IF Bound(j) # NoId /\ "props" \in j.ask.with
           THEN Call(c, SetMetadata(tree, Ref(Bound(j), <<>>), c), LAMBDA a : GoTo(j, 9))
           ELSE job' = [job EXCEPT ![c] = GoTo(j, 9)] /\ UNCHANGED <<tree, faults>>

MapOldId(c) ==
  LET j == job[c]
  IN  /\ At(c, "Import", 9)
      /\ mapping' = IF "old" \in j.ask.with
                      THEN [mapping EXCEPT ![c] = IF Bound(j) = NoId THEN Zero ELSE Bound(j)]
                      ELSE mapping
      /\ job' = [job EXCEPT ![c] = Says(j, 200, "there")]
      /\ UNCHANGED <<tree, faults>>

ImportDocumentDynamic(c) ==
  \/ /\ \/ ChooseTarget(c) \/ InitiateUpload(c) \/ TrySimpleUpload(c) \/ TryTUSUpload(c)
        \/ LookUpUploaded(c) \/ StoreIndex(c)
     /\ UNCHANGED mapping
  \/ MapOldId(c)

\* The new ids are looked up once, then each is looked for in the storage.  An
\* id that does not decode, as Zero does not, is no issue.
VerifyMigration(c) ==
  LET j == job[c]
      old == j.ask.items[1]
  IN  /\ \/ /\ At(c, "VerifyMigration", 1)
            /\ job' = [job EXCEPT ![c] = CASE mapping[old] = NoId -> Says(j, 200, "unmapped")
                                           [] mapping[old] = Zero -> Says(j, 200, "fine")
                                           [] OTHER -> Knows(j, mapping[old], 2)]
            /\ UNCHANGED <<tree, faults>>
         \/ /\ At(c, "VerifyMigration", 2)
            /\ Call(c, Stat(tree, Ref(Bound(j), <<>>)),
                    LAMBDA a : IF a.code = "OK" THEN Says(j, 200, "there")
                               ELSE Says(j, 200, "absent"))
      /\ UNCHANGED mapping

ImportStep(c) == ImportDocumentDynamic(c) \/ VerifyMigration(c)
=============================================================================
