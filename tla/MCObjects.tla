----------------------------- MODULE MCObjects -----------------------------
(***************************************************************************)
(* A space s with the folders a and b, the document x in a and y in b; the *)
(* personal space home with a document of x's name; a document w of a in the  *)
(* bin.  Each client sends one request: the first any of both APIs, the    *)
(* second one of those that disturb it most.                               *)
(***************************************************************************)
EXTENDS Objects, TLC

CONSTANTS s, home, a, b, x, y, z, w, n1, n2, c1, c2

MCIds == {s, home, a, b, x, y, z, w, n1, n2}

Doc(parent, name) == Node("live", parent, <<name>>, "file", NoId)
Folder(parent, name) == Node("live", parent, <<name>>, "folder", NoId)

MCTree ==
  (s :> Folder(Slash, "s")) @@ (home :> Folder(Slash, "home")) @@ (a :> Folder(s, "a"))
    @@ (b :> Folder(s, "b")) @@ (x :> Doc(a, "x")) @@ (y :> Doc(b, "y")) @@ (z :> Doc(home, "x"))
    @@ (w :> [Doc(a, "w") EXCEPT !.state = "bin", !.bin = w]) @@ (n1 :> Unused) @@ (n2 :> Unused)

Id(o) == Ref(o, <<>>)
InA == Ref(Slash, <<<<"s">>, <<"a">>>>)         \* /s/a
AX == Ref(s, <<<<"a">>, <<"x">>>>)              \* a/x in the repository s
BadAX == Ref(NoId, <<<<"s">>, <<"a">>, <<"x">>>>)
RepoA == Ref(s, <<<<"a">>>>)

On(op, ref)         == Ask(op, ref, Nowhere, <<"n">>, <<>>, {})
To(op, ref, dst)    == Ask(op, ref, dst, <<"n">>, <<>>, {})
As(op, ref, name)   == Ask(op, ref, Nowhere, name, <<>>, {"content", "props", "name", "aktz"})
Many(op, ref, list) == Ask(op, ref, Nowhere, <<"n">>, list, {})

Writes ==
  {Ask("SetFolder", Nowhere, Id(a), name, <<>>, {}) : name \in {<<"n">>, <<"b", "n">>}}
  \cup {On("SetFolder", Ref(Slash, Append(InA.path, <<"n">>)))}
  \cup {As("CreateFolderByParentFolderID", r, <<"n">>) : r \in {Id(a), Nowhere}}
  \cup {On("CreateFolderByParentFolderPath", InA)}
  \cup {As("RenameFolder", Id(a), name) : name \in {<<"b">>, <<"n">>, <<"b", "n">>}}
  \cup {As("RenameDocument", Id(x), <<"n">>), As("RenameDocument", Id(s), <<"n">>)}
  \cup {Many(op, Nowhere, <<Id(a), Nowhere, Id(y)>>) : op \in {"DeleteFolders", "BinDocuments"}}
  \cup {Many("RecoverObjects", Nowhere, <<Id(w), Id(x)>>)}
  \cup {Many(op, Id(b), list) :
          op \in {"MoveObjects", "CopyObjects"}, list \in {<<>>, <<Id(x), Nowhere, Id(y)>>}}
  \cup {On("SetIndex", Id(x)), On("SetFile", Id(x)), On("SetFile", Id(a))}
  \cup {As("CreateRootFolder", Nowhere, <<"n">>), On("CreateRootFolder", Nowhere)}

CmisWrites ==
  {As("CreateDocument", RepoA, name) : name \in {<<"n">>, <<"x">>}}
  \cup {On("CreateDocument", Id(s))}
  \cup {As("CreateFolder", r, <<"n">>) : r \in {Id(s), RepoA, Ref(NoId, InA.path)}}
  \cup {As("UpdateProperties", AX, <<"n">>), On("UpdateProperties", AX)}
  \cup {On("DeleteObject", AX), On("DeleteObject", RepoA), On("DeleteObject", BadAX)}
  \cup {To("MoveObject", AX, Id(b)), To("MoveObject", Id(b), Id(a)), On("MoveObject", AX)}
  \cup {On(op, AX) : op \in {"SetContentStream", "DeleteContentStream"}}
  \cup {As("CreateFolder", Nowhere, <<"n">>)}

Reads ==
  {On(op, Id(x)) : op \in ReadOps \ {"GetFolderMeta", "GetChildren", "GetFolderParent"}}
  \cup {On(op, Id(a)) : op \in {"GetFolderMeta", "GetChildren", "GetFolderParent",
                                "GetAllVersions", "GetContentStream"}}
  \cup {On("GetFolderParent", Id(s)), On("GetObjectParents", Id(s)), On("GetDocument", Nowhere)}
  \cup {On("ExistObjectId", r) : r \in {Id(x), Nowhere}}
  \cup {On("GetDeletedFiles", r) : r \in {Id(a), Nowhere}}
  \cup {On("GetRepositoryInfo", r) : r \in {Id(s), Id(a)}}
  \cup {On("GetFolderByFolderpath", r) : r \in {InA, Ref(Slash, <<>>)}}
  \cup {On("ExistObjectPath", InA), On("GetFolderRoot", Nowhere), On("GetRepositories", Nowhere)}

Imports ==
  {Ask("Import", ref, dst, <<"x">>, <<>>, {"old", "props"}) :
     ref \in {Id(a), Nowhere}, dst \in {Id(s), Nowhere}}
  \cup {Ask("Import", Id(b), Nowhere, <<"n">>, <<>>, {})}

Disturbing ==
  {As("RenameFolder", Id(a), <<"n">>), As("RenameDocument", Id(x), <<"n">>),
   Many("DeleteFolders", Nowhere, <<Id(a)>>), To("MoveObject", AX, Id(b)),
   Ask("SetFolder", Nowhere, Id(a), <<"n">>, <<>>, {}), As("CreateDocument", RepoA, <<"n">>),
   Many("RecoverObjects", Nowhere, <<Id(w)>>), On("SetFile", Id(x)),
   Many("VerifyMigration", Nowhere, <<c1>>)}

MCAsked(c) == IF c = c1 THEN Writes \cup CmisWrites \cup Reads \cup Imports
              ELSE Writes \cup CmisWrites \cup Imports \cup Disturbing
=============================================================================
