----------------------------- MODULE TreeStore -----------------------------
(***************************************************************************)
(* The storage behind the CS3 gateway, as the handlers use it: one tree of *)
(* spaces, folders and files with a bin, and the calls on it.  It is not   *)
(* part of this repository; what is modelled is what the handlers rely on. *)
(*                                                                         *)
(* A name is a sequence of parts, the pieces between the slashes a client  *)
(* may write in it: an unescaped name used in a path is as many segments   *)
(* as it has parts, an escaped one is a single segment.  A reference has a *)
(* start (a resource id, or Slash for an absolute path) and a path of      *)
(* segments, each of them a name.                                          *)
(***************************************************************************)
EXTENDS Naturals, Sequences, SequencesExt, FiniteSets

CONSTANTS
  Ids,        \* resource ids, those not given out yet included
  Slash,      \* where absolute paths start; the parent of the spaces
  NoId        \* the absent ParentId of a space root, an id that resolves to nothing

ASSUME StoreIds == Slash \notin Ids /\ NoId \notin Ids /\ Slash # NoId

Ref(at, path) == [at |-> at, path |-> path]

Node(state, parent, name, kind, body) ==
  [state |-> state, parent |-> parent, name |-> name, kind |-> kind,
   body |-> body, meta |-> {}, bin |-> NoId]

Unused == Node("unused", NoId, <<>>, "file", NoId)

NodeOK(n) ==
  /\ n = [state |-> n.state, parent |-> n.parent, name |-> n.name, kind |-> n.kind,
          body |-> n.body, meta |-> n.meta, bin |-> n.bin]
  /\ n.state \in {"live", "bin", "unused"}
  /\ n.parent \in Ids \cup {Slash, NoId}
  /\ n.state = "bin" => n.bin \in Ids

TreeOK(t) == t = [o \in Ids |-> t[o]] /\ \A o \in Ids : NodeOK(t[o])

Live(t) == {o \in Ids : t[o].state = "live"}
Folders(t) == {o \in Live(t) : t[o].kind = "folder"}

\* The object of that name in a folder.
Child(t, p, n) ==
  LET found == {o \in Live(t) : t[o].parent = p /\ t[o].name = n}
  IN  IF found = {} THEN NoId ELSE CHOOSE o \in found : TRUE

Resolve(t, ref) ==
  IF ref.at \in Live(t) \cup {Slash}
    THEN FoldLeft(LAMBDA p, n : Child(t, p, n), ref.at, ref.path)
    ELSE NoId

\* The object itself and the folders above it, up to its space.
Lineage(t, o) ==
  LET up[x \in Ids] == {x} \cup IF t[x].parent \in Ids THEN up[t[x].parent] ELSE {}
  IN  up[o]

Below(t, o) == {x \in Live(t) : o \in Lineage(t, x)}

PathOf(t, o) ==
  LET path[x \in Ids] ==
        IF t[x].parent \in Ids THEN Append(path[t[x].parent], t[x].name) ELSE <<t[x].name>>
  IN  path[o]

\* What Stat tells: the parent of a space root is absent.
Info(t, o) ==
  [id |-> o, parent |-> IF t[o].parent = Slash THEN NoId ELSE t[o].parent,
   path |-> PathOf(t, o), name |-> t[o].name, kind |-> t[o].kind]

NoInfo == [id |-> NoId, parent |-> NoId, path |-> <<>>, name |-> <<>>, kind |-> "file"]

(***************************************************************************)
(* A result: the status code, the tree after the call, what it tells, and  *)
(* the entry it makes in a request's history.                              *)
(***************************************************************************)
Result(call, code, t, o) ==
  [code |-> code, tree |-> t,
   info |-> IF o \in Ids THEN Info(t, o) ELSE NoInfo,
   did |-> [call |-> call, code |-> code, obj |-> o,
            into |-> IF o \in Ids THEN t[o].parent ELSE NoId,
            name |-> IF o \in Ids THEN t[o].name ELSE <<>>]]

\* The folder a new or moved object goes to; NoId when there is none.
Into(t, ref) ==
  LET p == IF ref.path = <<>> THEN NoId ELSE Resolve(t, Ref(ref.at, Front(ref.path)))
  IN  IF p \in Folders(t) THEN p ELSE NoId

Stat(t, ref) ==
  LET o == Resolve(t, ref)
  IN  IF o \in Ids THEN Result("Stat", "OK", t, o)
      ELSE [Result("Stat", "NOT_FOUND", t, NoId) EXCEPT !.did.obj = ref.at]

\* The calls that list what a folder or its bin holds, or a file's versions, or
\* open a file to read it.
Look(call, t, ref, kinds) ==
  LET o == Resolve(t, ref)
  IN  Result(call, IF o = Slash \/ (o \in Ids /\ t[o].kind \in kinds) THEN "OK"
                   ELSE IF o \in Ids THEN "INVALID" ELSE "NOT_FOUND", t, o)

Spaces(t) == {o \in Live(t) : t[o].parent = Slash}
ListSpaces(t) == Result("Spaces", "OK", t, NoId)

\* The ids are as many as Ids; a storage that has given out all is full.
FreshId(t) == CHOOSE o \in Ids : t[o] = Unused
Full(t) == \A o \in Ids : t[o] # Unused

Born(t, ref, kind, body) ==
  [t EXCEPT ![FreshId(t)] = Node("live", Into(t, ref), Last(ref.path), kind, body)]

CreateContainer(t, ref) ==
  IF Resolve(t, ref) \in Ids THEN Result("Create", "ALREADY_EXISTS", t, Resolve(t, ref))
  ELSE IF Into(t, ref) = NoId THEN Result("Create", "NOT_FOUND", t, NoId)
  ELSE IF Full(t) THEN Result("Create", "OTHER", t, NoId)
  ELSE Result("Create", "OK", Born(t, ref, "folder", NoId), FreshId(t))

CreateSpace(t, name) ==
  LET o == FreshId(t)
  IN  IF Full(t) THEN Result("Space", "OTHER", t, NoId)
      ELSE Result("Space", "OK", [t EXCEPT ![o] = Node("live", Slash, name, "folder", NoId)], o)

Move(t, src, dst) ==
  LET o == Resolve(t, src)
      p == Into(t, dst)
  IN  IF o \notin Ids THEN Result("Move", "NOT_FOUND", t, NoId)
      ELSE IF p = NoId \/ t[o].parent = Slash \/ p \in Below(t, o)
        THEN Result("Move", "INVALID", t, o)
      ELSE IF Child(t, p, Last(dst.path)) \notin {NoId, o}
        THEN Result("Move", "ALREADY_EXISTS", t, o)
      ELSE Result("Move", "OK",
                  [t EXCEPT ![o].parent = p, ![o].name = Last(dst.path)], o)

\* A folder goes to the bin with all that is in it, under the key of the folder.
Delete(t, ref) ==
  LET o == Resolve(t, ref)
  IN  IF o \notin Ids THEN Result("Delete", "NOT_FOUND", t, ref.at)
      ELSE Result("Delete", "OK",
                  [x \in Ids |-> IF x \in Below(t, o)
                                   THEN [t[x] EXCEPT !.state = "bin", !.bin = o] ELSE t[x]], o)

Restore(t, key) ==
  LET back == {x \in Ids : t[x].state = "bin" /\ t[x].bin = key}
  IN  IF back = {} \/ t[key].parent \notin Folders(t) \cup {Slash}
           \/ Child(t, t[key].parent, t[key].name) # NoId
        THEN Result("Restore", "NOT_FOUND", t, key)
        ELSE Result("Restore", "OK",
                    [x \in Ids |-> IF x \in back
                                     THEN [t[x] EXCEPT !.state = "live", !.bin = NoId] ELSE t[x]],
                    key)

SetMetadata(t, ref, who) ==
  LET o == Resolve(t, ref)
  IN  IF o \notin Ids THEN Result("Meta", "NOT_FOUND", t, NoId)
      ELSE Result("Meta", "OK", [t EXCEPT ![o].meta = @ \cup {who}], o)

\* An upload is bound to the file that is there when it is initiated, or to
\* a place in a folder; the file of a new place appears with the bytes.
Initiate(t, ref) ==
  LET o == Resolve(t, ref)
  IN  IF o \in Ids
        THEN Result("Initiate", IF t[o].kind = "file" THEN "OK" ELSE "INVALID", t, o)
        ELSE Result("Initiate", IF Into(t, ref) = NoId THEN "NOT_FOUND" ELSE "OK", t, NoId)

PutBytes(t, ref, obj, body) ==
  LET o == IF obj = NoId THEN Resolve(t, ref) ELSE obj
  IN  IF o \in Ids
        THEN IF t[o].state = "live" /\ t[o].kind = "file"
               THEN Result("Put", "OK", [t EXCEPT ![o].body = body], o)
               ELSE Result("Put", "INVALID", t, o)
      ELSE IF Into(t, ref) = NoId THEN Result("Put", "NOT_FOUND", t, NoId)
      ELSE IF Full(t) THEN Result("Put", "OTHER", t, NoId)
      ELSE Result("Put", "OK", Born(t, ref, "file", body), FreshId(t))
=============================================================================
