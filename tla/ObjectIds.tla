----------------------------- MODULE ObjectIds -----------------------------
(***************************************************************************)
(* Object ids: the three decoders of the encoded triple                    *)
(* storage$space!object, and the legacy ids the DMS handlers resolve       *)
(* through the migration map, whose entries may lead to further ids.       *)
(***************************************************************************)
EXTENDS Naturals, Sequences, SequencesExt, FiniteSets

CONSTANTS
  Signs,       \* the characters of a decoded id, "$" and "!" among them
  MaxLen,      \* the longest decoded id
  GivenIds,    \* ids as clients give them
  GuidLike,    \* those that look like a legacy GUID: 36 long, "-" at 8 and 13
  RawOf        \* id -> the characters it decodes to, or Undecodable

ASSUME IdConstants ==
  /\ {"$", "!"} \subseteq Signs
  /\ MaxLen \in Nat
  /\ GuidLike \subseteq GivenIds
  /\ IsFiniteSet(GivenIds)

Undecodable == <<"undecodable">>
NoSuchId == "none"

\* A resource id, or the error of a decoder.
Rid(storage, space, opaque) == [storage |-> storage, space |-> space, opaque |-> opaque]
BadFormat == Rid(<<"error">>, <<"error">>, <<"error">>)

encodeObjectID(rid) == rid.storage \o <<"$">> \o rid.space \o <<"!">> \o rid.opaque

Positions(raw, sign) == {i \in DOMAIN raw : raw[i] = sign}
FirstOf(S) == CHOOSE i \in S : \A k \in S : i <= k
LastOf(S)  == CHOOSE i \in S : \A k \in S : i >= k

\* The parts around the first "$" and the "!" at `bang'; without a "$" before it
\* there is no space.
Parts(raw, bang) ==
  LET dollars == Positions(raw, "$")
      rest == SubSeq(raw, bang + 1, Len(raw))
  IN  IF dollars # {} /\ FirstOf(dollars) < bang
        THEN Rid(SubSeq(raw, 1, FirstOf(dollars) - 1), SubSeq(raw, FirstOf(dollars) + 1, bang - 1), rest)
        ELSE Rid(SubSeq(raw, 1, bang - 1), <<>>, rest)

\* Of several "!" the DMS handlers take the last, the browser binding and the
\* upload the first.
DecodeAt(raw, Bang(_)) ==
  IF raw = Undecodable \/ Positions(raw, "!") = {} THEN BadFormat
  ELSE Parts(raw, Bang(Positions(raw, "!")))

DecodeDms(raw)  == DecodeAt(raw, LastOf)
DecodeCmisLast(raw) == DecodeAt(raw, LastOf)
DecodeCmis(raw) == DecodeAt(raw, FirstOf)
decodeSpaceID(raw) == DecodeAt(raw, FirstOf)

VARIABLES
  idMap,    \* the migration map, as far as resolving goes: id -> id or NoSuchId
  given     \* what the id of a request decodes to, and the resource it was made
            \* from, or BadFormat

idVars == <<idMap, given>>

NotGiven == [raw |-> Undecodable, of |-> BadFormat]

IdsInit ==
  /\ idMap = [i \in GuidLike |-> NoSuchId]
  /\ given = NotGiven

\* A mapping may name any new id: a client's, or that of an import.
MapMigrationID ==
  /\ \E old \in GuidLike, new \in GivenIds : idMap' = [idMap EXCEPT ![old] = new]
  /\ UNCHANGED given

\* A client gives an id an answer told it, or makes one up.
GiveBack ==
  /\ given = NotGiven
  /\ \E st, sp, op \in BoundedSeq(Signs, 1) :
       given' = [raw |-> encodeObjectID(Rid(st, sp, op)), of |-> Rid(st, sp, op)]
  /\ UNCHANGED idMap

MakeUp ==
  /\ given = NotGiven
  /\ \E raw \in BoundedSeq(Signs, MaxLen) : given' = [raw |-> raw, of |-> BadFormat]
  /\ UNCHANGED idMap

AnswerId == given # NotGiven /\ given' = NotGiven /\ UNCHANGED idMap

IdsNext == MapMigrationID \/ GiveBack \/ MakeUp \/ AnswerId
IdsSpec == IdsInit /\ [][IdsNext]_idVars

Mapped(i) == i \in GuidLike /\ idMap[i] # NoSuchId

ResolveOnce(i) == IF Mapped(i) THEN DecodeDms(RawOf[idMap[i]]) ELSE DecodeDms(RawOf[i])

\* A mapped GUID stands for the id it is mapped to, whatever that is: the call
\* recurs until an id is not mapped, or without end.
Endless == Rid(<<"endless">>, <<"endless">>, <<"endless">>)

decodeWithin[k \in 0..Cardinality(GivenIds)] ==
  [x \in GivenIds |->
     IF ~Mapped(x) THEN DecodeDms(RawOf[x])
     ELSE IF k = 0 THEN Endless ELSE decodeWithin[k - 1][idMap[x]]]

Resolved(i) == decodeWithin[Cardinality(GivenIds)][i]

-----------------------------------------------------------------------------
IdsTypeOK ==
  /\ idMap \in [GuidLike -> GivenIds \cup {NoSuchId}]
  /\ given.raw = Undecodable \/ given.raw \in Seq(Signs)

\* The ids a chain of mappings leads through: the least set that has the id and
\* what the mapped ones lead to.
Chain(i) ==
  CHOOSE S \in SUBSET GivenIds :
    /\ i \in S /\ \A x \in S : Mapped(x) => idMap[x] \in S
    /\ \A T \in SUBSET S : (i \in T /\ \A x \in T : Mapped(x) => idMap[x] \in T) => T = S

\* Resolving a mapped id gives what the one unmapped id of its chain decodes to, however
\* long the chain; it ends unless the chain is a circle.
ResolvesToTheEnd ==
  \A i \in {x \in GuidLike : Mapped(x)} :
    LET ends == {x \in Chain(i) : ~Mapped(x)}
    IN  IF ends = {} THEN Resolved(i) = Endless
        ELSE \E x \in ends : Resolved(i) = DecodeDms(RawOf[x])

FreeOf(part, signs) == ToSet(part) \cap signs = {}

\* An id made from a resource id is decoded to it by each API, as long as the
\* parts are free of the signs that decoder trips over.
DecodesBack ==
  given.of # BadFormat =>
    /\ FreeOf(given.of.storage, {"$"}) /\ FreeOf(given.of.opaque, {"!"}) => DecodeDms(given.raw) = given.of
    /\ FreeOf(given.of.storage, {"$", "!"}) /\ FreeOf(given.of.space, {"!"}) =>
         DecodeCmis(given.raw) = given.of /\ decodeSpaceID(given.raw) = given.of

\* The APIs take an id for the same resource, or all for none, if it has at most
\* one "!".
DecodersAgree ==
  Cardinality(Positions(given.raw, "!")) <= 1
    => DecodeDms(given.raw) = DecodeCmis(given.raw) /\ DecodeDms(given.raw) = decodeSpaceID(given.raw)

\* An id names one resource, whichever API it was got from and is given to.
SameResource == DecodesBack /\ DecodersAgree
=============================================================================
