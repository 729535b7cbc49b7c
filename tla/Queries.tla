------------------------------ MODULE Queries ------------------------------
(***************************************************************************)
(* CMIS-QL: what the parser makes of a statement, which objects answer it, *)
(* and the pages a client takes one after the other.                       *)
(***************************************************************************)
EXTENDS QueryText, FiniteSets

CONSTANTS
  Resources,    \* object -> [type, in: scope -> the folders to list to come upon it there,
                \* has: what a listing tells of it, shows: the properties of the object answered]
  MetaProperties, \* those without the prefix cmis:, metadata, which a listing does not tell
  NoIds,        \* texts that are no id of a folder
  Rank,         \* the order of values as strings; Empty comes first
  Alike,        \* what LIKE and CONTAINS match: pairs of a value and a pattern
  PageSizes,    \* what clients ask for
  MaxInt        \* the largest int

ASSUME QueryConstants ==
  /\ Empty \in DOMAIN Rank /\ Rank[Empty] = 0 /\ \A v \in DOMAIN Rank : Rank[v] \in Nat
  /\ \A o \in DOMAIN Resources : Range(Resources[o].has) \cup Range(Resources[o].shows) \subseteq DOMAIN Rank
  /\ MaxInt \in Nat /\ PageSizes \subseteq 0..MaxInt
  /\ IsFiniteSet(DOMAIN Resources) /\ Cardinality(DOMAIN Resources) <= MaxInt

Found == DOMAIN Resources

-----------------------------------------------------------------------------
TokAt(t, i) == IF i \in DOMAIN t THEN t[i] ELSE "end_of_text"

isKeywordNoOn(tok) == tok \in {"WHERE", "ORDER", "JOIN", "LEFT", "INNER", "GROUP", "HAVING"}
isKeyword(tok) == tok \in {"WHERE", "ORDER", "JOIN", "LEFT", "INNER", "ON", "GROUP", "HAVING"}

\* The first of the stop words from i on, or the end.
Upto(t, i, stop) ==
  LET ends == {k \in i..Len(t) : t[k] \in stop}
  IN  IF ends = {} THEN Len(t) + 1 ELSE CHOOSE k \in ends : \A e \in ends : k <= e

Past(t, i, word) == IF TokAt(t, i) = word THEN i + 1 ELSE i
PastAlias(t, i) == IF i <= Len(t) /\ ~isKeyword(t[i]) THEN i + 1 ELSE i

\* A JOIN is read over: its type, its alias, its ON up to the next clause.
PastJoin(t, i) ==
  LET on == PastAlias(t, Past(t, IF t[i] = "JOIN" THEN i ELSE i + 1, "JOIN") + 1)
  IN  IF TokAt(t, on) = "ON" THEN Upto(t, on, {"WHERE", "ORDER", "JOIN", "LEFT", "INNER"}) ELSE on

PastJoins(t) ==
  LET past[i \in 1..(Len(t) + 2)] ==
        IF TokAt(t, i) \in {"JOIN", "LEFT", "INNER"} THEN past[PastJoin(t, i)] ELSE i
  IN  past

\* One pass over the WHERE clause.  What begins at a token: a kind, what it says,
\* where to go on.  Whatever is no condition, AND, OR and NOT included, is skipped.
Read(kind, what, next) == [kind |-> kind, what |-> what, next |-> next]

ReadContains(t, i) ==
  LET at == Past(t, i + 1, "(")
  IN  IF at <= Len(t) THEN Read("CONTAINS", t[at], Past(t, at + 1, ")")) ELSE Read("skip", Empty, at)

ValuesFrom(t) ==
  LET values[i \in 1..(Len(t) + 1)] ==
        IF i > Len(t) \/ TokAt(t, i) = ")" THEN <<>>
        ELSE IF t[i] = Comma THEN values[i + 1] ELSE <<t[i]>> \o values[i + 1]
  IN  values

ReadIn(t, i) == Read("pred", Predicate(t[i], "IN", ValuesFrom(t)[i + 3]), Upto(t, i + 3, {")"}) + 1)

ReadAt(t, i) ==
  CASE t[i] \in {"AND", "OR"} -> Read("skip", Empty, i + 1)
    [] t[i] \in {"IN_FOLDER", "IN_TREE"} ->
         IF TokAt(t, i + 1) = "(" /\ i + 2 <= Len(t)
           THEN Read(t[i], t[i + 2], Past(t, i + 3, ")")) ELSE Read("broken", Empty, Len(t) + 1)
    [] t[i] = "CONTAINS" -> ReadContains(t, i)
    [] OTHER ->
       CASE TokAt(t, i + 1) = "IS" /\ TokAt(t, i + 2) = "NULL" -> Read("pred", Predicate(t[i], "IS_NULL", <<>>), i + 3)
         [] TokAt(t, i + 1) = "IS" /\ TokAt(t, i + 2) = "NOT" /\ TokAt(t, i + 3) = "NULL" ->
              Read("pred", Predicate(t[i], "IS_NOT_NULL", <<>>), i + 4)
         [] TokAt(t, i + 1) = "IN" /\ TokAt(t, i + 2) = "(" -> ReadIn(t, i)
         [] TokAt(t, i + 1) \in Comparisons /\ i + 2 <= Len(t) ->
              Read("pred", Predicate(t[i], t[i + 1], <<t[i + 2]>>), i + 3)
         [] OTHER -> Read("skip", Empty, i + 1)

\* What the clause says from a token on, and where it ends.
EndsAt(i) == Adding("end", i, NothingSaid)
ParseWhere(t) ==
  LET said[i \in 1..(Len(t) + 2)] ==
        IF i > Len(t) \/ TokAt(t, i) = "ORDER" THEN EndsAt(i)
        ELSE Adding(ReadAt(t, i).kind, ReadAt(t, i).what, said[ReadAt(t, i).next])
  IN  said

ParseOrder(t) ==
  LET direction(i) == IF TokAt(t, i + 1) \in {"ASC", "DESC"} THEN i + 2 ELSE i + 1
      orders[i \in 1..(Len(t) + 1)] ==
        IF i > Len(t) THEN <<>>
        ELSE <<OrderBy(t[i], TokAt(t, i + 1) = "DESC")>>
               \o IF TokAt(t, direction(i)) = Comma THEN orders[direction(i) + 1] ELSE <<>>
  IN  orders

LastSaid(said) == IF said = <<>> THEN Empty ELSE said[Len(said)]

\* All conditions form one conjunction.
parseQuery(t) ==
  LET from == IF TokAt(t, 2) = "*" THEN 3 ELSE Upto(t, 2, {"FROM"})
      where == PastJoins(t)[PastAlias(t, from + 2)]
      said == IF TokAt(t, where) = "WHERE" THEN ParseWhere(t)[where + 1] ELSE EndsAt(where)
      order == said["end"][1]
  IN  IF TokAt(t, 1) # "SELECT" \/ TokAt(t, from) # "FROM" \/ from = Len(t) \/ said["broken"] # <<>>
        THEN Refused
        ELSE Meaning(t[from + 1], <<LastSaid(said["IN_FOLDER"]), LastSaid(said["IN_TREE"])>>, LastSaid(said["CONTAINS"]),
                     <<said["pred"]>>, IF TokAt(t, order) = "ORDER" THEN ParseOrder(t)[Past(t, order + 1, "BY")] ELSE <<>>)

-----------------------------------------------------------------------------
\* The execution.  `failed' are the folders whose listing fails, `told' the objects
\* whose metadata was had.
ValueIn(values, o, property, told) ==
  IF property \notin DOMAIN values \/ (property \in MetaProperties /\ o \notin told)
    THEN Empty ELSE values[property]

\* Conditions look at what the gateway tells of a resource, the order at the
\* object made of it.
getPropertyValue(o, property, told)       == ValueIn(Resources[o].has, o, property, told)
getObjectPropertyValue(o, property, told) == ValueIn(Resources[o].shows, o, property, told)

matchPredicate(v, p) ==
  CASE p.operator = "="           -> v = p.values[1]
    [] p.operator \in {"<>", "!="} -> v # p.values[1]
    [] p.operator = "LIKE"        -> <<v, p.values[1]>> \in Alike
    [] p.operator = "<"           -> Rank[v] < Rank[p.values[1]]
    [] p.operator = ">"           -> Rank[v] > Rank[p.values[1]]
    [] p.operator = "<="          -> Rank[v] <= Rank[p.values[1]]
    [] p.operator = ">="          -> Rank[v] >= Rank[p.values[1]]
    [] p.operator = "IS_NULL"     -> v = Empty
    [] p.operator = "IS_NOT_NULL" -> v # Empty
    [] p.operator = "IN"          -> v \in ToSet(p.values)

matchesContains(o, term, told) ==
  \E p \in {"cmis:name"} \cup MetaProperties : <<getPropertyValue(o, p, told), term>> \in Alike

matchesType(o, type) == type \in {"cmis:document", "cmis:folder"} => Resources[o].type = type

Holds(p, o, told) == matchPredicate(getPropertyValue(o, p.property, told), p)

needsMetadataForPredicates(q) == \E p \in ToSet(q.where[1]) : p.property \in MetaProperties
needsMetadata(q) ==
  \/ q.contains # Empty
  \/ \E p \in ToSet(q.where[1]) \cup ToSet(q.orderBy) : p.property \in MetaProperties

\* A search lists one folder, or walks it; with neither named the repository's.
Searched(q) == IF q.scope = <<Empty, Empty>> THEN <<"repository", Empty>> ELSE q.scope
FolderID(q) == IF Searched(q)[1] # Empty THEN Searched(q)[1] ELSE Searched(q)[2]

InScope(scope) == {o \in Found : scope \in DOMAIN Resources[o].in}
FoldersOf(scope) == UNION {Resources[o].in[scope] : o \in InScope(scope)}

\* What lies below a folder that does not list is left out.
Reached(q, failed) ==
  {o \in InScope(Searched(q)) : Resources[o].in[Searched(q)] \cap failed = {} /\ matchesType(o, q.type)}

Matches(q, failed, told) ==
  {o \in Reached(q, failed) : /\ \A p \in ToSet(q.where[1]) : Holds(p, o, told)
                              /\ q.contains # Empty => matchesContains(o, q.contains, told)}

\* What comes first by the first ORDER BY property that tells two objects apart.
Before(orderBy, o, x, told) ==
  LET value(i, y) == Rank[getObjectPropertyValue(y, orderBy[i].property, told)]
  IN  \E i \in DOMAIN orderBy :
        /\ \A k \in 1..(i - 1) : value(k, o) = value(k, x)
        /\ IF orderBy[i].descending THEN value(i, o) > value(i, x) ELSE value(i, o) < value(i, x)

\* The folders list in any order, and the sort is stable: any order that has
\* nothing behind what it comes before.
sortResults(found, orderBy, told) ==
  {s \in SetToSeqs(found) : \A i, k \in DOMAIN s : i < k => ~Before(orderBy, s[k], s[i], told)}

\* Integers wrap; an `end' before the start is no slice, and the request is lost.
Wrapped(n) == IF n > MaxInt THEN n - 2 * (MaxInt + 1) ELSE n
Lesser(m, n) == IF m <= n THEN m ELSE n

Window(total, skip, max) == [from |-> Lesser(skip, total), to |-> Lesser(Wrapped(Lesser(skip, total) + max), total)]

-----------------------------------------------------------------------------
VARIABLE client    \* the client: its statement, its last page size, what it got so far

\* The history: `missed' are objects below folders that did not list, `blind' those
\* whose metadata was needed and not had.
Waiting == [at |-> "waiting", asked |-> [text |-> <<>>, meant |-> Refused], max |-> 0,
            got |-> <<>>, missed |-> {}, blind |-> {}]

QueriesInit == client = Waiting

Write ==
  /\ client.at = "waiting"
  /\ \E s \in Statements : client' = [Waiting EXCEPT !.at = "asking", !.asked = s]

\* The next page: skipCount is what the client has.  Any listing and any request
\* for metadata can fail, and the page is answered without what it would have told.
Query ==
  LET q == parseQuery(client.asked.text)
  IN  /\ client.at = "asking"
      /\ \/ /\ q = Refused \/ FolderID(q) \in NoIds
            /\ client' = [client EXCEPT !.at = "refused"]
         \/ /\ q # Refused /\ FolderID(q) \notin NoIds
            /\ \E failed \in SUBSET FoldersOf(Searched(q)), max \in PageSizes :
               \E told \in SUBSET IF needsMetadata(q) THEN Reached(q, failed) ELSE {} :
               \E results \in sortResults(Matches(q, failed, told), q.orderBy, told) :
                 LET w == Window(Len(results), Len(client.got), max)
                 IN  IF w.to < w.from THEN client' = [client EXCEPT !.at = "lost", !.max = max]
                     ELSE client' = [client EXCEPT !.max = max,
                            !.at = IF w.to < Len(results) THEN "asking" ELSE "done",
                            !.got = @ \o SubSeq(results, w.from + 1, w.to),
                            !.missed = @ \cup (Reached(q, {}) \ Reached(q, failed)),
                            !.blind = @ \cup IF needsMetadata(q) THEN Reached(q, failed) \ told ELSE {}]

Leave == client.at \in {"refused", "lost", "done"} /\ client' = Waiting

QueriesNext == Write \/ Query \/ Leave
QueriesSpec == QueriesInit /\ [][QueriesNext]_client

-----------------------------------------------------------------------------
QueriesTypeOK ==
  /\ client.at \in {"waiting", "asking", "refused", "lost", "done"}
  /\ client.asked.text # <<>> => client.asked \in Statements
  /\ client.got \in Seq(Found) /\ client.missed \subseteq Found /\ client.blind \subseteq Found

Meant == client.asked.meant

\* A statement without alternatives is understood as it was meant, its joins and
\* aliases left out; an incomplete one is refused.  Of one with alternatives
\* everything else is understood, and all the conditions of one of them are read.
Understood(q, m) ==
  \/ q = m
  \/ /\ Len(m.where) > 1 /\ [q EXCEPT !.where = m.where] = m
     /\ \E i \in DOMAIN m.where : ToSet(m.where[i]) \subseteq ToSet(q.where[1])

ParsedAsWritten == client.at # "waiting" => Understood(parseQuery(client.asked.text), Meant)

\* The objects that were asked for: any of the alternatives holds of them.
AskedBy(m) ==
  {o \in Reached(m, {}) : /\ \E i \in DOMAIN m.where : \A p \in ToSet(m.where[i]) : Holds(p, o, Found)
                          /\ m.contains # Empty => matchesContains(o, m.contains, Found)}
Asked == AskedBy(Meant)

\* No object is answered that was not asked for, unless its metadata could not be
\* had; also when alternatives were asked for, and when listings failed.
AnsweredIsAsked == ToSet(client.got) \subseteq Asked \cup client.blind

\* The orders that leave nothing open: a single order of what was asked for.
Total == \A o, x \in Asked : o # x => Before(Meant.orderBy, o, x, Found) \/ Before(Meant.orderBy, x, o, Found)

AllTold == client.missed \cup client.blind = {}

\* The pages of a statement that orders all it asks for, when no listing and no
\* request for metadata failed: they are in that order with nothing twice, in
\* whatever order the folders list, and none is lost unless the page size makes its
\* end overflow.  If the statement asks for no alternatives, with OR, they hold
\* everything it asks for; what of several alternatives is answered is not said.
PagesAddUp ==
  Total /\ AllTold =>
    /\ \A i, k \in DOMAIN client.got : i < k => Before(Meant.orderBy, client.got[i], client.got[k], Found)
    /\ client.at = "lost" => Len(client.got) + client.max > MaxInt
    /\ client.at = "done" /\ Len(Meant.where) = 1 => ToSet(client.got) = Asked

\* What a client collects over the pages: never an object that was not asked for
\* and whose metadata was had; without failures and with a total order nothing
\* twice, and, for a statement without OR, nothing missing.
AnswersAreRight == client.at # "waiting" => AnsweredIsAsked /\ PagesAddUp
=============================================================================
