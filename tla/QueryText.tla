----------------------------- MODULE QueryText ------------------------------
(***************************************************************************)
(* The CMIS-QL statements clients write: the parts one has, the tokens it  *)
(* is written with, and what is meant by it.  A token is a word, a quoted  *)
(* value or a sign, each taken whole; values are told from words by their  *)
(* quotes, so none of those below is a sign where that would matter.       *)
(***************************************************************************)
EXTENDS Integers, Sequences, SequencesExt

CONSTANTS
  Forms,     \* the statements, each in its parts
  Fragments, \* texts that break off before a type is named
  Empty      \* the value of a property an object does not have, and no id or term

Predicate(property, operator, values) == [property |-> property, operator |-> operator, values |-> values]
OrderBy(property, descending) == [property |-> property, descending |-> descending]
Condition(kind, what) == [kind |-> kind, what |-> what]

\* What is meant by a statement: `where' holds its alternatives, each of them
\* conditions that must all hold.
Meaning(type, scope, contains, where, orderBy) ==
  [type |-> type, scope |-> scope, contains |-> contains, where |-> where, orderBy |-> orderBy]
Refused == Meaning("refused", <<Empty, Empty>>, Empty, <<>>, <<>>)

Comma == ","
Scopes == {"IN_FOLDER", "IN_TREE", "CONTAINS"}
Comparisons == {"=", "<>", "!=", "<", ">", "<=", ">=", "LIKE"}

\* What conditions say by their kind, in their order: the first before the rest.
SaidKinds == {"pred", "broken", "end"} \cup Scopes
NothingSaid == [kind \in SaidKinds |-> <<>>]
Adding(kind, what, rest) == IF kind \in SaidKinds THEN [rest EXCEPT ![kind] = <<what>> \o @] ELSE rest

-----------------------------------------------------------------------------
\* The words of the values in a list, of a condition, of a whole statement.
Separated(values) == [i \in 1..(2 * Len(values) - 1) |-> IF i % 2 = 1 THEN values[(i + 1) \div 2] ELSE Comma]

PredicateWords(p) ==
  CASE p.operator = "IS_NULL"      -> <<p.property, "IS", "NULL">>
    [] p.operator = "IS_NOT_NULL"  -> <<p.property, "IS", "NOT", "NULL">>
    [] p.operator = "IN"           -> <<p.property, "IN", "(">> \o Separated(p.values) \o <<")">>
    [] p.operator \in Comparisons -> <<p.property, p.operator, p.values[1]>>

Words(c) ==
  CASE c.kind = "pred"     -> PredicateWords(c.what)
    [] c.kind \in Scopes  -> <<c.kind, "(", c.what, ")">>
    [] c.kind = "broken"   -> c.what

JoinPiece(j) == j.how \o <<j.type>> \o j.alias \o IF j.on = <<>> THEN <<>> ELSE <<"ON">> \o j.on

\* The conditions of all alternatives, each behind the word in front of it.
Linked(f) ==
  FlattenSeq([a \in DOMAIN f.alternatives |->
    [i \in DOMAIN f.alternatives[a] |->
       [link |-> IF i > 1 THEN "AND" ELSE IF a > 1 THEN "OR" ELSE "WHERE", said |-> f.alternatives[a][i]]]])

OrderPiece(f, i) ==
  (IF i = 1 THEN <<"ORDER", "BY">> ELSE <<Comma>>) \o <<f.orderBy[i].property>> \o f.orderBy[i].direction

Pieces(f) ==
  << <<"SELECT">> \o f.columns, <<"FROM", f.type>> \o f.alias >>
    \o [i \in DOMAIN f.joins |-> JoinPiece(f.joins[i])]
    \o [i \in DOMAIN Linked(f) |-> <<Linked(f)[i].link>> \o Words(Linked(f)[i].said)]
    \o [i \in DOMAIN f.orderBy |-> OrderPiece(f, i)]

Text(f) == FlattenSeq(Pieces(f))

-----------------------------------------------------------------------------
\* What is meant by it.
ConditionsOf(f) == UNION {ToSet(f.alternatives[a]) : a \in DOMAIN f.alternatives}

SaidIn(conditions) ==
  LET said[i \in 1..(Len(conditions) + 1)] ==
        IF i > Len(conditions) THEN NothingSaid ELSE Adding(conditions[i].kind, conditions[i].what, said[i + 1])
  IN  said

Named(conditions, kind) == {c.what : c \in {d \in conditions : d.kind = kind}}
TheOne(S) == IF S = {} THEN Empty ELSE CHOOSE s \in S : TRUE

MeaningOf(f) ==
  LET named(kind) == TheOne(Named(ConditionsOf(f), kind))
  IN  IF \E c \in ConditionsOf(f) : c.kind = "broken" THEN Refused
      ELSE Meaning(f.type, <<named("IN_FOLDER"), named("IN_TREE")>>, named("CONTAINS"),
                   [a \in DOMAIN f.alternatives |-> SaidIn(f.alternatives[a])[1]["pred"]],
                   [i \in DOMAIN f.orderBy |-> OrderBy(f.orderBy[i].property, f.orderBy[i].direction = <<"DESC">>)])

Statements == {[text |-> Text(f), meant |-> MeaningOf(f)] : f \in Forms} \cup {[text |-> t, meant |-> Refused] : t \in Fragments}

-----------------------------------------------------------------------------
\* What the parts must be for the words to be told apart.
Keywords == {"WHERE", "ORDER", "JOIN", "LEFT", "INNER", "ON", "GROUP", "HAVING"}
ClauseWords == {"WHERE", "ORDER", "JOIN", "LEFT", "INNER"}
Connectives == {"ORDER", "AND", "OR"}

IsList(s) == s \in Seq(ToSet(s))
NoneOrOne(alias) == alias \in Seq(STRING \ Keywords) /\ Len(alias) <= 1

ColumnsOK(columns) ==
  /\ columns \in Seq(STRING) \ {<<>>}
  /\ columns[1] = "*" => columns = <<"*">>
  /\ "FROM" \notin ToSet(columns)

JoinOK(j) ==
  /\ j.how \in {<<"JOIN">>, <<"LEFT", "JOIN">>, <<"INNER", "JOIN">>}
  /\ j.type \in STRING /\ NoneOrOne(j.alias)
  /\ j.on \in Seq(STRING \ ClauseWords)

PredicateOK(p) ==
  /\ p = Predicate(p.property, p.operator, p.values)
  /\ p.property \in STRING \ (Connectives \cup Scopes)
  /\ p.values \in Seq(STRING)
  /\ \/ p.operator \in {"IS_NULL", "IS_NOT_NULL"} /\ p.values = <<>>
     \/ p.operator = "IN" /\ ToSet(p.values) \cap {Comma, ")"} = {}
     \/ p.operator \in Comparisons /\ Len(p.values) = 1

\* A broken condition names a folder without the sign it needs.
ConditionOK(c) ==
  \/ c.kind = "pred" /\ PredicateOK(c.what)
  \/ c.kind \in Scopes /\ c.what \in STRING
  \/ /\ c.kind = "broken" /\ c.what \in Seq(STRING) /\ Len(c.what) \in 1..2
     /\ c.what[1] \in {"IN_FOLDER", "IN_TREE"}
     /\ Len(c.what) = 2 => c.what[2] # "("

\* A search is in one place, whichever alternative holds.
AlternativesOK(f) ==
  /\ IsList(f.alternatives) /\ f.alternatives # <<>>
  /\ \A a \in DOMAIN f.alternatives :
       /\ IsList(f.alternatives[a]) /\ \A c \in ToSet(f.alternatives[a]) : ConditionOK(c)
       /\ Len(f.alternatives) > 1 => f.alternatives[a] # <<>>
       /\ \A scope \in Scopes : Named(ToSet(f.alternatives[a]), scope) = Named(ConditionsOf(f), scope)
  /\ \A scope \in Scopes : \A v, w \in Named(ConditionsOf(f), scope) : v = w

OrderOK(k) == k.property \in STRING /\ k.direction \in {<<>>, <<"ASC">>, <<"DESC">>}

FormOK(f) ==
  /\ ColumnsOK(f.columns) /\ f.type \in STRING /\ NoneOrOne(f.alias)
  /\ IsList(f.joins) /\ \A j \in ToSet(f.joins) : JoinOK(j)
  /\ AlternativesOK(f)
  /\ IsList(f.orderBy) /\ \A k \in ToSet(f.orderBy) : OrderOK(k)

ASSUME FormsOK == \A f \in Forms : FormOK(f)

\* A fragment does not begin with SELECT, or names no type.
ASSUME FragmentsOK ==
  \A t \in Fragments : t \in Seq(STRING) /\ (t = <<>> \/ t[1] # "SELECT" \/ \A i \in 2..(Len(t) - 1) : t[i] # "FROM")
=============================================================================
