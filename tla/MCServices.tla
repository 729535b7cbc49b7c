----------------------------- MODULE MCServices -----------------------------
(***************************************************************************)
(* Small instances of the components that share no state.                  *)
(***************************************************************************)
EXTENDS Services, TLC

CONSTANTS u, v, i1, i2, t1, t2, r1, r2, k1, k2, k3, f1, f2,
          d1, d2, d3, e, fl, gx, gy, gz, n1

-----------------------------------------------------------------------------
MCFileOf == (k1 :> f1) @@ (k2 :> f2) @@ (k3 :> f2)

\* A chain of three folders, another folder beside it, a file halfway down.
MCParent0 == (d1 :> Root) @@ (d2 :> d1) @@ (d3 :> d2) @@ (e :> Root) @@ (fl :> d2)

\* Legacy ids that do and do not decode themselves, and an id of the storage.
MCRawOf == (gx :> Undecodable) @@ (gy :> <<"x">>) @@ (gz :> <<"!">>)
             @@ (n1 :> <<"x", "$", "x", "!", "x">>)

-----------------------------------------------------------------------------
\* The metadata: the default namespace, one that keeps spellings, one that shows
\* keys as stored, and a user whose namespace is gone.
OfOne(word, spelling) == <<Part(word, spelling)>>
Namespace(word, storage, client_case) ==
  [prefix |-> OfOne(word, "lower"), storage_case |-> storage, client_case |-> client_case]

Betreff == OfOne("betreff", "mixed")

MCConfig ==
  [namespaces |-> ("default" :> Namespace("ctrl", "lower", "upper"))
                    @@ ("hr" :> Namespace("hr", "preserve", "upper"))
                    @@ ("raw" :> Namespace("raw", "lower", "preserve")),
   users |-> ("worker" :> "hr") @@ ("import" :> "raw") @@ ("lost" :> "gone"),
   known |-> (Betreff :> <<Part("oy", "lower"), Part("subject", "lower")>>)]

MCKeysAsked ==
  {Betreff, OfOne("betreff", "upper"), OfOne("nr", "mixed"), OfOne("nr", "upper"),
   <<Part("hr", "lower"), Part("nr", "lower")>>, <<Part("oy", "lower"), Part("subject", "lower")>>}

-----------------------------------------------------------------------------
\* The statements: their conditions written out, with every clause there can be.
\* A folder, the repository's own, with a document o1 and a folder o3 that holds o2.
Directly(listings) == (<<"repository", Empty>> :> listings) @@ (<<"f", Empty>> :> listings)
Inside(folders) == <<Empty, "f">> :> folders
Has(name, path) == ("cmis:name" :> name) @@ ("cmis:path" :> path)
OnSubject(subject) == "subject" :> subject

MCResources ==
  ("o1" :> [type |-> "cmis:document", in |-> Directly({"f"}) @@ Inside({"f"}),
            has |-> Has("a", "/a") @@ OnSubject("x"), shows |-> ("cmis:name" :> "a") @@ OnSubject("x")])
    @@ ("o2" :> [type |-> "cmis:document", in |-> Inside({"f", "o3"}),
                 has |-> Has("b", "/c/b") @@ OnSubject("x"), shows |-> ("cmis:name" :> "b") @@ OnSubject("x")])
    @@ ("o3" :> [type |-> "cmis:folder", in |-> Directly({"f"}) @@ Inside({"f"}),
                 has |-> Has("c", "/c"), shows |-> Has("c", "/c")])

MCRank ==
  ("" :> 0) @@ ("/a" :> 1) @@ ("/c" :> 2) @@ ("/c/b" :> 3) @@ ("a" :> 4) @@ ("b" :> 5) @@ ("c" :> 6) @@ ("x" :> 7)
MCAlike == {<<"a", "%a">>, <<"b", "%b">>, <<"x", "%x">>}

Name(op, value) == Condition("pred", Predicate("cmis:name", op, <<value>>))
Subject(op, value) == Condition("pred", Predicate("subject", op, <<value>>))
Null(op) == Condition("pred", Predicate("subject", op, <<>>))
Listed == Condition("pred", Predicate("cmis:name", "IN", <<"a", "c">>))
InTree == Condition("IN_TREE", "f")

Joining(how, alias, on) == [how |-> how, type |-> "t", alias |-> alias, on |-> on]
Key(property, direction) == [property |-> property, direction |-> direction]

Form(columns, type, alias, joins, alternatives, orderBy) ==
  [columns |-> columns, type |-> type, alias |-> alias, joins |-> joins,
   alternatives |-> alternatives, orderBy |-> orderBy]

Orders ==
  {<<>>, <<Key("cmis:name", <<"DESC">>)>>, <<Key("subject", <<"ASC">>), Key("cmis:name", <<>>)>>,
   <<Key("cmis:path", <<"DESC">>), Key("cmis:name", <<"ASC">>)>>}
Searches ==
  {<<InTree>>, <<InTree, Name("<>", "a")>>, <<Null("IS_NOT_NULL"), Listed, InTree>>,
   <<Null("IS_NULL"), InTree, Name("<=", "b")>>, <<Name(">", "a"), Subject("LIKE", "%x"), InTree>>}
Wheres ==
  {<<>>} \cup {<<Condition(kind, "f")>> : kind \in {"IN_FOLDER", "IN_TREE"}}
    \cup {<<Condition("IN_TREE", "bad")>>, <<InTree, Condition("pred", Predicate("cmis:path", ">", <<"/a">>))>>}
    \cup {<<Condition("CONTAINS", term)>> : term \in {"%a", "%x"}}
    \cup {<<Condition(kind, "f"), Condition("CONTAINS", term)>> : kind \in {"IN_FOLDER", "IN_TREE"}, term \in {"%a", "%x"}}
Alternatives ==
  {<< <<Name("=", "a")>>, <<Null("IS_NULL")>> >>,
   << <<Subject(">=", "x"), InTree, Name("=", "b")>>, <<Name("<", "c"), InTree>>, <<InTree>> >>}
Broken == {<<"IN_TREE">>, <<"IN_FOLDER", "f">>}
Joins ==
  {<<>>, <<Joining(<<"LEFT", "JOIN">>, <<"m">>, <<"d.x", "=", "m.x">>)>>,
   <<Joining(<<"JOIN">>, <<>>, <<"x", "=", "y">>), Joining(<<"INNER", "JOIN">>, <<>>, <<>>)>>}

MCForms ==
  {Form(<<"*">>, "cmis:item", a, js, <<ps>>, q) : a \in {<<>>, <<"d">>}, js \in Joins, ps \in Searches, q \in Orders}
    \cup {Form(<<"cmis:name", ",", "x">>, t, <<>>, <<>>, <<w>>, q) : t \in {"cmis:document", "cmis:item"}, w \in Wheres, q \in Orders}
    \cup {Form(<<"*">>, "cmis:item", <<>>, <<>>, w, q) : w \in Alternatives, q \in Orders}
    \cup {Form(<<"*">>, "cmis:item", <<>>, <<>>, << <<Condition("broken", w), Name("!=", "a")>> >>, q) : w \in Broken, q \in Orders}

MCFragments ==
  {<<>>, <<"DELETE", "*", "FROM", "t">>, <<"SELECT", "cmis:name", ",", "x">>, <<"SELECT", "*", "FROM">>, <<"SELECT", "FROM">>}

-----------------------------------------------------------------------------
Symmetry == Permutations(Requests) \cup Permutations(Sids) \cup Permutations(Tokens)
=============================================================================
