---------------------------- MODULE MetadataKeys ----------------------------
(***************************************************************************)
(* The keys of the metadata: what a client calls a field, under which key  *)
(* of the storage it is kept, and what the clients are shown of all that   *)
(* an object carries.  A key is a sequence of parts, the pieces between    *)
(* its dots; a part is a word written one of several ways.                 *)
(***************************************************************************)
EXTENDS Naturals, Sequences, SequencesExt, FiniteSets

CONSTANTS
  Logins,       \* who writes
  KeysAsked,    \* the keys they use
  Fields,       \* the values they write
  Config,       \* [namespaces, users, known]: name -> namespace, login -> name, key -> storage key
  Unset,        \* no value
  MaxWrites     \* bound

Spellings == {"lower", "upper", "mixed"}
Part(word, spelling) == [word |-> word, spelling |-> spelling]

Spelled(key, spelling) == [i \in DOMAIN key |-> Part(key[i].word, spelling)]
SameWords(k, l) == Spelled(k, "lower") = Spelled(l, "lower")

IsKey(k) == Len(k) \in Nat /\ k = [i \in 1..Len(k) |-> Part(k[i].word, k[i].spelling)]

\* Between the dots of a key there is one piece at least.
ASSUME KeyConstants ==
  /\ \A k \in KeysAsked : IsKey(k) /\ k # <<>>
  /\ \A k \in DOMAIN Config.known : IsKey(Config.known[k])
  /\ Unset \notin Fields
  /\ "default" \in DOMAIN Config.namespaces
  /\ DOMAIN Config.users \subseteq Logins
  /\ \A n \in DOMAIN Config.namespaces :
       IsKey(Config.namespaces[n].prefix)
         /\ Config.namespaces[n].storage_case \in {"lower", "preserve"}
         /\ Config.namespaces[n].client_case \in {"upper", "preserve"}

\* A user's namespace, or the default one.
NamespaceForUser(login) ==
  IF login \in DOMAIN Config.users /\ Config.users[login] \in DOMAIN Config.namespaces
    THEN Config.namespaces[Config.users[login]]
    ELSE Config.namespaces["default"]

\* `known' holds the fixed keys, those of the info: fields included.
ToStorageKey(login, key) ==
  LET ns == NamespaceForUser(login)
  IN  IF key \in DOMAIN Config.known THEN Config.known[key]
      ELSE ns.prefix \o IF ns.storage_case = "lower" THEN Spelled(key, "lower") ELSE key

NamespacesOf(skey) ==
  {n \in DOMAIN Config.namespaces : IsStrictPrefix(Config.namespaces[n].prefix, skey)}

Without(prefix, skey) == SubSeq(skey, Len(prefix) + 1, Len(skey))

ClientKeyIn(ns, skey) ==
  LET key == Without(ns.prefix, skey)
  IN  IF ns.client_case = "upper" THEN Spelled(key, "upper") ELSE key

ToClientKeyDefault(skey) ==
  IF "default" \in NamespacesOf(skey) THEN {ClientKeyIn(Config.namespaces["default"], skey)} ELSE {skey}

\* The namespaces are tried in no order: the client keys a storage key can get.
ToClientKey(skey) ==
  IF NamespacesOf(skey) = {} THEN {skey}
  ELSE {ClientKeyIn(Config.namespaces[n], skey) : n \in NamespacesOf(skey)}

VARIABLES
  metadata,   \* storage key -> value, of one object
  writes      \* history: what was written, in order

keyVars == <<metadata, writes>>

StorageKeys == {ToStorageKey(l, k) : l \in Logins, k \in KeysAsked}

Nothing == [s \in StorageKeys |-> Unset]

KeysInit == metadata = Nothing /\ writes = <<>>

SetIndex(login, key, value) ==
  /\ Len(writes) < MaxWrites
  /\ metadata' = [metadata EXCEPT ![ToStorageKey(login, key)] = value]
  /\ writes' = Append(writes, [login |-> login, key |-> key, value |-> value])

\* The next object.
Anew == Len(writes) = MaxWrites /\ metadata' = Nothing /\ writes' = <<>>

KeysNext == Anew \/ \E l \in Logins, k \in KeysAsked, v \in Fields : SetIndex(l, k, v)

KeysSpec == KeysInit /\ [][KeysNext]_keyVars

-----------------------------------------------------------------------------
KeysTypeOK == metadata \in [StorageKeys -> Fields \cup {Unset}]

\* An answer has one value per client key: of the storage keys that get it, any.
Carried == {s \in StorageKeys : metadata[s] # Unset}
Shown(key) == {metadata[s] : s \in {c \in Carried : key \in ToClientKey(c)}}

\* How a login sees a key it wrote.
AsShown(login, key) ==
  LET ns == NamespaceForUser(login)
  IN  IF key \in DOMAIN Config.known THEN Config.known[key]
      ELSE IF ns.client_case = "upper" THEN Spelled(key, "upper")
      ELSE IF ns.storage_case = "lower" THEN Spelled(key, "lower") ELSE key

NamespacePrefixes == {Config.namespaces[n].prefix : n \in DOMAIN Config.namespaces}

\* No namespace lies in another, or holds a fixed key.
Apart ==
  /\ \A p, q \in NamespacePrefixes : p # q => ~IsPrefix(p, q)
  /\ \A k \in DOMAIN Config.known, p \in NamespacePrefixes : ~IsPrefix(p, Config.known[k])

\* What a key names: a fixed key its storage key, another key itself.
FieldOf(key) == IF key \in DOMAIN Config.known THEN Config.known[key] ELSE key

\* What was last written to a field is what every login is shown of it, by its
\* client key, as long as all who wrote it used one key, spelled one way, and wrote
\* through one namespace.  Two namespaces, two spellings kept apart, or a fixed
\* field and its storage key used as a key, show one of their values, whichever
\* comes last out of a map.
LastWriteIsShown ==
  \A i \in DOMAIN writes :
    LET w == writes[i]
        same == {k \in DOMAIN writes : SameWords(FieldOf(writes[k].key), FieldOf(w.key))}
    IN  Apart /\ (\A k \in same : /\ writes[k].key = w.key /\ k <= i
                         /\ NamespaceForUser(writes[k].login) = NamespaceForUser(w.login))
          => Shown(AsShown(w.login, w.key)) = {w.value}
=============================================================================
