--------------------------- MODULE QueriesProofs ---------------------------
(***************************************************************************)
(* What holds of CMIS-QL queries for any statements, objects and page      *)
(* sizes.  First the parser: each statement is understood as it was meant  *)
(* (StatementParsed).  Its text is laid out in pieces, one for each JOIN,  *)
(* condition and key; each is read from its first token to the first of    *)
(* the next, by the equations of the parser's recursive functions.  Then   *)
(* the answers: the pages a client takes are of one sorted sequence.       *)
(***************************************************************************)
EXTENDS Queries, FiniteSetTheorems, SequenceTheorems, WellFoundedInduction, TLAPS

(***************************************************************************)
(* Induction, and functions whose values are made one from the other.      *)
(***************************************************************************)
\* A set of numbers has a least one (the library's well-founded induction).
LEMMA LeastNat ==
  ASSUME NEW T, T \subseteq Nat, T # {}
  PROVE  \E n \in T : \A m \in T : n <= m
  <1> DEFINE R == OpToRel(<, Nat)
  <1>1. IsWellFoundedOn(R, Nat)
    BY NatLessThanWellFounded
  <1>2. \A m, n \in Nat : <<m, n>> \in R <=> m < n
    BY DEF OpToRel
  <1> HIDE DEF R
  <1>3. PICK n \in T : \A m \in T : ~(<<m, n>> \in R)
    BY <1>1, WFMin
  <1>4. \A m \in T : ~(m < n)
    BY <1>2, <1>3
  <1>5. \A m \in T : n <= m
    BY <1>4
  <1> QED
    BY <1>5

\* Induction, as an argument about the least counterexample.
LEMMA UpTo ==
  ASSUME NEW T, 0 \in T, \A n \in Nat : n \in T => n + 1 \in T
  PROVE  Nat \subseteq T
  <1> SUFFICES ASSUME Nat \ T # {} PROVE FALSE
    OBVIOUS
  <1>1. PICK n \in Nat \ T : \A m \in Nat \ T : n <= m
    BY LeastNat, Nat \ T \subseteq Nat
  <1>2. n # 0 /\ n - 1 \in Nat /\ (n - 1) + 1 = n /\ ~(n <= n - 1)
    BY <1>1
  <1> QED
    BY <1>1, <1>2

\* A function each of whose values is made from a later one exists, and one each of
\* whose values is made from the one before.
MadeFromTheEnd(f, n, go, nx, G, base) == \A k \in 1..n : f[k] = IF k \in go THEN G[k][f[nx[k]]] ELSE base[k]
MadeFromTheStart(f, n, b, G) == \A k \in 1..n : f[k] = IF k = 1 THEN b ELSE G[k][f[k - 1]]

\* The first exists,
LEMMA FromTheEnd ==
  ASSUME NEW n \in Nat, NEW V, NEW go \in SUBSET (1..n), NEW base \in [1..n -> V],
         NEW G \in [1..n -> [V -> V]], NEW nx, \A k \in go : nx[k] \in (k + 1)..n
  PROVE  \E f \in [1..n -> V] : MadeFromTheEnd(f, n, go, nx, G, base)
  <1> USE DEF MadeFromTheEnd
  <1> DEFINE Made(f, m) == \A k \in (n - m + 1)..n : f[k] = IF k \in go THEN G[k][f[nx[k]]] ELSE base[k]
             T == {m \in Nat : m <= n => \E f \in [(n - m + 1)..n -> V] : Made(f, m)}
  <1>1. 0 \in T
    <2>1. (n - 0 + 1)..n = {}
      OBVIOUS
    <2>2. [k \in {} |-> k] \in [{} -> V]
      OBVIOUS
    <2> QED
      BY <2>1, <2>2
  <1>2. ASSUME NEW m \in Nat, m \in T PROVE m + 1 \in T
    <2> SUFFICES ASSUME m + 1 <= n PROVE \E f \in [(n - (m + 1) + 1)..n -> V] : Made(f, m + 1)
      OBVIOUS
    <2>1. PICK f \in [(n - m + 1)..n -> V] : Made(f, m)
      BY <1>2
    <2> DEFINE i == n - m
               v == IF i \in go THEN G[i][f[nx[i]]] ELSE base[i]
               h == [k \in (n - (m + 1) + 1)..n |-> IF k = i THEN v ELSE f[k]]
    <2>2. i \in 1..n /\ (i \in go => nx[i] \in (n - m + 1)..n)
      OBVIOUS
    <2>3. v \in V
      BY <2>1, <2>2
    <2>4. h \in [(n - (m + 1) + 1)..n -> V]
      BY <2>1, <2>3
    <2>5. ASSUME NEW k \in (n - (m + 1) + 1)..n
          PROVE  h[k] = IF k \in go THEN G[k][h[nx[k]]] ELSE base[k]
      <3>1. CASE k = i
        <4>1. i \in go => nx[i] \in (n - (m + 1) + 1)..n /\ nx[i] # i
          BY <2>2
        <4> QED
          BY <3>1, <4>1, <2>2
      <3>2. CASE k # i
        <4>1. k \in (n - m + 1)..n /\ k \in 1..n
          BY <3>2
        <4>2. k \in go => nx[k] \in (n - (m + 1) + 1)..n /\ nx[k] # i
          BY <4>1
        <4>3. f[k] = IF k \in go THEN G[k][f[nx[k]]] ELSE base[k]
          BY <4>1, <2>1
        <4> QED
          BY <3>2, <4>1, <4>2, <4>3
      <3> QED
        BY <3>1, <3>2
    <2> HIDE DEF h
    <2> QED
      BY <2>4, <2>5
  <1> HIDE DEF T
  <1>3. n \in T
    BY <1>1, <1>2, UpTo
  <1>4. PICK f \in [(n - n + 1)..n -> V] : Made(f, n)
    BY <1>3 DEF T
  <1>5. (n - n + 1)..n = 1..n
    OBVIOUS
  <1> QED
    BY <1>4, <1>5

\* and the second.
LEMMA FromTheStart ==
  ASSUME NEW n \in Nat, NEW V, NEW b \in V, NEW G \in [1..n -> [V -> V]]
  PROVE  \E f \in [1..n -> V] : MadeFromTheStart(f, n, b, G)
  <1> USE DEF MadeFromTheStart
  <1> DEFINE Made(f, m) == \A k \in 1..m : f[k] = IF k = 1 THEN b ELSE G[k][f[k - 1]]
             T == {m \in Nat : m <= n => \E f \in [1..m -> V] : Made(f, m)}
  <1>1. 0 \in T
    <2>1. 1..0 = {} /\ [k \in {} |-> k] \in [{} -> V]
      OBVIOUS
    <2> QED
      BY <2>1
  <1>2. ASSUME NEW m \in Nat, m \in T PROVE m + 1 \in T
    <2> SUFFICES ASSUME m + 1 <= n PROVE \E f \in [1..(m + 1) -> V] : Made(f, m + 1)
      OBVIOUS
    <2>1. PICK f \in [1..m -> V] : Made(f, m)
      BY <1>2
    <2> DEFINE v == IF m = 0 THEN b ELSE G[m + 1][f[m]]
               h == [k \in 1..(m + 1) |-> IF k = m + 1 THEN v ELSE f[k]]
    <2>2. v \in V
      <3>1. CASE m = 0
        BY <3>1
      <3>2. CASE m # 0
        <4>1. f[m] \in V /\ G[m + 1] \in [V -> V]
          BY <2>1, <3>2
        <4> QED
          BY <4>1
      <3> QED
        BY <3>1, <3>2
    <2>3. h \in [1..(m + 1) -> V]
      BY <2>1, <2>2
    <2>4. ASSUME NEW k \in 1..(m + 1) PROVE h[k] = IF k = 1 THEN b ELSE G[k][h[k - 1]]
      <3>1. CASE k = m + 1
        BY <3>1
      <3>2. CASE k # m + 1
        <4>1. k \in 1..m /\ (k # 1 => k - 1 \in 1..m)
          BY <3>2
        <4> QED
          BY <4>1, <2>1, <3>2
      <3> QED
        BY <3>1, <3>2
    <2> HIDE DEF h
    <2> QED
      BY <2>3, <2>4
  <1> HIDE DEF T
  <1>3. n \in T
    BY <1>1, <1>2, UpTo
  <1> QED
    BY <1>3 DEF T

-----------------------------------------------------------------------------
(***************************************************************************)
(* Sequences laid out behind each other.                                   *)
(***************************************************************************)
\* What lies where in two sequences put behind each other.
LEMMA ConcatIs ==
  ASSUME NEW S, NEW u \in Seq(S), NEW v \in Seq(S)
  PROVE  /\ u \o v \in Seq(S) /\ Len(u) \in Nat /\ Len(v) \in Nat /\ Len(u \o v) = Len(u) + Len(v)
         /\ \A x \in 1..Len(u) : (u \o v)[x] = u[x]
         /\ \A x \in 1..Len(v) : (u \o v)[Len(u) + x] = v[x]
  OBVIOUS

\* Pieces laid one behind the other, each behind an offset.
LaidOut(P, t, off) ==
  /\ off \in [1..(Len(P) + 1) -> Nat] /\ off[1] = 0 /\ Len(t) = off[Len(P) + 1]
  /\ \A i \in 1..Len(P) : off[i + 1] = off[i] + Len(P[i])
  /\ \A i \in 1..Len(P) : \A j \in 1..Len(P[i]) : off[i] + j \in 1..Len(t) /\ t[off[i] + j] = P[i][j]
  /\ \A x \in 1..Len(t) : \E i \in 1..Len(P) : \E j \in 1..Len(P[i]) : x = off[i] + j

\* Sequences are put behind each other one after the other.
LEMMA FlattenIs ==
  ASSUME NEW S, NEW P \in Seq(Seq(S)), Len(P) # 0
  PROVE  \E f \in [1..Len(P) -> Seq(S)] :
           /\ FlattenSeq(P) = f[Len(P)]
           /\ \A k \in 1..Len(P) : f[k] = IF k = 1 THEN P[1] ELSE f[k - 1] \o P[k]
  <1> DEFINE V == Seq(S)
             G == [k \in 1..Len(P) |-> [s \in V |-> s \o P[k]]]
             Is(f) == f = [i \in 1..Len(P) |-> IF i = 1 THEN P[i] ELSE f[i - 1] \o P[i]]
             g == CHOOSE f : Is(f)
  <1>1. PICK n \in Nat : n = Len(P) /\ n # 0 /\ DOMAIN P = 1..n /\ \A k \in 1..n : P[k] \in V
    OBVIOUS
  <1>2. G \in [1..n -> [V -> V]] /\ \A k \in 1..n : \A s \in V : G[k][s] = s \o P[k]
    BY <1>1
  <1>3. FlattenSeq(P) = g[n]
    BY <1>1 DEF FlattenSeq
  <1> HIDE DEF G, V, Is
  <1>4. PICK f \in [1..n -> V] : \A k \in 1..n : f[k] = IF k = 1 THEN P[1] ELSE G[k][f[k - 1]]
    <2>1. P[1] \in V /\ G \in [1..n -> [V -> V]]
      BY <1>1, <1>2
    <2>2. PICK b \in V : b = P[1]
      BY <2>1
    <2>3. PICK h \in [1..n -> V] : MadeFromTheStart(h, n, b, G)
      BY <2>1, <2>2, FromTheStart, Zenon
    <2> QED
      BY <2>2, <2>3 DEF MadeFromTheStart
  <1>5. ASSUME NEW k \in 1..n PROVE f[k] = IF k = 1 THEN P[k] ELSE f[k - 1] \o P[k]
    <2>1. CASE k = 1
      BY <2>1, <1>4
    <2>2. CASE k # 1
      <3>1. k - 1 \in 1..n /\ f[k - 1] \in V
        BY <2>2, <1>1, <1>4
      <3>2. f[k] = G[k][f[k - 1]]
        BY <2>2, <1>4
      <3> QED
        BY <3>1, <3>2, <2>2, <1>2
    <2> QED
      BY <2>1, <2>2
  <1>6. Is(f)
    BY <1>1, <1>4, <1>5 DEF Is
  <1>7. Is(g)
    BY <1>6
  <1> HIDE DEF g
  <1>8. \A k \in 1..n : g[k] = IF k = 1 THEN P[1] ELSE g[k - 1] \o P[k]
    BY <1>1, <1>7 DEF Is
  <1> DEFINE T == {m \in Nat : m \in 1..n => g[m] \in V}
  <1>9. 0 \in T
    OBVIOUS
  <1>10. ASSUME NEW m \in Nat, m \in T PROVE m + 1 \in T
    <2> SUFFICES ASSUME m + 1 \in 1..n PROVE g[m + 1] \in V
      OBVIOUS
    <2>1. CASE m = 0
      BY <2>1, <1>8, <1>1
    <2>2. CASE m # 0
      <3>1. m \in 1..n
        BY <2>2
      <3>2. g[m] \in V /\ P[m + 1] \in V
        BY <1>1, <1>10, <3>1
      <3>3. g[m + 1] = g[m] \o P[m + 1]
        <4>1. (m + 1) - 1 = m /\ m + 1 # 1
          BY <2>2
        <4> QED
          BY <1>8, <4>1
      <3> QED
        BY <3>2, <3>3 DEF V
    <2> QED
      BY <2>1, <2>2
  <1> HIDE DEF T
  <1>11. Nat \subseteq T
    BY <1>9, <1>10, UpTo
  <1>12. ASSUME NEW m \in 1..n PROVE g[m] \in V
    BY <1>11 DEF T
  <1>13. g \in [1..n -> V]
    BY <1>1, <1>7, <1>12 DEF Is
  <1> QED
    BY <1>1, <1>3, <1>8, <1>13 DEF V

\* The same of the first m of them.
LaidUpTo(P, off, u, m) ==
  /\ \A i \in 1..m : \A j \in 1..Len(P[i]) : off[i] + j \in 1..Len(u) /\ u[off[i] + j] = P[i][j]
  /\ \A x \in 1..Len(u) : \E i \in 1..m : \E j \in 1..Len(P[i]) : x = off[i] + j

\* One more of them laid out behind those before.
LEMMA ConcatLaid ==
  ASSUME NEW S, NEW P \in Seq(Seq(S)), NEW m \in Nat, m + 1 \in 1..Len(P), NEW off \in [1..(Len(P) + 1) -> Nat],
         NEW u \in Seq(S), NEW v \in Seq(S), v = P[m + 1], off[m + 1] = Len(u),
         LaidUpTo(P, off, u, m), NEW w \in Seq(S), w = u \o v
  PROVE  LaidUpTo(P, off, w, m + 1)
  <1> USE DEF LaidUpTo
  <1>1. /\ Len(u) \in Nat /\ Len(v) \in Nat /\ Len(w) = Len(u) + Len(v)
        /\ \A x \in 1..Len(u) : w[x] = u[x]
        /\ \A x \in 1..Len(v) : w[Len(u) + x] = v[x]
    BY ConcatIs
  <1>2. ASSUME NEW i \in 1..(m + 1), NEW j \in 1..Len(P[i])
        PROVE  off[i] + j \in 1..Len(w) /\ w[off[i] + j] = P[i][j]
    <2>1. CASE i = m + 1
      <3>1. j \in 1..Len(v) /\ off[i] = Len(u) /\ P[i] = v
        BY <2>1
      <3>2. Len(u) + j \in 1..Len(w) /\ w[Len(u) + j] = v[j]
        BY <1>1, <3>1
      <3> QED
        BY <3>1, <3>2
    <2>2. CASE i # m + 1
      <3>1. i \in 1..m
        BY <2>2
      <3>2. off[i] + j \in 1..Len(u) /\ u[off[i] + j] = P[i][j]
        BY <3>1
      <3> QED
        BY <1>1, <3>2
    <2> QED
      BY <2>1, <2>2
  <1>3. ASSUME NEW x \in 1..Len(w)
        PROVE  \E i \in 1..(m + 1) : \E j \in 1..Len(P[i]) : x = off[i] + j
    <2>1. CASE x \in 1..Len(u)
      <3>1. PICK i \in 1..m : \E j \in 1..Len(P[i]) : x = off[i] + j
        BY <2>1
      <3> QED
        BY <3>1
    <2>2. CASE x \notin 1..Len(u)
      <3>1. x - Len(u) \in 1..Len(v) /\ x = Len(u) + (x - Len(u))
        BY <2>2, <1>1
      <3>2. m + 1 \in 1..(m + 1) /\ x - Len(u) \in 1..Len(P[m + 1]) /\ x = off[m + 1] + (x - Len(u))
        BY <3>1
      <3> QED
        BY <3>2, Zenon
    <2> QED
      BY <2>1, <2>2
  <1> QED
    BY <1>2, <1>3

\* Sequences put behind each other lie behind each other.
LEMMA Flattened ==
  ASSUME NEW S, NEW P \in Seq(Seq(S)), Len(P) # 0
  PROVE  FlattenSeq(P) \in Seq(S) /\ \E off : LaidOut(P, FlattenSeq(P), off)
  <1>1. PICK f \in [1..Len(P) -> Seq(S)] :
           /\ FlattenSeq(P) = f[Len(P)]
           /\ \A k \in 1..Len(P) : f[k] = IF k = 1 THEN P[1] ELSE f[k - 1] \o P[k]
    BY FlattenIs
  <1>2. PICK n \in Nat : n = Len(P) /\ n # 0
    OBVIOUS
  <1>3. \A k \in 1..n : P[k] \in Seq(S) /\ f[k] \in Seq(S)
    BY <1>1, <1>2
  <1> DEFINE off == [i \in 1..(n + 1) |-> IF i = 1 THEN 0 ELSE Len(f[i - 1])]
             Laid(m) == LaidUpTo(P, off, f[m], m)
             T == {m \in Nat : m \in 1..n => Laid(m)}
  <1>4. off \in [1..(n + 1) -> Nat] /\ off[1] = 0 /\ \A i \in 1..n : off[i + 1] = Len(f[i])
    <2>1. ASSUME NEW i \in 1..(n + 1), i # 1 PROVE Len(f[i - 1]) \in Nat
      <3>1. f[i - 1] \in Seq(S)
        BY <1>3, <2>1
      <3> QED
        BY <3>1
    <2>2. ASSUME NEW i \in 1..n PROVE off[i + 1] = Len(f[i])
      OBVIOUS
    <2> QED
      BY <1>2, <2>1, <2>2
  <1> HIDE DEF off
  <1>5. ASSUME NEW i \in 1..n
        PROVE  off[i + 1] = off[i] + Len(P[i]) /\ f[i] = IF i = 1 THEN P[1] ELSE f[i - 1] \o P[i]
    <2>1. f[i] = IF i = 1 THEN P[1] ELSE f[i - 1] \o P[i]
      BY <1>1, <1>2
    <2>2. CASE i = 1
      <3>1. off[i + 1] = Len(P[i]) /\ Len(P[i]) \in Nat /\ off[i] = 0
        BY <2>1, <2>2, <1>3, <1>4
      <3> QED
        BY <2>1, <3>1
    <2>3. CASE i # 1
      <3>1. i - 1 \in 1..n /\ (i - 1) + 1 = i
        BY <2>3
      <3>2. off[i] = Len(f[i - 1]) /\ f[i - 1] \in Seq(S) /\ P[i] \in Seq(S) /\ off[i + 1] = Len(f[i])
        BY <3>1, <1>3, <1>4
      <3>3. PICK u \in Seq(S), v \in Seq(S) : u = f[i - 1] /\ v = P[i]
        BY <3>2
      <3>4. Len(u \o v) = Len(u) + Len(v)
        BY ConcatIs
      <3> QED
        BY <2>1, <2>3, <3>2, <3>3, <3>4
    <2> QED
      BY <2>2, <2>3
  <1>6. 0 \in T
    OBVIOUS
  <1>7. ASSUME NEW m \in Nat, m \in T PROVE m + 1 \in T
    <2> HIDE DEF Laid
    <2> SUFFICES ASSUME m + 1 \in 1..n PROVE Laid(m + 1)
      OBVIOUS
    <2> HIDE DEF T
    <2>1. CASE m = 0
      <3>1. f[m + 1] = P[m + 1] /\ off[m + 1] = 0 /\ 1..(m + 1) = {m + 1} /\ P[m + 1] \in Seq(S)
        BY <2>1, <1>3, <1>4, <1>5
      <3>2. PICK v \in Seq(S) : v = P[m + 1]
        BY <3>1
      <3>3. \A j \in 1..Len(v) : 0 + j = j
        OBVIOUS
      <3>4. LaidUpTo(P, off, v, m + 1)
        BY <3>1, <3>2, <3>3 DEF LaidUpTo
      <3> QED
        BY <3>1, <3>2, <3>4 DEF Laid
    <2>2. CASE m # 0
      <3>1. m \in 1..n /\ (m + 1) - 1 = m /\ m + 1 # 1
        BY <2>2
      <3>2. Laid(m)
        BY <1>7, <3>1 DEF T
      <3>3. /\ f[m + 1] = f[m] \o P[m + 1] /\ f[m] \in Seq(S) /\ P[m + 1] \in Seq(S)
            /\ off[m + 1] = Len(f[m]) /\ f[m + 1] \in Seq(S)
        BY <1>3, <1>4, <1>5, <3>1
      <3>4. PICK u \in Seq(S), v \in Seq(S), w \in Seq(S) : u = f[m] /\ v = P[m + 1] /\ w = f[m + 1]
        BY <3>3
      <3>5. off \in [1..(Len(P) + 1) -> Nat] /\ w = u \o v /\ off[m + 1] = Len(u) /\ m + 1 \in 1..Len(P)
        BY <3>3, <3>4, <1>2, <1>4
      <3>6. LaidUpTo(P, off, u, m)
        BY <3>2, <3>4 DEF Laid
      <3>7. LaidUpTo(P, off, w, m + 1)
        BY <3>4, <3>5, <3>6, ConcatLaid, Zenon
      <3> QED
        BY <3>4, <3>7 DEF Laid
    <2> QED
      BY <2>1, <2>2
  <1> HIDE DEF T, Laid
  <1>8. Nat \subseteq T
    BY <1>6, <1>7, UpTo
  <1>9. Laid(n)
    BY <1>2, <1>8 DEF T
  <1>10. f[n] \in Seq(S) /\ FlattenSeq(P) = f[n] /\ off[n + 1] = Len(f[n])
    BY <1>1, <1>2, <1>3, <1>4
  <1>11. PICK t \in Seq(S) : t = f[n]
    BY <1>10
  <1>12. \A i \in 1..n : \A j \in 1..Len(P[i]) : off[i] + j \in 1..Len(t) /\ t[off[i] + j] = P[i][j]
    BY <1>9, <1>11 DEF Laid, LaidUpTo
  <1>13. \A x \in 1..Len(t) : \E i \in 1..n : \E j \in 1..Len(P[i]) : x = off[i] + j
    BY <1>9, <1>11 DEF Laid, LaidUpTo
  <1>14. LaidOut(P, t, off)
    BY <1>2, <1>4, <1>5, <1>10, <1>11, <1>12, <1>13 DEF LaidOut
  <1> QED
    BY <1>10, <1>11, <1>14

\* What a text of pieces, none of them empty, has at their places.
HeadOf(P, i) == IF i \in 1..Len(P) THEN P[i][1] ELSE "end_of_text"

-----------------------------------------------------------------------------
(***************************************************************************)
(* What the parser reads over: the tokens of a text, stop words, aliases   *)
(***************************************************************************)
\* The places of a sequence.
LEMMA DomainIs ==
  ASSUME NEW S, NEW t \in Seq(S)
  PROVE  DOMAIN t = 1..Len(t) /\ Len(t) \in Nat
  OBVIOUS

\* What TokAt reads is the token there, or that there is none.
LEMMA TokAtIn ==
  ASSUME NEW S, NEW t \in Seq(S), NEW i \in Int
  PROVE  /\ i \in 1..Len(t) => TokAt(t, i) = t[i]
         /\ i \notin 1..Len(t) => TokAt(t, i) = "end_of_text"
  BY DomainIs DEF TokAt

\* Pieces none of which is empty, laid out as the tokens of a text.
LaidTokens(P, t, off) ==
  /\ off \in [1..(Len(P) + 1) -> Nat] /\ off[1] = 0 /\ off[Len(P) + 1] = Len(t)
  /\ \A i \in 1..Len(P) :
       /\ off[i + 1] = off[i] + Len(P[i])
       /\ \A j \in 1..Len(P[i]) :
            off[i] + j \in 1..Len(t) /\ t[off[i] + j] = P[i][j] /\ TokAt(t, off[i] + j) = P[i][j]
  /\ \A i \in 1..(Len(P) + 1) : off[i] <= Len(t) /\ TokAt(t, off[i] + 1) = HeadOf(P, i)

\* So are the pieces of every text.
LEMMA TokensLaid ==
  ASSUME NEW S, NEW P \in Seq(Seq(S)), \A i \in 1..Len(P) : P[i] # <<>>,
         NEW t \in Seq(S), NEW off, LaidOut(P, t, off)
  PROVE  LaidTokens(P, t, off)
  <1>1. /\ off \in [1..(Len(P) + 1) -> Nat] /\ off[1] = 0 /\ off[Len(P) + 1] = Len(t)
        /\ \A i \in 1..Len(P) : off[i + 1] = off[i] + Len(P[i])
    BY DEF LaidOut
  <1>2. ASSUME NEW i \in 1..Len(P), NEW j \in 1..Len(P[i])
        PROVE  off[i] + j \in 1..Len(t) /\ t[off[i] + j] = P[i][j] /\ TokAt(t, off[i] + j) = P[i][j]
    <2>1. off[i] + j \in 1..Len(t) /\ t[off[i] + j] = P[i][j]
      BY DEF LaidOut
    <2>2. DOMAIN t = 1..Len(t)
      OBVIOUS
    <2> QED
      BY <2>1, <2>2 DEF TokAt
  <1>3. ASSUME NEW i \in 1..(Len(P) + 1)
        PROVE  off[i] <= Len(t) /\ TokAt(t, off[i] + 1) = HeadOf(P, i)
    <2>1. CASE i \in 1..Len(P)
      <3>1. P[i] \in Seq(S) /\ P[i] # <<>>
        BY <2>1
      <3>2. 1 \in 1..Len(P[i])
        BY <3>1
      <3>3. off[i] + 1 \in 1..Len(t) /\ TokAt(t, off[i] + 1) = P[i][1]
        BY <1>2, <2>1, <3>2
      <3>4. off[i] \in Nat
        BY <1>1
      <3> QED
        BY <2>1, <3>3, <3>4 DEF HeadOf
    <2>2. CASE i \notin 1..Len(P)
      <3>1. i = Len(P) + 1 /\ off[i] = Len(t)
        BY <2>2, <1>1
      <3>2. Len(t) + 1 \notin DOMAIN t
        OBVIOUS
      <3> QED
        BY <2>2, <3>1, <3>2 DEF HeadOf, TokAt
    <2> QED
      BY <2>1, <2>2
  <1> QED
    BY <1>1, <1>2, <1>3 DEF LaidTokens

\* The first stop word from i on.
LEMMA UptoIn ==
  ASSUME NEW S, NEW t \in Seq(S), NEW stop, NEW i \in 1..(Len(t) + 1)
  PROVE  Upto(t, i, stop) \in i..(Len(t) + 1)
  <1> DEFINE ends == {k \in i..Len(t) : t[k] \in stop}
  <1>1. CASE ends = {}
    BY <1>1 DEF Upto
  <1>2. CASE ends # {}
    <2>1. ends \subseteq Nat
      OBVIOUS
    <2>2. \E k \in ends : \A e \in ends : k <= e
      BY <1>2, <2>1, LeastNat
    <2>3. Upto(t, i, stop) = CHOOSE k \in ends : \A e \in ends : k <= e
      BY <1>2 DEF Upto
    <2> HIDE DEF ends
    <2>4. Upto(t, i, stop) \in ends
      BY <2>2, <2>3
    <2> QED
      BY <2>4 DEF ends
  <1> QED
    BY <1>1, <1>2

\* It is the first place that has a stop word.
LEMMA UptoIs ==
  ASSUME NEW S, NEW t \in Seq(S), NEW stop, NEW i \in 1..(Len(t) + 1), NEW k \in i..(Len(t) + 1),
         k <= Len(t) => t[k] \in stop, \A e \in i..(k - 1) : t[e] \notin stop
  PROVE  Upto(t, i, stop) = k
  <1> DEFINE ends == {e \in i..Len(t) : t[e] \in stop}
  <1>1. CASE k = Len(t) + 1
    <2>1. ends = {}
      BY <1>1
    <2> QED
      BY <1>1, <2>1 DEF Upto
  <1>2. CASE k # Len(t) + 1
    <2>1. k \in ends /\ \A e \in ends : k <= e
      BY <1>2
    <2>2. \A m \in ends : (\A e \in ends : m <= e) => m = k
      BY <2>1
    <2>3. Upto(t, i, stop) = CHOOSE m \in ends : \A e \in ends : m <= e
      BY <2>1 DEF Upto
    <2> HIDE DEF ends
    <2> QED
      BY <2>1, <2>2, <2>3
  <1> QED
    BY <1>1, <1>2

\* An optional word is read over only if it is there.
LEMMA PastIn ==
  ASSUME NEW S, NEW t \in Seq(S), NEW i \in Nat, NEW word, word # "end_of_text"
  PROVE  Past(t, i, word) \in {i, i + 1} /\ (Past(t, i, word) = i + 1 => i \in 1..Len(t))
  <1>1. Past(t, i, word) = i + 1 => TokAt(t, i) = word
    BY DEF Past
  <1>2. Past(t, i, word) \in {i, i + 1}
    BY DEF Past
  <1>3. i \notin 1..Len(t) => TokAt(t, i) = "end_of_text"
    BY TokAtIn
  <1> QED
    BY <1>1, <1>2, <1>3

\* So is an alias.
LEMMA PastAliasIn ==
  ASSUME NEW S, NEW t \in Seq(S), NEW i \in Nat
  PROVE  PastAlias(t, i) \in {i, i + 1} /\ (PastAlias(t, i) = i + 1 => i <= Len(t))
  BY DEF PastAlias

\* A JOIN is read forward.
LEMMA PastJoinIn ==
  ASSUME NEW S, NEW t \in Seq(S), NEW i \in 1..(Len(t) + 2), TokAt(t, i) \in {"JOIN", "LEFT", "INNER"}
  PROVE  i \in 1..Len(t) /\ PastJoin(t, i) \in (i + 1)..(Len(t) + 2)
  <1>1. i \in 1..Len(t) /\ TokAt(t, i) = t[i] /\ Len(t) \in Nat
    BY TokAtIn, DomainIs
  <1> DEFINE a == IF t[i] = "JOIN" THEN i ELSE i + 1
             b == Past(t, a, "JOIN")
             on == PastAlias(t, b + 1)
  <1>2. b \in (i + 1)..(Len(t) + 1)
    <2>1. CASE t[i] = "JOIN"
      BY <1>1, <2>1 DEF Past
    <2>2. CASE t[i] # "JOIN"
      <3>1. b \in {i + 1, i + 2} /\ (b = i + 2 => i + 1 \in 1..Len(t))
        <4>1. PICK c \in Nat : c = i + 1
          BY <1>1
        <4>2. Past(t, c, "JOIN") \in {c, c + 1} /\ (Past(t, c, "JOIN") = c + 1 => c \in 1..Len(t))
          BY PastIn
        <4> QED
          BY <1>1, <2>2, <4>1, <4>2
      <3> QED
        BY <1>1, <3>1
    <2> QED
      BY <2>1, <2>2
  <1> HIDE DEF b
  <1>3. on \in (i + 1)..(Len(t) + 2)
    <2>1. b + 1 \in Nat
      BY <1>2
    <2>2. on \in {b + 1, b + 2} /\ (on = b + 2 => b + 1 <= Len(t))
      <3>1. PICK c \in Nat : c = b + 1
        BY <2>1
      <3>2. PastAlias(t, c) \in {c, c + 1} /\ (PastAlias(t, c) = c + 1 => c <= Len(t))
        BY PastAliasIn
      <3> QED
        BY <1>2, <3>1, <3>2
    <2> QED
      BY <1>2, <2>2
  <1>4. PastJoin(t, i) = IF TokAt(t, on) = "ON" THEN Upto(t, on, {"WHERE", "ORDER", "JOIN", "LEFT", "INNER"}) ELSE on
    BY DEF PastJoin, b
  <1> HIDE DEF on
  <1>5. CASE TokAt(t, on) = "ON"
    <2>1. on \in 1..Len(t)
      BY <1>5 DEF TokAt
    <2>2. PICK stop : stop = {"WHERE", "ORDER", "JOIN", "LEFT", "INNER"}
      OBVIOUS
    <2>3. Upto(t, on, stop) \in on..(Len(t) + 1)
      BY <2>1, UptoIn
    <2> QED
      BY <1>1, <1>3, <1>4, <1>5, <2>2, <2>3
  <1>6. CASE TokAt(t, on) # "ON"
    BY <1>1, <1>3, <1>4, <1>6
  <1> QED
    BY <1>5, <1>6

-----------------------------------------------------------------------------
(***************************************************************************)
(* The parser's recursive functions: each has the values its equation gives. *)
(***************************************************************************)
\* All JOINs, read over one after the other.
LEMMA PastJoinsAre ==
  ASSUME NEW S, NEW t \in Seq(S), NEW i \in 1..(Len(t) + 2)
  PROVE  PastJoins(t)[i] = IF TokAt(t, i) \in {"JOIN", "LEFT", "INNER"} THEN PastJoins(t)[PastJoin(t, i)] ELSE i
  <1> DEFINE joins == {"JOIN", "LEFT", "INNER"}
             Is(f) == f = [k \in 1..(Len(t) + 2) |-> IF TokAt(t, k) \in joins THEN f[PastJoin(t, k)] ELSE k]
  <1>1. PICK n \in Nat : n = Len(t) + 2
    BY DomainIs
  <1> DEFINE go == {k \in 1..n : TokAt(t, k) \in joins}
             nx == [k \in go |-> PastJoin(t, k)]
             base == [k \in 1..n |-> k]
             V == 1..n
             G == [k \in 1..n |-> [v \in V |-> v]]
  <1>2. \A k \in go : nx[k] = PastJoin(t, k) /\ nx[k] \in (k + 1)..n
    <2> TAKE k \in go
    <2>1. k \in 1..(Len(t) + 2) /\ TokAt(t, k) \in {"JOIN", "LEFT", "INNER"}
      BY <1>1
    <2>2. PastJoin(t, k) \in (k + 1)..(Len(t) + 2)
      BY <2>1, PastJoinIn, Zenon
    <2> QED
      BY <1>1, <2>2
  <1>3. go \in SUBSET (1..n) /\ base \in [1..n -> V] /\ G \in [1..n -> [V -> V]]
    OBVIOUS
  <1>4. \A k \in 1..n : base[k] = k /\ \A v \in V : G[k][v] = v
    OBVIOUS
  <1>5. \A k \in 1..n : k \in go <=> TokAt(t, k) \in joins
    OBVIOUS
  <1> HIDE DEF nx, base, V, G, go, joins
  <1>6. PICK f \in [1..n -> V] : MadeFromTheEnd(f, n, go, nx, G, base)
    BY <1>2, <1>3, FromTheEnd, Zenon
  <1>7. \A k \in 1..n : f[k] = IF TokAt(t, k) \in joins THEN f[PastJoin(t, k)] ELSE k
    <2> TAKE k \in 1..n
    <2>1. CASE k \in go
      <3>1. nx[k] \in 1..n
        BY <1>2, <2>1
      <3> QED
        BY <1>2, <1>4, <1>5, <1>6, <2>1, <3>1 DEF MadeFromTheEnd
    <2>2. CASE k \notin go
      BY <1>4, <1>5, <1>6, <2>2 DEF MadeFromTheEnd
    <2> QED
      BY <2>1, <2>2
  <1>8. Is(f)
    BY <1>1, <1>7
  <1>9. PastJoins(t) = CHOOSE g : Is(g)
    BY DEF PastJoins, joins
  <1> HIDE DEF Is
  <1>10. Is(PastJoins(t))
    BY <1>8, <1>9
  <1> QED
    BY <1>10 DEF Is, joins

\* What is read where no connective and no scope is.
NoWord(tok) == tok \notin {"AND", "OR", "IN_FOLDER", "IN_TREE", "CONTAINS"}
IsNull(t, i) == TokAt(t, i + 1) = "IS" /\ TokAt(t, i + 2) = "NULL"
IsNotNull(t, i) == TokAt(t, i + 1) = "IS" /\ TokAt(t, i + 2) = "NOT" /\ TokAt(t, i + 3) = "NULL"
IsIn(t, i) == TokAt(t, i + 1) = "IN" /\ TokAt(t, i + 2) = "("
IsCompared(t, i) == TokAt(t, i + 1) \in Comparisons /\ i + 2 <= Len(t)

\* Each form of a predicate is read as it is, and no other.
LEMMA PredicateRead ==
  ASSUME NEW t, NEW i, NoWord(t[i])
  PROVE  /\ IsNull(t, i) => ReadAt(t, i) = Read("pred", Predicate(t[i], "IS_NULL", <<>>), i + 3)
         /\ IsNotNull(t, i) => ReadAt(t, i) = Read("pred", Predicate(t[i], "IS_NOT_NULL", <<>>), i + 4)
         /\ IsIn(t, i) => ReadAt(t, i) = ReadIn(t, i)
         /\ IsCompared(t, i) => ReadAt(t, i) = Read("pred", Predicate(t[i], t[i + 1], <<t[i + 2]>>), i + 3)
         /\ ~IsNull(t, i) /\ ~IsNotNull(t, i) /\ ~IsIn(t, i) /\ ~IsCompared(t, i)
              => ReadAt(t, i) = Read("skip", Empty, i + 1)
  <1> DEFINE a == TokAt(t, i + 1)
             r1 == Read("pred", Predicate(t[i], "IS_NULL", <<>>), i + 3)
             r2 == Read("pred", Predicate(t[i], "IS_NOT_NULL", <<>>), i + 4)
             r3 == ReadIn(t, i)
             r4 == Read("pred", Predicate(t[i], t[i + 1], <<t[i + 2]>>), i + 3)
             r5 == Read("skip", Empty, i + 1)
  <1>1. ReadAt(t, i) = CASE IsNull(t, i) -> r1 [] IsNotNull(t, i) -> r2 [] IsIn(t, i) -> r3
                         [] IsCompared(t, i) -> r4 [] OTHER -> r5
    BY DEF ReadAt, NoWord, IsNull, IsNotNull, IsIn, IsCompared
  <1>2. /\ IsNull(t, i) => a = "IS" /\ ~IsNotNull(t, i)
        /\ IsNotNull(t, i) => a = "IS"
        /\ IsIn(t, i) => a = "IN"
        /\ IsCompared(t, i) => a \notin {"IS", "IN"}
    BY DEF IsNull, IsNotNull, IsIn, IsCompared, Comparisons
  <1> HIDE DEF r1, r2, r3, r4, r5, a
  <1>3. /\ IsNull(t, i) => ReadAt(t, i) = r1
        /\ IsNotNull(t, i) => ReadAt(t, i) = r2
        /\ IsIn(t, i) => ReadAt(t, i) = r3
        /\ IsCompared(t, i) => ReadAt(t, i) = r4
        /\ ~IsNull(t, i) /\ ~IsNotNull(t, i) /\ ~IsIn(t, i) /\ ~IsCompared(t, i) => ReadAt(t, i) = r5
    BY <1>1, <1>2
  <1> QED
    BY <1>3 DEF r1, r2, r3, r4, r5

\* A condition is read forward, at most one token past the end.
LEMMA ReadAtIn ==
  ASSUME NEW S, NEW t \in Seq(S), NEW i \in 1..Len(t)
  PROVE  ReadAt(t, i).next \in (i + 1)..(Len(t) + 2)
  <1> DEFINE r == ReadAt(t, i)
  <1>1. PICK n \in Nat : n = Len(t)
    BY DomainIs
  <1>2. \A k \in Nat : TokAt(t, k) # "end_of_text" => k \in 1..n
    BY <1>1, TokAtIn
  <1>3. CASE t[i] \in {"AND", "OR"}
    <2>1. r = Read("skip", Empty, i + 1)
      BY <1>3 DEF ReadAt
    <2> QED
      BY <1>1, <2>1 DEF Read
  <1>4. CASE t[i] \in {"IN_FOLDER", "IN_TREE"}
    <2>1. r = IF TokAt(t, i + 1) = "(" /\ i + 2 <= Len(t)
                THEN Read(t[i], t[i + 2], Past(t, i + 3, ")")) ELSE Read("broken", Empty, Len(t) + 1)
      BY <1>4 DEF ReadAt
    <2>2. PICK k \in Nat : k = i + 3
      BY <1>1
    <2>3. Past(t, k, ")") \in {k, k + 1} /\ (Past(t, k, ")") = k + 1 => k \in 1..Len(t))
      BY PastIn
    <2>4. CASE TokAt(t, i + 1) = "(" /\ i + 2 <= Len(t)
      BY <1>1, <2>1, <2>2, <2>3, <2>4 DEF Read
    <2>5. CASE ~(TokAt(t, i + 1) = "(" /\ i + 2 <= Len(t))
      BY <1>1, <2>1, <2>5 DEF Read
    <2> QED
      BY <2>4, <2>5
  <1>5. CASE t[i] = "CONTAINS"
    <2>1. r = ReadContains(t, i)
      BY <1>5 DEF ReadAt
    <2>2. PICK k \in Nat : k = i + 1
      BY <1>1
    <2>3. PICK at \in Nat : at = Past(t, k, "(") /\ at \in k..(n + 1)
      BY PastIn, <1>1, <2>2
    <2>4. PICK m \in Nat : m = at + 1
      BY <2>3
    <2>5. Past(t, m, ")") \in {m, m + 1} /\ (Past(t, m, ")") = m + 1 => m \in 1..Len(t))
      BY PastIn
    <2>6. r.next = IF at <= Len(t) THEN Past(t, m, ")") ELSE at
      BY <2>1, <2>2, <2>3, <2>4 DEF ReadContains, Read
    <2> QED
      BY <1>1, <2>2, <2>3, <2>4, <2>5, <2>6
  <1>6. CASE t[i] \notin {"AND", "OR", "IN_FOLDER", "IN_TREE", "CONTAINS"}
    <2>0. NoWord(t[i])
      BY <1>6 DEF NoWord
    <2>1. CASE IsNull(t, i)
      <3>0. r = Read("pred", Predicate(t[i], "IS_NULL", <<>>), i + 3)
        BY <2>0, <2>1, PredicateRead, Zenon
      <3>1. r.next = i + 3
        BY <3>0 DEF Read
      <3>2. i + 2 \in 1..n
        BY <1>2, <2>1 DEF IsNull
      <3> QED
        BY <1>1, <3>1, <3>2
    <2>2. CASE IsNotNull(t, i)
      <3>0. r = Read("pred", Predicate(t[i], "IS_NOT_NULL", <<>>), i + 4)
        BY <2>0, <2>2, PredicateRead, Zenon
      <3>1. r.next = i + 4
        BY <3>0 DEF Read
      <3>2. i + 3 \in 1..n
        BY <1>2, <2>2 DEF IsNotNull
      <3> QED
        BY <1>1, <3>1, <3>2
    <2>3. CASE IsIn(t, i)
      <3>0. r = ReadIn(t, i)
        BY <2>0, <2>3, PredicateRead, Zenon
      <3>1. r.next = Upto(t, i + 3, {")"}) + 1
        BY <3>0 DEF Read, ReadIn
      <3>2. i + 2 \in 1..n
        BY <1>2, <2>3 DEF IsIn
      <3>3. PICK stop : stop = {")"}
        OBVIOUS
      <3>4. PICK k \in 1..(Len(t) + 1) : k = i + 3
        BY <1>1, <3>2
      <3>5. Upto(t, k, stop) \in k..(Len(t) + 1)
        BY UptoIn
      <3> QED
        BY <1>1, <3>1, <3>3, <3>4, <3>5
    <2>4. CASE IsCompared(t, i)
      <3>0. r = Read("pred", Predicate(t[i], t[i + 1], <<t[i + 2]>>), i + 3)
        BY <2>0, <2>4, PredicateRead, Zenon
      <3>1. r.next = i + 3
        BY <3>0 DEF Read
      <3> QED
        BY <1>1, <2>4, <3>1 DEF IsCompared
    <2>5. CASE ~IsNull(t, i) /\ ~IsNotNull(t, i) /\ ~IsIn(t, i) /\ ~IsCompared(t, i)
      <3>0. r = Read("skip", Empty, i + 1)
        BY <2>0, <2>5, PredicateRead, Zenon
      <3>1. r.next = i + 1
        BY <3>0 DEF Read
      <3> QED
        BY <1>1, <3>1
    <2> QED
      BY <2>1, <2>2, <2>3, <2>4, <2>5
  <1> QED
    BY <1>3, <1>4, <1>5, <1>6

\* What conditions say, each thing in U.
SaidOf(U) == [SaidKinds -> Seq(U)]

\* Adding to it keeps it so.
LEMMA AddingIn ==
  ASSUME NEW U, NEW kind, NEW what \in U, NEW rest \in SaidOf(U)
  PROVE  Adding(kind, what, rest) \in SaidOf(U) /\ NothingSaid \in SaidOf(U)
  <1>1. CASE kind \in SaidKinds
    <2>1. rest[kind] \in Seq(U) /\ <<what>> \in Seq(U)
      BY <1>1 DEF SaidOf
    <2>2. <<what>> \o rest[kind] \in Seq(U)
      BY <2>1
    <2>3. PICK s \in Seq(U) : s = <<what>> \o rest[kind]
      BY <2>2
    <2>4. Adding(kind, what, rest) = [rest EXCEPT ![kind] = s]
      BY <1>1, <2>3 DEF Adding
    <2>5. [rest EXCEPT ![kind] = s] \in SaidOf(U)
      BY DEF SaidOf
    <2> QED
      BY <2>4, <2>5 DEF SaidOf, NothingSaid
  <1>2. CASE kind \notin SaidKinds
    BY <1>2 DEF Adding, SaidOf, NothingSaid
  <1> QED
    BY <1>1, <1>2

\* The end of a WHERE clause.
WhereEnded(t, i) == i > Len(t) \/ TokAt(t, i) = "ORDER"

\* A WHERE clause says what its first condition says, and what comes behind it.
LEMMA ParseWhereAre ==
  ASSUME NEW S, NEW t \in Seq(S), NEW i \in 1..(Len(t) + 2)
  PROVE  ParseWhere(t)[i] = IF WhereEnded(t, i) THEN EndsAt(i)
                            ELSE Adding(ReadAt(t, i).kind, ReadAt(t, i).what, ParseWhere(t)[ReadAt(t, i).next])
  <1> DEFINE Add(k, v) == Adding(ReadAt(t, k).kind, ReadAt(t, k).what, v)
             Is(f) == f = [k \in 1..(Len(t) + 2) |-> IF WhereEnded(t, k) THEN EndsAt(k) ELSE Add(k, f[ReadAt(t, k).next])]
  <1>1. PICK n \in Nat : n = Len(t) + 2 /\ n > 0
    BY DomainIs
  <1> DEFINE U == {ReadAt(t, k).what : k \in 1..n} \cup 1..n
             V == SaidOf(U)
             go == {k \in 1..n : ~WhereEnded(t, k)}
             nx == [k \in go |-> ReadAt(t, k).next]
             base == [k \in 1..n |-> EndsAt(k)]
             G == [k \in 1..n |-> [v \in V |-> Add(k, v)]]
  <1>2. \A k \in go : nx[k] = ReadAt(t, k).next /\ nx[k] \in (k + 1)..n
    <2> TAKE k \in go
    <2>1. k \in 1..Len(t)
      BY <1>1 DEF WhereEnded
    <2>2. ReadAt(t, k).next \in (k + 1)..(Len(t) + 2)
      BY <2>1, ReadAtIn, Zenon
    <2> QED
      BY <1>1, <2>2
  <1>3. \A k \in 1..n : k \in U /\ ReadAt(t, k).what \in U
    OBVIOUS
  <1> HIDE DEF U
  <1>4. ASSUME NEW k \in 1..n, NEW v \in V PROVE Add(k, v) \in V /\ EndsAt(k) \in V
    <2>1. v \in SaidOf(U) /\ k \in U /\ ReadAt(t, k).what \in U
      BY <1>3
    <2>2. NothingSaid \in SaidOf(U)
      BY <2>1, AddingIn, Zenon
    <2> QED
      BY <2>1, <2>2, AddingIn, Zenon DEF EndsAt
  <1>5. ASSUME NEW k \in 1..n PROVE EndsAt(k) \in V
    <2>1. NothingSaid \in SaidOf(U)
      BY DEF NothingSaid, SaidOf
    <2> QED
      BY <1>4, <2>1
  <1> HIDE DEF V, Add
  <1>6. go \in SUBSET (1..n) /\ base \in [1..n -> V] /\ G \in [1..n -> [V -> V]]
    BY <1>4, <1>5
  <1>7. \A k \in 1..n : base[k] = EndsAt(k) /\ \A v \in V : G[k][v] = Add(k, v)
    OBVIOUS
  <1>8. \A k \in 1..n : k \in go <=> ~WhereEnded(t, k)
    OBVIOUS
  <1> HIDE DEF nx, base, G, go
  <1>9. PICK f \in [1..n -> V] : MadeFromTheEnd(f, n, go, nx, G, base)
    BY <1>2, <1>6, FromTheEnd, Zenon
  <1>10. \A k \in 1..n : f[k] = IF WhereEnded(t, k) THEN EndsAt(k) ELSE Add(k, f[ReadAt(t, k).next])
    <2> TAKE k \in 1..n
    <2>1. CASE k \in go
      <3>1. nx[k] \in 1..n
        BY <1>2, <2>1
      <3>2. f[k] = G[k][f[nx[k]]] /\ f[nx[k]] \in V
        BY <1>9, <2>1, <3>1 DEF MadeFromTheEnd
      <3> QED
        BY <1>2, <1>7, <1>8, <2>1, <3>2
    <2>2. CASE k \notin go
      BY <1>7, <1>8, <1>9, <2>2 DEF MadeFromTheEnd
    <2> QED
      BY <2>1, <2>2
  <1>11. Is(f)
    BY <1>1, <1>10
  <1>12. ParseWhere(t) = CHOOSE g : Is(g)
    BY DEF ParseWhere, WhereEnded, Add
  <1> HIDE DEF Is
  <1>13. Is(ParseWhere(t))
    BY <1>11, <1>12
  <1> QED
    BY <1>13 DEF Is, Add

\* The values of a list: the first, and what comes behind it.
LEMMA ValuesFromAre ==
  ASSUME NEW S, NEW t \in Seq(S), NEW i \in 1..(Len(t) + 1)
  PROVE  ValuesFrom(t)[i] =
           IF i > Len(t) \/ TokAt(t, i) = ")" THEN <<>>
           ELSE IF t[i] = Comma THEN ValuesFrom(t)[i + 1] ELSE <<t[i]>> \o ValuesFrom(t)[i + 1]
  <1> DEFINE Done(k) == k > Len(t) \/ TokAt(t, k) = ")"
             Add(k, v) == IF t[k] = Comma THEN v ELSE <<t[k]>> \o v
             Is(f) == f = [k \in 1..(Len(t) + 1) |-> IF Done(k) THEN <<>> ELSE Add(k, f[k + 1])]
  <1>1. PICK n \in Nat : n = Len(t) + 1 /\ n > 0 /\ \A k \in 1..n : k > Len(t) => k = n
    BY DomainIs
  <1> DEFINE V == Seq(S)
             go == {k \in 1..n : ~Done(k)}
             nx == [k \in go |-> k + 1]
             base == [k \in 1..n |-> <<>>]
             G == [k \in 1..n |-> [v \in V |-> IF k \in go THEN Add(k, v) ELSE <<>>]]
  <1>2. \A k \in go : nx[k] = k + 1 /\ nx[k] \in (k + 1)..n
    BY <1>1
  <1>3. ASSUME NEW k \in go, NEW v \in V PROVE Add(k, v) \in V
    <2>1. k \in 1..Len(t) /\ t[k] \in S
      BY <1>1
    <2> QED
      BY <2>1
  <1> HIDE DEF Add, Done
  <1>4. go \in SUBSET (1..n) /\ base \in [1..n -> V] /\ G \in [1..n -> [V -> V]]
    BY <1>3
  <1>5. \A k \in 1..n : base[k] = <<>> /\ (k \in go => \A v \in V : G[k][v] = Add(k, v))
    OBVIOUS
  <1>6. \A k \in 1..n : k \in go <=> ~Done(k)
    OBVIOUS
  <1> HIDE DEF nx, base, G, go, V
  <1>7. PICK f \in [1..n -> V] : MadeFromTheEnd(f, n, go, nx, G, base)
    BY <1>2, <1>4, FromTheEnd, Zenon
  <1>8. \A k \in 1..n : f[k] = IF Done(k) THEN <<>> ELSE Add(k, f[k + 1])
    <2> TAKE k \in 1..n
    <2>1. CASE k \in go
      <3>1. nx[k] \in 1..n
        BY <1>2, <2>1
      <3>2. f[k] = G[k][f[nx[k]]] /\ f[nx[k]] \in V
        BY <1>7, <2>1, <3>1 DEF MadeFromTheEnd
      <3> QED
        BY <1>2, <1>5, <1>6, <2>1, <3>2
    <2>2. CASE k \notin go
      BY <1>5, <1>6, <1>7, <2>2 DEF MadeFromTheEnd
    <2> QED
      BY <2>1, <2>2
  <1>9. Is(f)
    BY <1>1, <1>8
  <1>10. ValuesFrom(t) = CHOOSE g : Is(g)
    BY DEF ValuesFrom, Done, Add
  <1> HIDE DEF Is
  <1>11. Is(ValuesFrom(t))
    BY <1>9, <1>10
  <1> QED
    BY <1>11 DEF Is, Add, Done

\* The keys of ORDER BY: where one's direction ends, and the key itself.
DirectionAt(t, i) == IF TokAt(t, i + 1) \in {"ASC", "DESC"} THEN i + 2 ELSE i + 1
KeyAt(t, i) == OrderBy(t[i], TokAt(t, i + 1) = "DESC")
Follows(t, i) == TokAt(t, DirectionAt(t, i)) = Comma

\* A comma is none of the words.
LEMMA CommaIs ==
  /\ Comma # "end_of_text" /\ Comma # "ASC" /\ Comma # "DESC" /\ Comma # ")" /\ Comma # "("
  /\ Comma \notin Keywords /\ Comma \notin ClauseWords /\ Comma \notin Comparisons
  /\ Comma # "FROM" /\ Comma # "SELECT" /\ Comma # "AND" /\ Comma # "OR"
  BY Zenon DEF Comma, Keywords, ClauseWords, Comparisons

\* The keys of an ORDER clause: the first, and what comes behind a comma.
LEMMA ParseOrderAre ==
  ASSUME NEW S, NEW t \in Seq(S), NEW i \in 1..(Len(t) + 1)
  PROVE  ParseOrder(t)[i] =
           IF i > Len(t) THEN <<>>
           ELSE <<KeyAt(t, i)>> \o IF Follows(t, i) THEN ParseOrder(t)[DirectionAt(t, i) + 1] ELSE <<>>
  <1> DEFINE Is(f) == f = [k \in 1..(Len(t) + 1) |->
                             IF k > Len(t) THEN <<>>
                             ELSE <<KeyAt(t, k)>> \o IF Follows(t, k) THEN f[DirectionAt(t, k) + 1] ELSE <<>>]
  <1>1. PICK n \in Nat : n = Len(t) + 1 /\ n > 0
    BY DomainIs
  <1> DEFINE U == {KeyAt(t, k) : k \in 1..n}
             V == Seq(U)
             go == {k \in 1..n : k <= Len(t) /\ Follows(t, k)}
             nx == [k \in go |-> DirectionAt(t, k) + 1]
             base == [k \in 1..n |-> IF k > Len(t) THEN <<>> ELSE <<KeyAt(t, k)>>]
             G == [k \in 1..n |-> [v \in V |-> <<KeyAt(t, k)>> \o v]]
  <1>2. \A k \in go : nx[k] = DirectionAt(t, k) + 1 /\ nx[k] \in (k + 1)..n
    <2> TAKE k \in go
    <2>1. k \in 1..Len(t) /\ DirectionAt(t, k) \in {k + 1, k + 2}
      BY <1>1 DEF DirectionAt
    <2>2. TokAt(t, DirectionAt(t, k)) # "end_of_text"
      BY CommaIs DEF Follows
    <2>3. DirectionAt(t, k) \in Int
      BY <2>1
    <2>4. DirectionAt(t, k) \in 1..Len(t)
      BY <2>2, <2>3, TokAtIn
    <2> QED
      BY <1>1, <2>1, <2>4
  <1>3. \A k \in 1..n : KeyAt(t, k) \in U
    OBVIOUS
  <1> HIDE DEF U
  <1>4. go \in SUBSET (1..n) /\ base \in [1..n -> V] /\ G \in [1..n -> [V -> V]]
    <2>1. \A k \in 1..n : <<KeyAt(t, k)>> \in V /\ \A v \in V : <<KeyAt(t, k)>> \o v \in V
      BY <1>3
    <2> QED
      BY <2>1
  <1>5. \A k \in 1..n : /\ base[k] = IF k > Len(t) THEN <<>> ELSE <<KeyAt(t, k)>>
                        /\ \A v \in V : G[k][v] = <<KeyAt(t, k)>> \o v
    OBVIOUS
  <1>6. \A k \in 1..n : k \in go <=> k <= Len(t) /\ Follows(t, k)
    OBVIOUS
  <1>7. \A k \in 1..n : <<KeyAt(t, k)>> \o <<>> = <<KeyAt(t, k)>>
    OBVIOUS
  <1> HIDE DEF nx, base, G, go, V
  <1>8. PICK f \in [1..n -> V] : MadeFromTheEnd(f, n, go, nx, G, base)
    BY <1>2, <1>4, FromTheEnd, Zenon
  <1>9. \A k \in 1..n : f[k] = IF k > Len(t) THEN <<>>
                               ELSE <<KeyAt(t, k)>> \o IF Follows(t, k) THEN f[DirectionAt(t, k) + 1] ELSE <<>>
    <2> TAKE k \in 1..n
    <2>1. CASE k \in go
      <3>1. nx[k] \in 1..n
        BY <1>2, <2>1
      <3>2. f[k] = G[k][f[nx[k]]] /\ f[nx[k]] \in V
        BY <1>8, <2>1, <3>1 DEF MadeFromTheEnd
      <3>3. ~(k > Len(t)) /\ Follows(t, k)
        BY <1>1, <1>6, <2>1
      <3> QED
        BY <1>2, <1>5, <2>1, <3>2, <3>3
    <2>2. CASE k \notin go
      <3>1. f[k] = IF k > Len(t) THEN <<>> ELSE <<KeyAt(t, k)>>
        BY <1>5, <1>8, <2>2 DEF MadeFromTheEnd
      <3>2. ~(k > Len(t)) => ~Follows(t, k)
        BY <1>1, <1>6, <2>2
      <3> QED
        BY <1>7, <3>1, <3>2
    <2> QED
      BY <2>1, <2>2
  <1>10. Is(f)
    BY <1>1, <1>9
  <1>11. ParseOrder(t) = CHOOSE g : Is(g)
    BY DEF ParseOrder, Follows, DirectionAt, KeyAt
  <1> HIDE DEF Is
  <1>12. Is(ParseOrder(t))
    BY <1>10, <1>11
  <1> QED
    BY <1>12 DEF Is

\* What is said in conditions: by the first, and by those behind it.
LEMMA SaidInAre ==
  ASSUME NEW C, NEW cs \in Seq(C), NEW i \in 1..(Len(cs) + 1)
  PROVE  /\ SaidIn(cs)[i] = IF i > Len(cs) THEN NothingSaid ELSE Adding(cs[i].kind, cs[i].what, SaidIn(cs)[i + 1])
  <1> DEFINE Is(f) == f = [k \in 1..(Len(cs) + 1) |->
                             IF k > Len(cs) THEN NothingSaid ELSE Adding(cs[k].kind, cs[k].what, f[k + 1])]
  <1>1. PICK n \in Nat : n = Len(cs) + 1 /\ n > 0
    BY DomainIs
  <1> DEFINE U == {cs[k].what : k \in 1..n}
             V == SaidOf(U)
             go == {k \in 1..n : k <= Len(cs)}
             nx == [k \in go |-> k + 1]
             base == [k \in 1..n |-> NothingSaid]
             G == [k \in 1..n |-> [v \in V |-> Adding(cs[k].kind, cs[k].what, v)]]
  <1>2. \A k \in go : nx[k] = k + 1 /\ nx[k] \in (k + 1)..n
    BY <1>1
  <1>3. \A k \in 1..n : cs[k].what \in U
    OBVIOUS
  <1> HIDE DEF U
  <1>4. ASSUME NEW k \in 1..n, NEW v \in V PROVE Adding(cs[k].kind, cs[k].what, v) \in V
    BY <1>3, AddingIn, Zenon
  <1>5. NothingSaid \in V
    BY DEF NothingSaid, SaidOf
  <1> HIDE DEF V
  <1>6. go \in SUBSET (1..n) /\ base \in [1..n -> V] /\ G \in [1..n -> [V -> V]]
    BY <1>4, <1>5
  <1>7. \A k \in 1..n : base[k] = NothingSaid /\ \A v \in V : G[k][v] = Adding(cs[k].kind, cs[k].what, v)
    OBVIOUS
  <1>8. \A k \in 1..n : k \in go <=> ~(k > Len(cs))
    BY <1>1
  <1> HIDE DEF nx, base, G, go
  <1>9. PICK f \in [1..n -> V] : MadeFromTheEnd(f, n, go, nx, G, base)
    BY <1>2, <1>6, FromTheEnd, Zenon
  <1>10. \A k \in 1..n : f[k] = IF k > Len(cs) THEN NothingSaid ELSE Adding(cs[k].kind, cs[k].what, f[k + 1])
    <2> TAKE k \in 1..n
    <2>1. CASE k \in go
      <3>1. nx[k] \in 1..n
        BY <1>2, <2>1
      <3>2. f[k] = G[k][f[nx[k]]] /\ f[nx[k]] \in V
        BY <1>9, <2>1, <3>1 DEF MadeFromTheEnd
      <3> QED
        BY <1>2, <1>7, <1>8, <2>1, <3>2
    <2>2. CASE k \notin go
      BY <1>7, <1>8, <1>9, <2>2 DEF MadeFromTheEnd
    <2> QED
      BY <2>1, <2>2
  <1>11. Is(f)
    BY <1>1, <1>10
  <1>12. SaidIn(cs) = CHOOSE g : Is(g)
    BY DEF SaidIn
  <1> HIDE DEF Is
  <1>13. Is(SaidIn(cs))
    BY <1>11, <1>12
  <1> QED
    BY <1>13 DEF Is

-----------------------------------------------------------------------------
(***************************************************************************)
(* What is left of a sequence, and what conditions say, from the end.      *)
(***************************************************************************)
\* What is left of a sequence from j on.
Rest(s, j) == [k \in 1..(Len(s) - j + 1) |-> s[j + k - 1]]

\* A sequence of one.
LEMMA OneIs ==
  ASSUME NEW S, NEW x \in S
  PROVE  \E u \in Seq(S) : u = <<x>> /\ Len(u) = 1 /\ u[1] = x
  <1>1. <<x>> \in Seq(S)
    OBVIOUS
  <1>2. Len(<<x>>) = 1
    OBVIOUS
  <1>3. <<x>>[1] = x
    OBVIOUS
  <1> QED
    BY <1>1, <1>2, <1>3

\* What is left of a sequence is made from its end.
LEMMA RestIs ==
  ASSUME NEW S, NEW s \in Seq(S)
  PROVE  /\ Rest(s, Len(s) + 1) = <<>> /\ Rest(s, 1) = s
         /\ \A j \in 1..Len(s) : <<s[j]>> \o Rest(s, j + 1) = Rest(s, j)
  <1>1. PICK n \in Nat : n = Len(s) /\ \A i \in 1..n : s[i] \in S
    BY DomainIs
  <1>2. Rest(s, Len(s) + 1) = <<>>
    BY <1>1 DEF Rest
  <1>3. Rest(s, 1) = s
    <2>1. Rest(s, 1) = [k \in 1..n |-> s[k]]
      BY <1>1 DEF Rest
    <2> QED
      BY <1>1, <2>1
  <1>4. ASSUME NEW j \in 1..n PROVE <<s[j]>> \o Rest(s, j + 1) = Rest(s, j)
    <2>1. Rest(s, j + 1) = [k \in 1..(n - j) |-> s[j + k]]
      BY <1>1 DEF Rest
    <2>2. Rest(s, j) = [k \in 1..(n - j + 1) |-> s[j + k - 1]]
      BY <1>1 DEF Rest
    <2>3. PICK u \in Seq(S) : u = <<s[j]>> /\ Len(u) = 1 /\ u[1] = s[j]
      BY <1>1, OneIs
    <2>4. Rest(s, j + 1) \in Seq(S) /\ Len(Rest(s, j + 1)) = n - j
      <3>1. PICK m \in Nat : m = n - j
        OBVIOUS
      <3>2. \A k \in 1..m : s[j + k] \in S
        BY <1>1, <3>1
      <3>3. [k \in 1..m |-> s[j + k]] \in Seq(S)
        BY <3>2
      <3>4. Len([k \in 1..m |-> s[j + k]]) = m
        OBVIOUS
      <3>5. Rest(s, j + 1) = [k \in 1..m |-> s[j + k]]
        BY <2>1, <3>1
      <3> QED
        BY <3>1, <3>3, <3>4, <3>5
    <2>5. PICK v \in Seq(S) : v = Rest(s, j + 1)
      BY <2>4
    <2>6. Rest(s, j) \in Seq(S) /\ Len(Rest(s, j)) = n - j + 1
      BY <1>1, <2>2
    <2>7. PICK w \in Seq(S) : w = Rest(s, j)
      BY <2>6
    <2>8. PICK z \in Seq(S) : z = u \o v
      BY ConcatIs
    <2>9. /\ Len(z) = n - j + 1 /\ z[1] = u[1]
          /\ \A k \in 1..(n - j) : z[1 + k] = v[k]
      <3>1. /\ Len(z) = Len(u) + Len(v)
            /\ \A x \in 1..Len(u) : z[x] = u[x]
            /\ \A x \in 1..Len(v) : z[Len(u) + x] = v[x]
        BY <2>8, ConcatIs
      <3>2. Len(v) = n - j /\ n - j \in Nat
        BY <2>4, <2>5
      <3>3. Len(z) = n - j + 1
        BY <2>3, <3>1, <3>2
      <3>4. z[1] = u[1]
        BY <2>3, <3>1
      <3> QED
        BY <2>3, <3>1, <3>2, <3>3, <3>4
    <2>10. ASSUME NEW k \in 1..(n - j + 1) PROVE z[k] = w[k]
      <3>1. CASE k = 1
        BY <2>2, <2>3, <2>7, <2>9, <3>1
      <3>2. CASE k # 1
        <4>1. k - 1 \in 1..(n - j) /\ 1 + (k - 1) = k
          BY <3>2
        <4>2. z[k] = v[k - 1]
          BY <4>1, <2>9
        <4>3. v[k - 1] = s[j + (k - 1)] /\ w[k] = s[j + k - 1] /\ j + (k - 1) = j + k - 1
          BY <2>1, <2>2, <2>5, <2>7, <4>1
        <4> QED
          BY <4>2, <4>3
      <3> QED
        BY <3>1, <3>2
    <2>11. Len(w) = n - j + 1 /\ DOMAIN z = 1..(n - j + 1) /\ DOMAIN w = 1..(n - j + 1)
      BY <2>6, <2>7, <2>9, DomainIs
    <2>12. z = w
      BY <2>10, <2>11
    <2> QED
      BY <2>3, <2>5, <2>7, <2>8, <2>12
  <1> QED
    BY <1>1, <1>2, <1>3, <1>4

\* What is in a sequence with one more in front.
LEMMA SetOfConcat ==
  ASSUME NEW S, NEW x \in S, NEW s \in Seq(S)
  PROVE  ToSet(<<x>> \o s) = {x} \cup ToSet(s) /\ <<x>> \o s # <<>> /\ <<x>> \o s \in Seq(S)
  <1>1. PICK u \in Seq(S) : u = <<x>> /\ Len(u) = 1 /\ u[1] = x
    BY OneIs
  <1>2. PICK z \in Seq(S) : z = u \o s
    BY ConcatIs
  <1>3. PICK n \in Nat : n = Len(s) /\ DOMAIN s = 1..n
    BY DomainIs
  <1>4. Len(z) = 1 + n /\ DOMAIN z = 1..(1 + n) /\ z[1] = x /\ \A k \in 1..n : z[1 + k] = s[k]
    <2>1. /\ Len(z) = Len(u) + Len(s)
          /\ \A i \in 1..Len(u) : z[i] = u[i]
          /\ \A i \in 1..Len(s) : z[Len(u) + i] = s[i]
      BY <1>2, ConcatIs
    <2>2. Len(z) = 1 + n
      BY <1>1, <1>3, <2>1
    <2>3. DOMAIN z = 1..(1 + n)
      BY <2>2, DomainIs
    <2> QED
      BY <1>1, <1>3, <2>1, <2>2, <2>3
  <1>5. ASSUME NEW y \in ToSet(z) PROVE y \in {x} \cup ToSet(s)
    <2>1. PICK i \in 1..(1 + n) : y = z[i]
      BY <1>4 DEF ToSet
    <2>2. CASE i = 1
      BY <1>4, <2>1, <2>2
    <2>3. CASE i # 1
      <3>1. i - 1 \in 1..n /\ 1 + (i - 1) = i
        BY <2>3
      <3> QED
        BY <1>3, <1>4, <2>1, <3>1 DEF ToSet
    <2> QED
      BY <2>2, <2>3
  <1>6. ASSUME NEW y \in {x} \cup ToSet(s) PROVE y \in ToSet(z)
    <2>1. CASE y = x
      BY <1>4, <2>1 DEF ToSet
    <2>2. CASE y \in ToSet(s)
      <3>1. PICK k \in 1..n : y = s[k]
        BY <1>3, <2>2 DEF ToSet
      <3>2. 1 + k \in 1..(1 + n) /\ z[1 + k] = y
        BY <1>4, <3>1
      <3> QED
        BY <1>4, <3>2 DEF ToSet
    <2> QED
      BY <2>1, <2>2
  <1>7. z # <<>>
    BY <1>4
  <1> QED
    BY <1>1, <1>2, <1>5, <1>6, <1>7

\* What some conditions say, from one of them on.
WhatsFrom(cs, i, kind) == {cs[k].what : k \in {j \in i..Len(cs) : cs[j].kind = kind}}
WhatsOf(cs) == {cs[k].what : k \in 1..Len(cs)}
SaidRight(cs, i) ==
  SaidIn(cs)[i] \in SaidOf(WhatsOf(cs)) /\ \A kind \in SaidKinds : ToSet(SaidIn(cs)[i][kind]) = WhatsFrom(cs, i, kind)

\* What is added stands first among its kind, and nothing else changes.
LEMMA AddingIs ==
  ASSUME NEW U, NEW kind \in SaidKinds, NEW what \in U, NEW rest \in SaidOf(U)
  PROVE  /\ Adding(kind, what, rest) \in SaidOf(U)
         /\ Adding(kind, what, rest)[kind] = <<what>> \o rest[kind]
         /\ \A k \in SaidKinds \ {kind} : Adding(kind, what, rest)[k] = rest[k]
  <1>1. Adding(kind, what, rest) \in SaidOf(U)
    BY AddingIn
  <1>2. DOMAIN rest = SaidKinds
    BY DEF SaidOf
  <1>3. Adding(kind, what, rest) = [rest EXCEPT ![kind] = <<what>> \o rest[kind]]
    BY DEF Adding
  <1> QED
    BY <1>1, <1>2, <1>3

\* Nothing conditions say is lost, and nothing is made up.
LEMMA SaidAre ==
  ASSUME NEW C, NEW cs \in Seq(C), \A k \in 1..Len(cs) : cs[k].kind \in SaidKinds
  PROVE  \A i \in 1..(Len(cs) + 1) : SaidRight(cs, i)
  <1>1. PICK n \in Nat : n = Len(cs)
    BY DomainIs
  <1> DEFINE T == {m \in Nat : \A i \in 1..(n + 1) : i >= n + 1 - m => SaidRight(cs, i)}
  <1>2. 0 \in T
    <2> SUFFICES ASSUME NEW i \in 1..(n + 1), i >= n + 1 - 0 PROVE SaidRight(cs, i)
      OBVIOUS
    <2>1. i = n + 1
      OBVIOUS
    <2>2. SaidIn(cs)[i] = NothingSaid
      BY <1>1, <2>1, SaidInAre
    <2>3. NothingSaid \in SaidOf(WhatsOf(cs)) /\ \A kind \in SaidKinds : NothingSaid[kind] = <<>>
      BY DEF SaidOf, NothingSaid
    <2>4. ToSet(<<>>) = {}
      BY DEF ToSet
    <2>5. \A kind \in SaidKinds : WhatsFrom(cs, i, kind) = {}
      BY <1>1, <2>1 DEF WhatsFrom
    <2> QED
      BY <2>2, <2>3, <2>4, <2>5 DEF SaidRight
  <1>3. ASSUME NEW m \in Nat, m \in T PROVE m + 1 \in T
    <2> SUFFICES ASSUME NEW i \in 1..(n + 1), i >= n + 1 - (m + 1) PROVE SaidRight(cs, i)
      OBVIOUS
    <2>1. CASE i >= n + 1 - m
      BY <1>3, <2>1
    <2>2. CASE ~(i >= n + 1 - m)
      <3>1. i \in 1..n /\ i + 1 \in 1..(n + 1) /\ i + 1 >= n + 1 - m
        BY <2>2
      <3>2. SaidRight(cs, i + 1)
        BY <1>3, <3>1
      <3>3. /\ cs[i].kind \in SaidKinds /\ cs[i].what \in WhatsOf(cs)
            /\ SaidIn(cs)[i + 1] \in SaidOf(WhatsOf(cs))
            /\ SaidIn(cs)[i] = Adding(cs[i].kind, cs[i].what, SaidIn(cs)[i + 1])
        BY <1>1, <3>1, <3>2, SaidInAre DEF SaidRight, WhatsOf
      <3>4. PICK U : U = WhatsOf(cs)
        OBVIOUS
      <3>5. PICK said \in SaidKinds, what \in U, rest \in SaidOf(U) :
              /\ said = cs[i].kind /\ what = cs[i].what /\ rest = SaidIn(cs)[i + 1]
              /\ SaidIn(cs)[i] = Adding(said, what, rest)
        BY <3>3, <3>4
      <3>9. /\ Adding(said, what, rest) \in SaidOf(U)
            /\ Adding(said, what, rest)[said] = <<what>> \o rest[said]
            /\ \A k \in SaidKinds \ {said} : Adding(said, what, rest)[k] = rest[k]
        BY AddingIs
      <3>6. ASSUME NEW kind \in SaidKinds PROVE ToSet(SaidIn(cs)[i][kind]) = WhatsFrom(cs, i, kind)
        <4>1. ToSet(rest[kind]) = WhatsFrom(cs, i + 1, kind) /\ rest[kind] \in Seq(U)
          BY <3>2, <3>5 DEF SaidRight, SaidOf
        <4>2. CASE kind = said
          <5>1. ToSet(<<what>> \o rest[kind]) = {what} \cup ToSet(rest[kind])
            BY <4>1, SetOfConcat
          <5>2. WhatsFrom(cs, i, kind) = {what} \cup WhatsFrom(cs, i + 1, kind)
            <6>1. \A j : j \in i..Len(cs) <=> j = i \/ j \in (i + 1)..Len(cs)
              BY <1>1, <3>1
            <6> QED
              BY <4>2, <6>1, <3>5 DEF WhatsFrom
          <5> QED
            BY <3>5, <3>9, <4>1, <4>2, <5>1, <5>2
        <4>3. CASE kind # said
          <5>1. WhatsFrom(cs, i, kind) = WhatsFrom(cs, i + 1, kind)
            <6>1. \A j : j \in i..Len(cs) <=> j = i \/ j \in (i + 1)..Len(cs)
              BY <1>1, <3>1
            <6> QED
              BY <4>3, <6>1, <3>5 DEF WhatsFrom
          <5>2. Adding(said, what, rest)[kind] = rest[kind]
            BY <3>9, <4>3
          <5> QED
            BY <3>5, <4>1, <5>1, <5>2
        <4> QED
          BY <4>2, <4>3
      <3> QED
        BY <3>4, <3>5, <3>6, <3>9 DEF SaidRight
    <2> QED
      BY <2>1, <2>2
  <1> HIDE DEF T
  <1>4. n + 1 \in T
    BY <1>2, <1>3, UpTo
  <1> QED
    BY <1>1, <1>4 DEF T

-----------------------------------------------------------------------------
(***************************************************************************)
(* The words of a condition are read as the condition.                     *)
(***************************************************************************)
\* Words at their place in a text.
WordsAt(t, x, w) ==
  \A j \in 1..Len(w) : x + j - 1 \in 1..Len(t) /\ t[x + j - 1] = w[j] /\ TokAt(t, x + j - 1) = w[j]

\* The first words of it.
FirstFour(t, x, w) ==
  /\ Len(w) >= 1 => x \in 1..Len(t) /\ t[x] = w[1] /\ TokAt(t, x) = w[1]
  /\ Len(w) >= 2 => x + 1 \in 1..Len(t) /\ t[x + 1] = w[2] /\ TokAt(t, x + 1) = w[2]
  /\ Len(w) >= 3 => x + 2 \in 1..Len(t) /\ t[x + 2] = w[3] /\ TokAt(t, x + 2) = w[3]
  /\ Len(w) >= 4 => x + 3 \in 1..Len(t) /\ t[x + 3] = w[4] /\ TokAt(t, x + 3) = w[4]

\* They are at the first places.
LEMMA PlacedAt ==
  ASSUME NEW t, NEW x \in Nat, NEW w, Len(w) \in Nat, WordsAt(t, x, w)
  PROVE  FirstFour(t, x, w)
  <1> USE DEF FirstFour
  <1>1. x + 1 - 1 = x /\ x + 2 - 1 = x + 1 /\ x + 3 - 1 = x + 2 /\ x + 4 - 1 = x + 3
    OBVIOUS
  <1>2. \A j \in 1..Len(w) : x + j - 1 \in 1..Len(t) /\ t[x + j - 1] = w[j] /\ TokAt(t, x + j - 1) = w[j]
    BY DEF WordsAt
  <1>3. Len(w) >= 1 => 1 \in 1..Len(w)
    OBVIOUS
  <1>4. Len(w) >= 2 => 2 \in 1..Len(w)
    OBVIOUS
  <1>5. Len(w) >= 3 => 3 \in 1..Len(w)
    OBVIOUS
  <1>6. Len(w) >= 4 => 4 \in 1..Len(w)
    OBVIOUS
  <1> QED
    BY <1>1, <1>2, <1>3, <1>4, <1>5, <1>6

\* Values have the odd places of a list, commas the even ones.
LEMMA Halves ==
  ASSUME NEW j \in Nat
  PROVE  (2 * j + 1) % 2 = 1 /\ (2 * j + 2) \div 2 = j + 1 /\ (2 * j) % 2 = 0
  OBVIOUS

\* The words of a list.
LEMMA SeparatedIs ==
  ASSUME NEW S, NEW values \in Seq(S), Comma \in S
  PROVE  /\ Separated(values) \in Seq(S)
         /\ Len(Separated(values)) = IF Len(values) = 0 THEN 0 ELSE 2 * Len(values) - 1
         /\ \A j \in 1..Len(values) : Separated(values)[2 * j - 1] = values[j]
         /\ \A j \in 1..(Len(values) - 1) : Separated(values)[2 * j] = Comma
         /\ \A i \in 1..(2 * Len(values) - 1) : Separated(values)[i] \in ToSet(values) \cup {Comma}
  <1>1. PICK n \in Nat : n = Len(values) /\ DOMAIN values = 1..n /\ \A j \in 1..n : values[j] \in S
    BY DomainIs
  <1> DEFINE at(i) == IF i % 2 = 1 THEN values[(i + 1) \div 2] ELSE Comma
             sep == [i \in 1..(2 * n - 1) |-> at(i)]
  <1>2. Separated(values) = sep
    BY <1>1 DEF Separated
  <1>3. ASSUME NEW i \in 1..(2 * n - 1) PROVE at(i) \in ToSet(values) \cup {Comma} /\ at(i) \in S
    <2>1. CASE i % 2 = 1
      <3>1. (i + 1) \div 2 \in 1..n
        BY <2>1
      <3> QED
        BY <1>1, <2>1, <3>1 DEF ToSet
    <2>2. CASE i % 2 # 1
      BY <2>2
    <2> QED
      BY <2>1, <2>2
  <1>4. ASSUME NEW j \in 1..n PROVE 2 * j - 1 \in 1..(2 * n - 1) /\ at(2 * j - 1) = values[j]
    <2>1. PICK k \in Nat : j = k + 1
      <3>1. j - 1 \in Nat /\ j = (j - 1) + 1
        OBVIOUS
      <3> QED
        BY <3>1
    <2>2. 2 * j - 1 = 2 * k + 1 /\ (2 * j - 1) + 1 = 2 * k + 2
      BY <2>1
    <2>3. at(2 * j - 1) = values[k + 1]
      BY <2>2, Halves
    <2> QED
      BY <2>1, <2>3
  <1>5. ASSUME NEW j \in 1..(n - 1) PROVE 2 * j \in 1..(2 * n - 1) /\ at(2 * j) = Comma
    BY Halves
  <1> HIDE DEF at
  <1>6. sep \in Seq(S) /\ Len(sep) = IF n = 0 THEN 0 ELSE 2 * n - 1
    <2>1. CASE n = 0
      BY <2>1
    <2>2. CASE n # 0
      <3>1. PICK m \in Nat : m = 2 * n - 1
        BY <2>2
      <3>2. [i \in 1..m |-> at(i)] \in Seq(S)
        BY <1>3, <3>1
      <3>3. Len([i \in 1..m |-> at(i)]) = m
        OBVIOUS
      <3> QED
        BY <2>2, <3>1, <3>2, <3>3
    <2> QED
      BY <2>1, <2>2
  <1>7. \A i \in 1..(2 * n - 1) : sep[i] = at(i)
    OBVIOUS
  <1> HIDE DEF sep
  <1>8. \A j \in 1..n : sep[2 * j - 1] = values[j]
    BY <1>4, <1>7
  <1>9. \A j \in 1..(n - 1) : sep[2 * j] = Comma
    BY <1>5, <1>7
  <1>10. \A i \in 1..(2 * n - 1) : sep[i] \in ToSet(values) \cup {Comma}
    BY <1>3, <1>7
  <1> QED
    BY <1>1, <1>2, <1>6, <1>8, <1>9, <1>10

\* A list is read as the values it was written with, up to its bracket.
LEMMA ValuesRead ==
  ASSUME NEW S, NEW t \in Seq(S), NEW values \in Seq(S), Comma \in S, ToSet(values) \cap {Comma, ")"} = {},
         NEW y \in 1..Len(t), NEW m \in Nat, m = Len(Separated(values)), WordsAt(t, y, Separated(values)),
         y + m \in 1..Len(t), t[y + m] = ")", TokAt(t, y + m) = ")"
  PROVE  ValuesFrom(t)[y] = values /\ Upto(t, y, {")"}) = y + m
  <1>1. PICK n \in Nat : n = Len(values) /\ \A j \in 1..n : values[j] \in S
    BY DomainIs
  <1>2. PICK sep \in Seq(S) :
          /\ sep = Separated(values) /\ m = Len(sep) /\ m = IF n = 0 THEN 0 ELSE 2 * n - 1
          /\ \A j \in 1..n : sep[2 * j - 1] = values[j]
          /\ \A j \in 1..(n - 1) : sep[2 * j] = Comma
          /\ \A i \in 1..(2 * n - 1) : sep[i] \in ToSet(values) \cup {Comma}
    BY <1>1, SeparatedIs
  <1>3. \A j \in 1..m : y + j - 1 \in 1..Len(t) /\ t[y + j - 1] = sep[j] /\ TokAt(t, y + j - 1) = sep[j]
    BY <1>2 DEF WordsAt
  <1>4. Upto(t, y, {")"}) = y + m
    <2>1. PICK stop : stop = {")"}
      OBVIOUS
    <2>2. \A e \in y..(y + m - 1) : t[e] \notin stop
      <3> TAKE e \in y..(y + m - 1)
      <3>1. e - y + 1 \in 1..m /\ y + (e - y + 1) - 1 = e
        OBVIOUS
      <3>2. t[e] = sep[e - y + 1]
        BY <1>3, <3>1
      <3>3. e - y + 1 \in 1..(2 * n - 1)
        BY <1>1, <1>2, <3>1
      <3>4. sep[e - y + 1] \in ToSet(values) \cup {Comma}
        BY <1>2, <3>3
      <3> QED
        BY <2>1, <3>2, <3>4, CommaIs
    <2>3. PICK k \in y..(Len(t) + 1) : k = y + m
      OBVIOUS
    <2>4. y \in 1..(Len(t) + 1)
      OBVIOUS
    <2>5. k <= Len(t) => t[k] \in stop
      BY <2>1, <2>3
    <2>6. \A e \in y..(k - 1) : t[e] \notin stop
      BY <2>2, <2>3
    <2> QED
      BY <2>1, <2>3, <2>4, <2>5, <2>6, UptoIs
  <1> DEFINE at(j) == ValuesFrom(t)[y + 2 * j - 2]
             T == {d \in Nat : \A j \in 1..n : j > n - d => at(j) = Rest(values, j)}
  <1>5. ASSUME NEW j \in 1..n, j < n => at(j + 1) = Rest(values, j + 1)
        PROVE  at(j) = Rest(values, j)
    <2>1. 2 * j - 1 \in 1..m /\ y + (2 * j - 1) - 1 = y + 2 * j - 2
      BY <1>1, <1>2
    <2>2. PICK k \in 1..Len(t) : k = y + 2 * j - 2 /\ t[k] = values[j] /\ TokAt(t, k) = values[j]
      BY <1>2, <1>3, <2>1
    <2>3. values[j] # Comma /\ values[j] # ")"
      BY <1>1, DomainIs DEF ToSet
    <2>4. ValuesFrom(t)[k] = <<values[j]>> \o ValuesFrom(t)[k + 1]
      <3>1. k \in 1..(Len(t) + 1) /\ ~(k > Len(t))
        OBVIOUS
      <3> QED
        BY <2>2, <2>3, <3>1, ValuesFromAre
    <2>5. ValuesFrom(t)[k + 1] = Rest(values, j + 1)
      <3>1. CASE j = n
        <4>1. k + 1 = y + m /\ k + 1 \in 1..(Len(t) + 1)
          BY <1>2, <2>2, <3>1
        <4>2. ValuesFrom(t)[k + 1] = <<>>
          BY <4>1, ValuesFromAre
        <4> QED
          BY <1>1, <3>1, <4>2, RestIs
      <3>2. CASE j # n
        <4>1. j < n /\ j \in 1..(n - 1) /\ 2 * j \in 1..m /\ y + 2 * j - 1 = k + 1
          BY <1>1, <1>2, <2>2, <3>2
        <4>2. k + 1 \in 1..Len(t) /\ t[k + 1] = Comma /\ TokAt(t, k + 1) = Comma
          BY <1>2, <1>3, <4>1
        <4>3. PICK i \in 1..Len(t) : i = k + 1
          BY <4>2
        <4>4. ValuesFrom(t)[i] = ValuesFrom(t)[i + 1]
          <5>1. i \in 1..(Len(t) + 1) /\ ~(i > Len(t)) /\ TokAt(t, i) # ")" /\ t[i] = Comma
            BY <4>2, <4>3, CommaIs
          <5> QED
            BY <5>1, ValuesFromAre
        <4>5. i + 1 = y + 2 * (j + 1) - 2
          BY <2>2, <4>3
        <4> QED
          BY <1>5, <4>1, <4>3, <4>4, <4>5
      <3> QED
        BY <3>1, <3>2
    <2>6. <<values[j]>> \o Rest(values, j + 1) = Rest(values, j)
      BY <1>1, RestIs
    <2> QED
      BY <2>2, <2>4, <2>5, <2>6
  <1>6. ValuesFrom(t)[y] = values
    <2>1. CASE n = 0
      <3>1. m = 0 /\ Len(values) = 0
        BY <1>1, <1>2, <2>1
      <3>2. values = <<>>
        BY <3>1
      <3>3. y \in 1..(Len(t) + 1) /\ y + m = y
        BY <3>1, DomainIs
      <3>4. TokAt(t, y) = ")"
        BY <3>3
      <3>5. ValuesFrom(t)[y] = <<>>
        BY <3>3, <3>4, ValuesFromAre
      <3> QED
        BY <3>2, <3>5
    <2>2. CASE n # 0
      <3> HIDE DEF at
      <3>1. 0 \in T
        OBVIOUS
      <3>2. ASSUME NEW d \in Nat, d \in T PROVE d + 1 \in T
        <4> SUFFICES ASSUME NEW j \in 1..n, j > n - (d + 1) PROVE at(j) = Rest(values, j)
          OBVIOUS
        <4>1. j < n => j + 1 \in 1..n /\ j + 1 > n - d
          OBVIOUS
        <4>2. j < n => at(j + 1) = Rest(values, j + 1)
          BY <3>2, <4>1
        <4> QED
          BY <1>5, <4>2
      <3> HIDE DEF T
      <3>3. n \in T
        BY <3>1, <3>2, UpTo
      <3>4. at(1) = Rest(values, 1)
        BY <2>2, <3>3 DEF T
      <3>5. y + 2 * 1 - 2 = y
        OBVIOUS
      <3> QED
        BY <3>4, <3>5, RestIs DEF at
    <2> QED
      BY <2>1, <2>2
  <1> QED
    BY <1>4, <1>6

\* What is no value of a client's.
TextSigns == {"(", ")", "SELECT", "FROM", "ON", "BY", "IS", "NULL", "NOT", "IN", "AND", "OR", "ASC", "DESC"}
\* All tokens of a statement.
TextTokens == STRING \cup TextSigns \cup {Comma} \cup Keywords \cup Scopes \cup Comparisons

\* A sequence of four.
LEMMA FourIs ==
  ASSUME NEW S, NEW a \in S, NEW b \in S, NEW c \in S, NEW d \in S
  PROVE  /\ <<a, b, c, d>> \in Seq(S) /\ Len(<<a, b, c, d>>) = 4
         /\ <<a, b, c, d>>[1] = a /\ <<a, b, c, d>>[2] = b /\ <<a, b, c, d>>[3] = c /\ <<a, b, c, d>>[4] = d
  OBVIOUS

\* A sequence of three.
LEMMA ThreeIs ==
  ASSUME NEW S, NEW a \in S, NEW b \in S, NEW c \in S
  PROVE  /\ <<a, b, c>> \in Seq(S) /\ Len(<<a, b, c>>) = 3
         /\ <<a, b, c>>[1] = a /\ <<a, b, c>>[2] = b /\ <<a, b, c>>[3] = c
  OBVIOUS

\* What a condition's words make of the tokens from x on.
ReadRight(t, x, c) ==
  /\ ~WhereEnded(t, x)
  /\ c.kind # "broken" =>
       c.kind \in {"pred"} \cup Scopes /\ ReadAt(t, x) = Read(c.kind, c.what, x + Len(Words(c)))
  /\ c.kind = "broken" => ReadAt(t, x) = Read("broken", Empty, Len(t) + 1)

\* A folder, a tree or a text to search.
LEMMA ScopeRead ==
  ASSUME NEW S, NEW t \in Seq(S), NEW x \in Nat, NEW c, c.kind \in Scopes, c.what \in STRING,
         WordsAt(t, x, Words(c))
  PROVE  ReadRight(t, x, c) /\ Words(c) \in Seq(TextTokens) /\ Words(c) # <<>>
  <1> DEFINE w == <<c.kind, "(", c.what, ")">>
  <1>1. Words(c) = w
    BY DEF Words, Scopes
  <1>2. c.kind \in TextTokens /\ "(" \in TextTokens /\ c.what \in TextTokens /\ ")" \in TextTokens
    BY DEF TextTokens, TextSigns
  <1>3. w \in Seq(TextTokens) /\ Len(w) = 4 /\ w[1] = c.kind /\ w[2] = "(" /\ w[3] = c.what /\ w[4] = ")"
    BY <1>2, FourIs
  <1> HIDE DEF w
  <1>4. PICK n \in Nat : n = Len(t)
    BY DomainIs
  <1>5. /\ x \in 1..Len(t) /\ t[x] = c.kind /\ TokAt(t, x) = c.kind
        /\ x + 1 \in 1..Len(t) /\ t[x + 1] = "(" /\ TokAt(t, x + 1) = "("
        /\ x + 2 \in 1..Len(t) /\ t[x + 2] = c.what /\ TokAt(t, x + 2) = c.what
        /\ x + 3 \in 1..Len(t) /\ t[x + 3] = ")" /\ TokAt(t, x + 3) = ")"
    <2>1. PICK v \in Seq(TextTokens) :
            WordsAt(t, x, v) /\ Len(v) = 4 /\ v[1] = c.kind /\ v[2] = "(" /\ v[3] = c.what /\ v[4] = ")"
      BY <1>1, <1>3
    <2>2. Len(v) \in Nat /\ Len(v) >= 1 /\ Len(v) >= 2 /\ Len(v) >= 3 /\ Len(v) >= 4
      BY <2>1
    <2>3. FirstFour(t, x, v)
      BY <2>1, <2>2, PlacedAt
    <2> QED
      BY <2>1, <2>2, <2>3 DEF FirstFour
  <1>6. ~WhereEnded(t, x)
    BY <1>4, <1>5 DEF WhereEnded, Scopes
  <1>7. (x + 1) + 1 = x + 2 /\ (x + 2) + 1 = x + 3 /\ (x + 3) + 1 = x + 4
    OBVIOUS
  <1>8. Past(t, x + 3, ")") = x + 4 /\ Past(t, x + 1, "(") = x + 2
    BY <1>5, <1>7 DEF Past
  <1>9. ReadAt(t, x) = Read(c.kind, c.what, x + 4)
    <2>1. CASE c.kind \in {"IN_FOLDER", "IN_TREE"}
      <3>1. t[x] \in {"IN_FOLDER", "IN_TREE"} /\ t[x] \notin {"AND", "OR"}
        BY <1>5, <2>1
      <3>2. TokAt(t, x + 1) = "(" /\ x + 2 <= Len(t)
        BY <1>4, <1>5
      <3>3. ReadAt(t, x) = Read(t[x], t[x + 2], Past(t, x + 3, ")"))
        BY <3>1, <3>2 DEF ReadAt
      <3> QED
        BY <1>5, <1>8, <3>3
    <2>2. CASE c.kind = "CONTAINS"
      <3>1. ReadAt(t, x) = ReadContains(t, x)
        BY <1>5, <2>2 DEF ReadAt
      <3>2. x + 2 <= Len(t)
        BY <1>4, <1>5
      <3> QED
        BY <1>5, <1>7, <1>8, <2>2, <3>1, <3>2 DEF ReadContains
    <2> QED
      BY <2>1, <2>2 DEF Scopes
  <1>10. c.kind # "broken"
    BY DEF Scopes
  <1>11. w # <<>>
    BY DEF w
  <1> QED
    BY <1>1, <1>3, <1>6, <1>9, <1>10, <1>11 DEF ReadRight

\* A folder without its sign is an error.
LEMMA BrokenRead ==
  ASSUME NEW S, NEW t \in Seq(S), NEW x \in Nat, NEW c, c.kind = "broken",
         c.what \in Seq(STRING), Len(c.what) \in 1..2, c.what[1] \in {"IN_FOLDER", "IN_TREE"},
         Len(c.what) = 2 => c.what[2] # "(",
         WordsAt(t, x, Words(c)), TokAt(t, x + Len(Words(c))) # "("
  PROVE  ReadRight(t, x, c) /\ Words(c) \in Seq(TextTokens) /\ Words(c) # <<>>
  <1>1. Words(c) = c.what
    BY DEF Words, Scopes
  <1>2. PICK n \in Nat : n = Len(t)
    BY DomainIs
  <1>3. /\ x \in 1..Len(t) /\ t[x] = c.what[1] /\ TokAt(t, x) = c.what[1]
        /\ Len(c.what) = 2 => TokAt(t, x + 1) = c.what[2]
    <2>1. PICK v \in Seq(STRING) : v = c.what /\ WordsAt(t, x, v) /\ Len(v) \in 1..2
      BY <1>1
    <2>2. Len(v) \in Nat /\ Len(v) >= 1 /\ (Len(v) = 2 => Len(v) >= 2)
      BY <2>1
    <2>3. FirstFour(t, x, v)
      BY <2>1, <2>2, PlacedAt
    <2> QED
      BY <2>1, <2>2, <2>3 DEF FirstFour
  <1>4. TokAt(t, x + 1) # "("
    <2>1. CASE Len(c.what) = 2
      BY <1>3, <2>1
    <2>2. CASE Len(c.what) # 2
      <3>1. Len(c.what) = 1
        BY <2>2
      <3> QED
        BY <1>1, <3>1
    <2> QED
      BY <2>1, <2>2
  <1>5. ~WhereEnded(t, x)
    BY <1>2, <1>3 DEF WhereEnded
  <1>6. ReadAt(t, x) = Read("broken", Empty, Len(t) + 1)
    BY <1>3, <1>4 DEF ReadAt
  <1>7. c.what \in Seq(TextTokens) /\ c.what # <<>>
    BY DEF TextTokens
  <1> QED
    BY <1>1, <1>5, <1>6, <1>7 DEF ReadRight

\* The words of a predicate, by its operator.
LEMMA PredicateWordsAre ==
  ASSUME NEW p
  PROVE  /\ p.operator = "IS_NULL" => PredicateWords(p) = <<p.property, "IS", "NULL">>
         /\ p.operator = "IS_NOT_NULL" => PredicateWords(p) = <<p.property, "IS", "NOT", "NULL">>
         /\ p.operator = "IN" => PredicateWords(p) = <<p.property, "IN", "(">> \o Separated(p.values) \o <<")">>
         /\ p.operator \in Comparisons => PredicateWords(p) = <<p.property, p.operator, p.values[1]>>
  BY DEF PredicateWords, Comparisons

\* The words of a predicate with a list.
LEMMA InWords ==
  ASSUME NEW S, NEW a \in S, "IN" \in S, "(" \in S, ")" \in S, NEW sep \in Seq(S), NEW w,
         w = <<a, "IN", "(">> \o sep \o <<")">>
  PROVE  /\ w \in Seq(S) /\ Len(w) = Len(sep) + 4 /\ w[1] = a /\ w[2] = "IN" /\ w[3] = "("
         /\ \A k \in 1..Len(sep) : w[3 + k] = sep[k]
         /\ w[Len(sep) + 4] = ")"
  <1>1. PICK u \in Seq(S) : u = <<a, "IN", "(">> /\ Len(u) = 3 /\ u[1] = a /\ u[2] = "IN" /\ u[3] = "("
    <2>1. /\ <<a, "IN", "(">> \in Seq(S) /\ Len(<<a, "IN", "(">>) = 3
          /\ <<a, "IN", "(">>[1] = a /\ <<a, "IN", "(">>[2] = "IN" /\ <<a, "IN", "(">>[3] = "("
      OBVIOUS
    <2> QED
      BY <2>1
  <1>2. PICK z \in Seq(S) : z = <<")">> /\ Len(z) = 1 /\ z[1] = ")"
    BY OneIs
  <1>3. PICK v \in Seq(S) : v = u \o sep
    BY ConcatIs
  <1>4. PICK n \in Nat : n = Len(sep)
    BY DomainIs
  <1>5. /\ Len(v) = 3 + n /\ \A i \in 1..3 : v[i] = u[i]
        /\ \A i \in 1..n : v[3 + i] = sep[i]
    BY <1>1, <1>3, <1>4, ConcatIs
  <1>6. /\ v \o z \in Seq(S) /\ Len(v \o z) = (3 + n) + 1
        /\ \A i \in 1..(3 + n) : (v \o z)[i] = v[i]
        /\ \A i \in 1..1 : (v \o z)[(3 + n) + i] = z[i]
    BY <1>2, <1>5, ConcatIs
  <1>7. w = v \o z
    BY <1>1, <1>2, <1>3
  <1>8. PICK q : q = w
    OBVIOUS
  <1>9. /\ q \in Seq(S) /\ Len(q) = n + 4 /\ \A i \in 1..(3 + n) : q[i] = v[i]
        /\ \A i \in 1..1 : q[(3 + n) + i] = z[i]
    BY <1>6, <1>7, <1>8
  <1>10. q[1] = a /\ q[2] = "IN" /\ q[3] = "("
    BY <1>1, <1>5, <1>9
  <1>11. \A k \in 1..n : q[3 + k] = sep[k]
    BY <1>5, <1>9
  <1>12. q[n + 4] = ")"
    <2>1. (3 + n) + 1 = n + 4 /\ 1 \in 1..1
      OBVIOUS
    <2> QED
      BY <1>2, <1>9, <2>1
  <1> QED
    BY <1>4, <1>8, <1>9, <1>10, <1>11, <1>12

\* A sequence in a wider set.
LEMMA SeqWider ==
  ASSUME NEW S, NEW T, S \subseteq T, NEW v \in Seq(S)
  PROVE  v \in Seq(T)
  <1>1. v = [i \in 1..Len(v) |-> v[i]] /\ Len(v) \in Nat
    OBVIOUS
  <1>2. \A i \in 1..Len(v) : v[i] \in T
    OBVIOUS
  <1> QED
    BY <1>1, <1>2

\* A predicate of any form.
LEMMA PredRead ==
  ASSUME NEW S, NEW t \in Seq(S), Comma \in S, NEW x \in Nat, NEW c, c.kind = "pred", PredicateOK(c.what),
         WordsAt(t, x, Words(c)), c.what.values \in Seq(S)
  PROVE  ReadRight(t, x, c) /\ Words(c) \in Seq(TextTokens) /\ Words(c) # <<>>
  <1>1. PICK p : p = c.what
    OBVIOUS
  <1>2. /\ p = Predicate(p.property, p.operator, p.values)
        /\ p.property \in STRING \ (Connectives \cup Scopes) /\ p.values \in Seq(STRING)
        /\ \/ p.operator \in {"IS_NULL", "IS_NOT_NULL"} /\ p.values = <<>>
           \/ p.operator = "IN" /\ ToSet(p.values) \cap {Comma, ")"} = {}
           \/ p.operator \in Comparisons /\ Len(p.values) = 1
    BY <1>1 DEF PredicateOK
  <1>3. PICK w : w = Words(c) /\ w = PredicateWords(p) /\ WordsAt(t, x, w)
    <2>1. Words(c) = PredicateWords(c.what)
      BY DEF Words, Scopes
    <2> QED
      BY <1>1, <2>1
  <1>4. PICK n \in Nat : n = Len(t)
    BY DomainIs
  <1>5. NoWord(p.property) /\ p.property # "ORDER"
    BY <1>2 DEF NoWord, Connectives, Scopes
  <1>6. p.property \in TextTokens
    BY <1>2 DEF TextTokens
  <1>7. /\ {"IS", "NULL", "NOT", "IN", "(", ")"} \subseteq TextTokens
        /\ Comma \in TextTokens
        /\ Comparisons \subseteq TextTokens
    BY DEF TextTokens, TextSigns
  <1>8. SUFFICES /\ w \in Seq(TextTokens) /\ w # <<>> /\ x \in 1..n /\ TokAt(t, x) = p.property
                 /\ ReadAt(t, x) = Read("pred", p, x + Len(w))
    BY <1>1, <1>3, <1>4, <1>5 DEF ReadRight, WhereEnded
  <1>9. CASE p.operator = "IS_NULL"
    <2>1. w = <<p.property, "IS", "NULL">>
      BY <1>3, <1>9, PredicateWordsAre
    <2>2. w \in Seq(TextTokens) /\ Len(w) = 3 /\ w[1] = p.property /\ w[2] = "IS" /\ w[3] = "NULL" /\ w # <<>>
      BY <1>6, <1>7, <2>1
    <2>3. FirstFour(t, x, w)
      BY <1>3, <2>2, PlacedAt
    <2>4. /\ x \in 1..n /\ t[x] = p.property /\ TokAt(t, x) = p.property
          /\ TokAt(t, x + 1) = "IS" /\ TokAt(t, x + 2) = "NULL"
      BY <1>4, <2>2, <2>3 DEF FirstFour
    <2>5. NoWord(t[x]) /\ IsNull(t, x)
      BY <1>5, <2>4 DEF IsNull
    <2>6. ReadAt(t, x) = Read("pred", Predicate(t[x], "IS_NULL", <<>>), x + 3)
      BY <2>5, PredicateRead, Zenon
    <2>7. p = Predicate(t[x], "IS_NULL", <<>>)
      <3>1. p.values = <<>>
        BY <1>2, <1>9 DEF Comparisons
      <3> QED
        BY <1>2, <1>9, <2>4, <3>1
    <2> QED
      BY <2>2, <2>4, <2>6, <2>7
  <1>10. CASE p.operator = "IS_NOT_NULL"
    <2>1. w = <<p.property, "IS", "NOT", "NULL">>
      BY <1>3, <1>10, PredicateWordsAre
    <2>2. /\ w \in Seq(TextTokens) /\ Len(w) = 4 /\ w # <<>>
          /\ w[1] = p.property /\ w[2] = "IS" /\ w[3] = "NOT" /\ w[4] = "NULL"
      BY <1>6, <1>7, <2>1
    <2>3. FirstFour(t, x, w)
      BY <1>3, <2>2, PlacedAt
    <2>4. /\ x \in 1..n /\ t[x] = p.property /\ TokAt(t, x) = p.property
          /\ TokAt(t, x + 1) = "IS" /\ TokAt(t, x + 2) = "NOT" /\ TokAt(t, x + 3) = "NULL"
      BY <1>4, <2>2, <2>3 DEF FirstFour
    <2>5. NoWord(t[x]) /\ IsNotNull(t, x)
      BY <1>5, <2>4 DEF IsNotNull
    <2>6. ReadAt(t, x) = Read("pred", Predicate(t[x], "IS_NOT_NULL", <<>>), x + 4)
      BY <2>5, PredicateRead, Zenon
    <2>7. p = Predicate(t[x], "IS_NOT_NULL", <<>>)
      <3>1. p.values = <<>>
        BY <1>2, <1>10 DEF Comparisons
      <3> QED
        BY <1>2, <1>10, <2>4, <3>1
    <2> QED
      BY <2>2, <2>4, <2>6, <2>7
  <1>11. CASE p.operator \in Comparisons
    <2>1. w = <<p.property, p.operator, p.values[1]>>
      BY <1>3, <1>11, PredicateWordsAre
    <2>2. Len(p.values) = 1 /\ p.values[1] \in STRING /\ p.values = <<p.values[1]>>
      BY <1>2, <1>11 DEF Comparisons
    <2>3. p.values[1] \in TextTokens /\ p.operator \in TextTokens
      BY <1>7, <1>11, <2>2 DEF TextTokens
    <2>4. /\ w \in Seq(TextTokens) /\ Len(w) = 3 /\ w # <<>>
          /\ w[1] = p.property /\ w[2] = p.operator /\ w[3] = p.values[1]
      BY <1>6, <2>1, <2>3
    <2>5. FirstFour(t, x, w)
      BY <1>3, <2>4, PlacedAt
    <2>6. /\ x \in 1..n /\ t[x] = p.property /\ TokAt(t, x) = p.property
          /\ t[x + 1] = p.operator /\ TokAt(t, x + 1) = p.operator
          /\ x + 2 \in 1..n /\ t[x + 2] = p.values[1]
      BY <1>4, <2>4, <2>5 DEF FirstFour
    <2>7. NoWord(t[x]) /\ IsCompared(t, x)
      BY <1>4, <1>5, <1>11, <2>6 DEF IsCompared
    <2>8. ReadAt(t, x) = Read("pred", Predicate(t[x], t[x + 1], <<t[x + 2]>>), x + 3)
      BY <2>7, PredicateRead, Zenon
    <2>9. p = Predicate(t[x], t[x + 1], <<t[x + 2]>>)
      BY <1>2, <2>2, <2>6
    <2> QED
      BY <2>4, <2>6, <2>8, <2>9
  <1>12. CASE p.operator = "IN"
    <2>1. w = <<p.property, "IN", "(">> \o Separated(p.values) \o <<")">>
      BY <1>3, <1>12, PredicateWordsAre
    <2>2. ToSet(p.values) \cap {Comma, ")"} = {}
      BY <1>2, <1>12 DEF Comparisons
    <2>3. p.values \in Seq(TextTokens)
      BY <1>2 DEF TextTokens
    <2>4. PICK sep \in Seq(TextTokens) : sep = Separated(p.values)
      BY <1>7, <2>3, SeparatedIs
    <2>5. PICK m \in Nat : m = Len(sep)
      BY DomainIs
    <2>6. /\ w \in Seq(TextTokens) /\ Len(w) = m + 4 /\ w[1] = p.property /\ w[2] = "IN" /\ w[3] = "("
          /\ \A k \in 1..m : w[3 + k] = sep[k]
          /\ w[m + 4] = ")"
      BY <1>6, <1>7, <2>1, <2>4, <2>5, InWords
    <2>7. FirstFour(t, x, w)
      BY <1>3, <2>6, PlacedAt
    <2>8. /\ x \in 1..n /\ t[x] = p.property /\ TokAt(t, x) = p.property
          /\ TokAt(t, x + 1) = "IN" /\ TokAt(t, x + 2) = "("
          /\ x + 3 \in 1..n
      BY <1>4, <2>6, <2>7 DEF FirstFour
    <2>9. \A j \in 1..(m + 4) : x + j - 1 \in 1..n /\ t[x + j - 1] = w[j] /\ TokAt(t, x + j - 1) = w[j]
      BY <1>3, <1>4, <2>6 DEF WordsAt
    <2>10. PICK y \in 1..Len(t) : y = x + 3
      BY <1>4, <2>8
    <2>11. WordsAt(t, y, Separated(p.values))
      <3> SUFFICES ASSUME NEW j \in 1..m
                   PROVE  y + j - 1 \in 1..Len(t) /\ t[y + j - 1] = sep[j] /\ TokAt(t, y + j - 1) = sep[j]
        BY <2>4, <2>5 DEF WordsAt
      <3>1. 3 + j \in 1..(m + 4) /\ x + (3 + j) - 1 = y + j - 1
        BY <2>10
      <3> QED
        BY <1>4, <2>6, <2>9, <3>1
    <2>12. y + m \in 1..Len(t) /\ t[y + m] = ")" /\ TokAt(t, y + m) = ")"
      <3>1. m + 4 \in 1..(m + 4) /\ x + (m + 4) - 1 = y + m
        BY <2>10
      <3> QED
        BY <1>4, <2>6, <2>9, <3>1
    <2>13. ValuesFrom(t)[y] = p.values /\ Upto(t, y, {")"}) = y + m
      <3>1. p.values \in Seq(S) /\ m = Len(Separated(p.values))
        BY <1>1, <2>4, <2>5
      <3> QED
        BY <2>2, <2>11, <2>12, <3>1, ValuesRead
    <2>14. NoWord(t[x]) /\ IsIn(t, x)
      BY <1>5, <2>8 DEF IsIn
    <2>15. ReadAt(t, x) = ReadIn(t, x)
      BY <2>14, PredicateRead, Zenon
    <2>16. ReadIn(t, x) = Read("pred", Predicate(t[x], "IN", p.values), x + (m + 4))
      <3>1. (y + m) + 1 = x + (m + 4)
        BY <2>10
      <3> QED
        BY <2>10, <2>13, <3>1 DEF ReadIn
    <2>17. p = Predicate(t[x], "IN", p.values)
      BY <1>2, <1>12, <2>8
    <2>18. w # <<>>
      BY <2>6
    <2> QED
      BY <2>6, <2>8, <2>15, <2>16, <2>17, <2>18
  <1> QED
    BY <1>2, <1>9, <1>10, <1>11, <1>12

\* A condition, whatever its kind.
LEMMA ConditionRead ==
  ASSUME NEW S, NEW t \in Seq(S), TextTokens \subseteq S, NEW x \in Nat, NEW c, ConditionOK(c),
         WordsAt(t, x, Words(c)), TokAt(t, x + Len(Words(c))) # "("
  PROVE  ReadRight(t, x, c)
  <1>1. CASE c.kind = "pred" /\ PredicateOK(c.what)
    <2>1. Comma \in S
      BY DEF TextTokens
    <2>2. c.what.values \in Seq(S)
      <3>1. c.what.values \in Seq(STRING) /\ STRING \subseteq S
        BY <1>1 DEF PredicateOK, TextTokens
      <3>2. PICK v \in Seq(STRING) : v = c.what.values
        BY <3>1
      <3>3. v \in Seq(S)
        BY <3>1, SeqWider
      <3> QED
        BY <3>2, <3>3
    <2> QED
      BY <1>1, <2>1, <2>2, PredRead
  <1>2. CASE c.kind \in Scopes /\ c.what \in STRING
    BY <1>2, ScopeRead
  <1>3. CASE /\ c.kind = "broken" /\ c.what \in Seq(STRING) /\ Len(c.what) \in 1..2
             /\ c.what[1] \in {"IN_FOLDER", "IN_TREE"} /\ (Len(c.what) = 2 => c.what[2] # "(")
    BY <1>3, BrokenRead
  <1> QED
    BY <1>1, <1>2, <1>3 DEF ConditionOK

-----------------------------------------------------------------------------
(***************************************************************************)
(* The words of conditions, JOINs, alternatives and keys: the pieces of a  *)
(* statement.                                                              *)
(***************************************************************************)
\* A sequence w that is u, v and then z.
InThree(u, v, z, w) ==
  /\ Len(w) = Len(u) + Len(v) + Len(z)
  /\ \A i \in 1..Len(u) : w[i] = u[i]
  /\ \A i \in 1..Len(v) : w[Len(u) + i] = v[i]
  /\ \A i \in 1..Len(z) : w[Len(u) + Len(v) + i] = z[i]

\* So are three sequences.
LEMMA ConcatThree ==
  ASSUME NEW S, NEW u \in Seq(S), NEW v \in Seq(S), NEW z \in Seq(S)
  PROVE  \E w \in Seq(S) : w = u \o v \o z /\ InThree(u, v, z, w)
  <1>1. PICK a \in Nat, b \in Nat, c \in Nat : a = Len(u) /\ b = Len(v) /\ c = Len(z)
    BY DomainIs
  <1>2. PICK y \in Seq(S) : y = u \o v
    BY ConcatIs
  <1>3. Len(y) = a + b /\ (\A i \in 1..a : y[i] = u[i]) /\ \A i \in 1..b : y[a + i] = v[i]
    BY <1>1, <1>2, ConcatIs
  <1>4. PICK w \in Seq(S) : w = y \o z
    BY ConcatIs
  <1>5. Len(w) = (a + b) + c /\ (\A i \in 1..(a + b) : w[i] = y[i]) /\ \A i \in 1..c : w[(a + b) + i] = z[i]
    <2>1. /\ Len(w) = Len(y) + Len(z) /\ \A i \in 1..Len(y) : w[i] = y[i]
          /\ \A i \in 1..Len(z) : w[Len(y) + i] = z[i]
      BY <1>4, ConcatIs
    <2> QED
      BY <1>1, <1>3, <2>1
  <1>6. \A i \in 1..a : w[i] = u[i]
    BY <1>3, <1>5
  <1>7. \A i \in 1..b : w[a + i] = v[i]
    BY <1>3, <1>5
  <1>8. InThree(u, v, z, w)
    BY <1>1, <1>5, <1>6, <1>7 DEF InThree
  <1> QED
    BY <1>2, <1>4, <1>8

InFour(u, v, z, y, w) ==
  /\ Len(w) = Len(u) + Len(v) + Len(z) + Len(y)
  /\ \A i \in 1..Len(u) : w[i] = u[i]
  /\ \A i \in 1..Len(v) : w[Len(u) + i] = v[i]
  /\ \A i \in 1..Len(z) : w[Len(u) + Len(v) + i] = z[i]
  /\ \A i \in 1..Len(y) : w[Len(u) + Len(v) + Len(z) + i] = y[i]

\* And four.
LEMMA ConcatFour ==
  ASSUME NEW S, NEW u \in Seq(S), NEW v \in Seq(S), NEW z \in Seq(S), NEW y \in Seq(S)
  PROVE  \E w \in Seq(S) : w = u \o v \o z \o y /\ InFour(u, v, z, y, w)
  <1>1. PICK a \in Nat, b \in Nat, c \in Nat, d \in Nat : a = Len(u) /\ b = Len(v) /\ c = Len(z) /\ d = Len(y)
    BY DomainIs
  <1>2. PICK q \in Seq(S) : q = u \o v \o z /\ InThree(u, v, z, q)
    BY ConcatThree
  <1>3. /\ Len(q) = a + b + c /\ \A i \in 1..a : q[i] = u[i]
        /\ \A i \in 1..b : q[a + i] = v[i]
        /\ \A i \in 1..c : q[a + b + i] = z[i]
    BY <1>1, <1>2 DEF InThree
  <1>4. PICK w \in Seq(S) : w = q \o y
    BY ConcatIs
  <1>5. /\ Len(w) = (a + b + c) + d /\ \A i \in 1..(a + b + c) : w[i] = q[i]
        /\ \A i \in 1..d : w[(a + b + c) + i] = y[i]
    <2>1. /\ Len(w) = Len(q) + Len(y) /\ \A i \in 1..Len(q) : w[i] = q[i]
          /\ \A i \in 1..Len(y) : w[Len(q) + i] = y[i]
      BY <1>4, ConcatIs
    <2> QED
      BY <1>1, <1>3, <2>1
  <1>6. \A i \in 1..a : w[i] = u[i]
    BY <1>3, <1>5
  <1>7. \A i \in 1..b : w[a + i] = v[i]
    BY <1>3, <1>5
  <1>8. \A i \in 1..c : w[a + b + i] = z[i]
    BY <1>3, <1>5
  <1>9. InFour(u, v, z, y, w)
    BY <1>1, <1>5, <1>6, <1>7, <1>8 DEF InFour
  <1> QED
    BY <1>2, <1>4, <1>9

\* A condition has words, all of them tokens.
LEMMA WordsAre ==
  ASSUME NEW c, ConditionOK(c)
  PROVE  Words(c) \in Seq(TextTokens) /\ Words(c) # <<>>
  <1>1. /\ {"IS", "NULL", "NOT", "IN", "(", ")"} \subseteq TextTokens
        /\ Comma \in TextTokens
        /\ Comparisons \subseteq TextTokens
    BY DEF TextTokens, TextSigns
  <1>2. CASE c.kind = "pred" /\ PredicateOK(c.what)
    <2>1. PICK p : p = c.what
      OBVIOUS
    <2>2. /\ p.property \in TextTokens /\ p.values \in Seq(STRING)
          /\ \/ p.operator \in {"IS_NULL", "IS_NOT_NULL"} /\ p.values = <<>>
             \/ p.operator = "IN"
             \/ p.operator \in Comparisons /\ Len(p.values) = 1
      BY <1>2, <2>1 DEF PredicateOK, TextTokens
    <2>3. PICK w : w = Words(c) /\ w = PredicateWords(p)
      <3>1. Words(c) = PredicateWords(c.what)
        BY <1>2 DEF Words, Scopes
      <3> QED
        BY <2>1, <3>1
    <2>4. CASE p.operator = "IS_NULL"
      <3>1. w = <<p.property, "IS", "NULL">>
        BY <2>3, <2>4, PredicateWordsAre
      <3> QED
        BY <1>1, <2>2, <2>3, <3>1
    <2>5. CASE p.operator = "IS_NOT_NULL"
      <3>1. w = <<p.property, "IS", "NOT", "NULL">>
        BY <2>3, <2>5, PredicateWordsAre
      <3> QED
        BY <1>1, <2>2, <2>3, <3>1
    <2>6. CASE p.operator \in Comparisons
      <3>1. w = <<p.property, p.operator, p.values[1]>>
        BY <2>3, <2>6, PredicateWordsAre
      <3>2. p.values[1] \in TextTokens
        BY <2>2, <2>6 DEF TextTokens, Comparisons
      <3> QED
        BY <1>1, <2>2, <2>3, <2>6, <3>1, <3>2
    <2>7. CASE p.operator = "IN"
      <3>1. w = <<p.property, "IN", "(">> \o Separated(p.values) \o <<")">>
        BY <2>3, <2>7, PredicateWordsAre
      <3>2. p.values \in Seq(TextTokens)
        BY <2>2, SeqWider DEF TextTokens
      <3>3. PICK sep \in Seq(TextTokens) : sep = Separated(p.values)
        BY <1>1, <3>2, SeparatedIs
      <3>4. w \in Seq(TextTokens) /\ Len(w) = Len(sep) + 4 /\ Len(sep) \in Nat
        BY <1>1, <2>2, <3>1, <3>3, InWords, DomainIs
      <3>5. w # <<>>
        BY <3>4
      <3> QED
        BY <2>3, <3>4, <3>5
    <2> QED
      BY <2>2, <2>4, <2>5, <2>6, <2>7
  <1>3. CASE c.kind \in Scopes /\ c.what \in STRING
    <2>1. Words(c) = <<c.kind, "(", c.what, ")">>
      BY <1>3 DEF Words, Scopes
    <2>2. c.kind \in TextTokens /\ c.what \in TextTokens
      BY <1>3 DEF TextTokens
    <2> QED
      BY <1>1, <2>1, <2>2
  <1>4. CASE c.kind = "broken" /\ c.what \in Seq(STRING) /\ Len(c.what) \in 1..2
    <2>1. Words(c) = c.what
      BY <1>4 DEF Words, Scopes
    <2>2. c.what \in Seq(TextTokens)
      BY <1>4, SeqWider DEF TextTokens
    <2>3. c.what # <<>>
      <3>1. Len(<<>>) = 0
        OBVIOUS
      <3>2. PICK n \in 1..2 : n = Len(c.what)
        BY <1>4
      <3> QED
        BY <3>1, <3>2
    <2> QED
      BY <2>1, <2>2, <2>3
  <1> QED
    BY <1>2, <1>3, <1>4 DEF ConditionOK

\* The ON part of a JOIN.
OnPart(j, on) ==
  /\ on = IF j.on = <<>> THEN <<>> ELSE <<"ON">> \o j.on
  /\ Len(on) = IF j.on = <<>> THEN 0 ELSE 1 + Len(j.on)
  /\ j.on # <<>> => Len(on) \in Nat /\ on[1] = "ON" /\ \A i \in 1..Len(j.on) : on[1 + i] = j.on[i]

\* A join in words.
JoinSays(j, w) ==
  LET h == Len(j.how)
      a == Len(j.alias)
  IN  /\ h \in 1..2 /\ a \in 0..1
      /\ Len(w) = h + 1 + a + (IF j.on = <<>> THEN 0 ELSE 1 + Len(j.on))
      /\ \A i \in 1..h : w[i] = j.how[i]
      /\ w[h + 1] = j.type
      /\ a = 1 => w[h + 2] = j.alias[1]
      /\ j.on # <<>> => w[h + a + 2] = "ON" /\ \A i \in 1..Len(j.on) : w[h + a + 2 + i] = j.on[i]

\* A JOIN has tokens, and they are these.
LEMMA JoinPieceIs ==
  ASSUME NEW j, JoinOK(j)
  PROVE  JoinPiece(j) \in Seq(TextTokens) /\ JoinSays(j, JoinPiece(j)) /\ JoinPiece(j) # <<>>
  <1>1. PICK how \in Seq(TextTokens) : how = j.how /\ Len(how) \in 1..2
    <2>1. "JOIN" \in TextTokens /\ "LEFT" \in TextTokens /\ "INNER" \in TextTokens
      BY DEF TextTokens, Keywords
    <2>2. j.how = <<"JOIN">> \/ j.how = <<"LEFT", "JOIN">> \/ j.how = <<"INNER", "JOIN">>
      BY DEF JoinOK
    <2>3. j.how \in Seq(TextTokens) /\ Len(j.how) \in 1..2
      <3>1. <<"JOIN">> \in Seq(TextTokens) /\ Len(<<"JOIN">>) = 1
        BY <2>1
      <3>2. <<"LEFT", "JOIN">> \in Seq(TextTokens) /\ Len(<<"LEFT", "JOIN">>) = 2
        BY <2>1
      <3>3. <<"INNER", "JOIN">> \in Seq(TextTokens) /\ Len(<<"INNER", "JOIN">>) = 2
        BY <2>1
      <3>4. CASE j.how = <<"JOIN">>
        BY <3>1, <3>4
      <3>5. CASE j.how = <<"LEFT", "JOIN">>
        BY <3>2, <3>5
      <3>6. CASE j.how = <<"INNER", "JOIN">>
        BY <3>3, <3>6
      <3> QED
        BY <2>2, <3>4, <3>5, <3>6
    <2> QED
      BY <2>3
  <1>2. PICK type \in Seq(TextTokens) : type = <<j.type>> /\ Len(type) = 1 /\ type[1] = j.type
    BY OneIs DEF JoinOK, TextTokens
  <1>3. PICK alias \in Seq(TextTokens) : alias = j.alias /\ Len(alias) \in 0..1
    <2>1. j.alias \in Seq(STRING \ Keywords) /\ Len(j.alias) <= 1
      BY DEF JoinOK, NoneOrOne
    <2>2. PICK alias \in Seq(STRING \ Keywords) : alias = j.alias
      BY <2>1
    <2>3. alias \in Seq(TextTokens)
      BY SeqWider DEF TextTokens
    <2>4. Len(alias) \in Nat /\ Len(alias) <= 1
      BY <2>1, <2>2, DomainIs
    <2>5. Len(alias) \in 0..1
      <3>1. PICK n \in Nat : n = Len(alias) /\ n <= 1
        BY <2>4
      <3>2. n \in 0..1
        BY <3>1
      <3> QED
        BY <3>1, <3>2
    <2> QED
      BY <2>2, <2>3, <2>5
  <1>4. PICK on \in Seq(TextTokens) : OnPart(j, on)
    <2>1. CASE j.on = <<>>
      <3>1. <<>> \in Seq(TextTokens) /\ Len(<<>>) = 0
        OBVIOUS
      <3>2. OnPart(j, <<>>)
        BY <2>1, <3>1 DEF OnPart
      <3> QED
        BY <3>1, <3>2
    <2>2. CASE j.on # <<>>
      <3>1. j.on \in Seq(STRING \ ClauseWords)
        BY DEF JoinOK
      <3>2. j.on \in Seq(TextTokens)
        BY <3>1, SeqWider DEF TextTokens
      <3>3. PICK v \in Seq(TextTokens) : v = j.on
        BY <3>2
      <3>4. "ON" \in TextTokens
        BY DEF TextTokens, TextSigns
      <3>5. PICK u \in Seq(TextTokens) : u = <<"ON">> /\ Len(u) = 1 /\ u[1] = "ON"
        BY <3>4, OneIs
      <3>6. PICK w \in Seq(TextTokens) : w = u \o v
        BY ConcatIs
      <3>7. /\ Len(v) \in Nat /\ Len(w) = 1 + Len(v) /\ (\A i \in 1..1 : w[i] = u[i])
            /\ \A i \in 1..Len(v) : w[1 + i] = v[i]
        BY <3>5, <3>6, ConcatIs
      <3>8. w[1] = "ON"
        BY <3>5, <3>7
      <3>9. OnPart(j, w)
        BY <2>2, <3>3, <3>5, <3>6, <3>7, <3>8 DEF OnPart
      <3> QED
        BY <3>9
    <2> QED
      BY <2>1, <2>2
  <1>5. PICK w \in Seq(TextTokens) : w = how \o type \o alias \o on /\ InFour(how, type, alias, on, w)
    BY ConcatFour
  <1>6. JoinPiece(j) = w
    BY <1>1, <1>2, <1>3, <1>4, <1>5 DEF JoinPiece, OnPart
  <1>7. PICK h \in 1..2, a \in 0..1, m \in Nat : h = Len(how) /\ a = Len(alias) /\ m = Len(on)
    BY <1>1, <1>3, DomainIs
  <1>8. /\ Len(w) = h + 1 + a + m
        /\ \A i \in 1..h : w[i] = how[i]
        /\ \A i \in 1..1 : w[h + i] = type[i]
        /\ \A i \in 1..a : w[h + 1 + i] = alias[i]
        /\ \A i \in 1..m : w[h + 1 + a + i] = on[i]
    BY <1>2, <1>5, <1>7 DEF InFour
  <1>9. w[h + 1] = j.type
    BY <1>2, <1>8
  <1>10. a = 1 => w[h + 2] = j.alias[1]
    <2>1. a = 1 => w[h + 1 + 1] = alias[1] /\ h + 1 + 1 = h + 2
      BY <1>8
    <2> QED
      BY <1>3, <2>1
  <1>11. ASSUME j.on # <<>> PROVE w[h + a + 2] = "ON" /\ \A i \in 1..Len(j.on) : w[h + a + 2 + i] = j.on[i]
    <2>1. m = 1 + Len(j.on) /\ on[1] = "ON" /\ \A i \in 1..Len(j.on) : on[1 + i] = j.on[i]
      BY <1>4, <1>7, <1>11 DEF OnPart
    <2>2. PICK n : n = Len(j.on) /\ n \in Nat
      <3>1. j.on \in Seq(STRING \ ClauseWords)
        BY DEF JoinOK
      <3> QED
        BY <3>1, DomainIs
    <2>3. 1 \in 1..m /\ h + 1 + a + 1 = h + a + 2
      BY <2>1, <2>2
    <2>4. ASSUME NEW i \in 1..n PROVE w[h + a + 2 + i] = j.on[i]
      <3>1. 1 + i \in 1..m /\ h + 1 + a + (1 + i) = h + a + 2 + i
        BY <2>1, <2>2
      <3> QED
        BY <1>8, <2>1, <2>2, <3>1
    <2> QED
      BY <1>8, <2>1, <2>2, <2>3, <2>4
  <1>12. JoinSays(j, w)
    <2>1. m = IF j.on = <<>> THEN 0 ELSE 1 + Len(j.on)
      BY <1>4, <1>7 DEF OnPart
    <2> QED
      BY <1>1, <1>3, <1>7, <1>8, <1>9, <1>10, <1>11, <2>1 DEF JoinSays
  <1>13. w # <<>>
    BY <1>7, <1>8
  <1> QED
    BY <1>6, <1>12, <1>13

\* The conditions of a form, one behind the other.
LinkedRight(f, L) ==
  /\ \A p \in 1..Len(L) : L[p].said \in ConditionsOf(f) /\ L[p].link \in {"WHERE", "AND", "OR"}
  /\ Len(L) >= 1 => L[1].link = "WHERE"
  /\ \A p \in 2..Len(L) : L[p].link \in {"AND", "OR"}
  /\ \A c \in ConditionsOf(f) : \E p \in 1..Len(L) : L[p].said = c
  /\ Len(f.alternatives) = 1 =>
       Len(L) = Len(f.alternatives[1]) /\ \A p \in 1..Len(L) : L[p].said = f.alternatives[1][p]

\* So they are.
LEMMA LinkedIs ==
  ASSUME NEW f, AlternativesOK(f)
  PROVE  LinkedRight(f, Linked(f)) /\ \E S : Linked(f) \in Seq(S)
  <1>1. PICK A : A = f.alternatives
    OBVIOUS
  <1>2. PICK n \in Nat : n = Len(A) /\ DOMAIN A = 1..n /\ n # 0 /\ A \in Seq(ToSet(A))
    <2>1. A \in Seq(ToSet(A)) /\ A # <<>>
      BY <1>1 DEF AlternativesOK, IsList
    <2>2. DOMAIN A = 1..Len(A) /\ Len(A) \in Nat
      BY <2>1, DomainIs
    <2>3. Len(A) # 0
      BY <2>1
    <2> QED
      BY <2>1, <2>2, <2>3
  <1>3. \A a \in 1..n : A[a] \in Seq(ToSet(A[a])) /\ (n > 1 => A[a] # <<>>)
    BY <1>1, <1>2 DEF AlternativesOK, IsList
  <1>4. \A a \in 1..n : DOMAIN A[a] = 1..Len(A[a]) /\ Len(A[a]) \in Nat /\ (n > 1 => Len(A[a]) # 0)
    <2> TAKE a \in 1..n
    <2>1. PICK s \in Seq(ToSet(A[a])) : s = A[a] /\ (n > 1 => s # <<>>)
      BY <1>3
    <2>2. DOMAIN s = 1..Len(s) /\ Len(s) \in Nat
      BY DomainIs
    <2>3. Len(s) = 0 => s = <<>>
      OBVIOUS
    <2> QED
      BY <2>1, <2>2, <2>3
  <1> DEFINE C == ConditionsOf(f)
             S == [link : {"WHERE", "AND", "OR"}, said : C]
             At(a, i) == [link |-> IF i > 1 THEN "AND" ELSE IF a > 1 THEN "OR" ELSE "WHERE", said |-> A[a][i]]
             Q == [a \in 1..n |-> [i \in 1..Len(A[a]) |-> At(a, i)]]
  <1>5. \A a \in 1..n : \A i \in 1..Len(A[a]) : A[a][i] \in C
    <2> TAKE a \in 1..n
    <2> TAKE i \in 1..Len(A[a])
    <2>1. A[a][i] \in ToSet(A[a])
      BY <1>4 DEF ToSet
    <2> QED
      BY <1>1, <1>2, <2>1 DEF ConditionsOf
  <1>6. ASSUME NEW c \in C PROVE \E a \in 1..n : \E i \in 1..Len(A[a]) : c = A[a][i]
    <2>1. PICK a \in 1..n : c \in ToSet(A[a])
      BY <1>1, <1>2 DEF ConditionsOf
    <2>2. PICK i \in 1..Len(A[a]) : c = A[a][i]
      BY <1>4, <2>1 DEF ToSet
    <2> QED
      BY <2>2
  <1> HIDE DEF C
  <1>7. Linked(f) = FlattenSeq(Q)
    <2>1. Linked(f) = FlattenSeq([a \in DOMAIN A |-> [i \in DOMAIN A[a] |-> At(a, i)]])
      BY <1>1 DEF Linked
    <2>2. [a \in DOMAIN A |-> [i \in DOMAIN A[a] |-> At(a, i)]] = Q
      BY <1>2, <1>4
    <2> QED
      BY <2>1, <2>2
  <1>8. \A a \in 1..n : \A i \in 1..Len(A[a]) :
          At(a, i) \in S /\ At(a, i).said = A[a][i]
          /\ At(a, i).link = IF i > 1 THEN "AND" ELSE IF a > 1 THEN "OR" ELSE "WHERE"
    BY <1>5
  <1> HIDE DEF At, S
  <1>9. ASSUME NEW a \in 1..n
        PROVE  Q[a] \in Seq(S) /\ Len(Q[a]) = Len(A[a]) /\ \A i \in 1..Len(A[a]) : Q[a][i] = At(a, i)
    <2>1. PICK m \in Nat : m = Len(A[a])
      BY <1>4
    <2>2. Q[a] = [i \in 1..m |-> At(a, i)]
      BY <2>1
    <2>3. \A i \in 1..m : At(a, i) \in S
      BY <1>8, <2>1
    <2>4. [i \in 1..m |-> At(a, i)] \in Seq(S)
      BY <2>3
    <2>5. Len([i \in 1..m |-> At(a, i)]) = m
      OBVIOUS
    <2>6. \A i \in 1..m : [j \in 1..m |-> At(a, j)][i] = At(a, i)
      OBVIOUS
    <2> QED
      BY <2>1, <2>2, <2>4, <2>5, <2>6
  <1>10. Q \in Seq(Seq(S)) /\ Len(Q) = n
    <2>1. \A a \in 1..n : [i \in 1..Len(A[a]) |-> At(a, i)] \in Seq(S)
      BY <1>9
    <2>2. Q \in [1..n -> Seq(S)]
      BY <2>1
    <2>3. Len(Q) = n
      OBVIOUS
    <2> QED
      BY <2>2, <2>3
  <1> HIDE DEF Q
  <1>11. PICK q \in Seq(Seq(S)) : q = Q
    BY <1>10
  <1>12. Len(q) # 0
    BY <1>2, <1>10, <1>11
  <1>13. FlattenSeq(q) \in Seq(S) /\ \E off : LaidOut(q, FlattenSeq(q), off)
    BY <1>12, Flattened
  <1>14. PICK L \in Seq(S) : L = Linked(f) /\ \E off : LaidOut(q, L, off)
    BY <1>7, <1>11, <1>13
  <1>15. PICK off : LaidOut(q, L, off)
    BY <1>14
  <1>16. /\ off \in [1..(n + 1) -> Nat] /\ off[1] = 0 /\ Len(L) = off[n + 1] /\ Len(L) \in Nat
         /\ \A a \in 1..n : off[a + 1] = off[a] + Len(A[a])
         /\ \A a \in 1..n : \A i \in 1..Len(A[a]) : off[a] + i \in 1..Len(L) /\ L[off[a] + i] = At(a, i)
         /\ \A p \in 1..Len(L) : \E a \in 1..n : \E i \in 1..Len(A[a]) : p = off[a] + i
    <2>1. Len(q) = n /\ \A a \in 1..n : Len(q[a]) = Len(A[a]) /\ \A i \in 1..Len(A[a]) : q[a][i] = At(a, i)
      BY <1>9, <1>10, <1>11
    <2>2. Len(L) \in Nat
      BY DomainIs
    <2>3. /\ off \in [1..(n + 1) -> Nat] /\ off[1] = 0 /\ Len(L) = off[n + 1]
          /\ \A a \in 1..n : off[a + 1] = off[a] + Len(q[a])
      BY <1>15, <2>1 DEF LaidOut
    <2>4. ASSUME NEW a \in 1..n, NEW i \in 1..Len(A[a])
          PROVE  off[a] + i \in 1..Len(L) /\ L[off[a] + i] = At(a, i)
      <3>1. i \in 1..Len(q[a]) /\ q[a][i] = At(a, i)
        BY <2>1
      <3> QED
        BY <1>15, <2>1, <3>1 DEF LaidOut
    <2>5. ASSUME NEW p \in 1..Len(L) PROVE \E a \in 1..n : \E i \in 1..Len(A[a]) : p = off[a] + i
      <3>1. PICK a \in 1..n : \E i \in 1..Len(q[a]) : p = off[a] + i
        BY <1>15, <2>1 DEF LaidOut
      <3> QED
        BY <2>1, <3>1
    <2> QED
      BY <2>1, <2>2, <2>3, <2>4, <2>5
  <1>17. ASSUME NEW a \in 1..n, a > 1 PROVE off[a] >= 1
    <2>1. a - 1 \in 1..n /\ (a - 1) + 1 = a /\ n > 1
      BY <1>17
    <2>2. off[a] = off[a - 1] + Len(A[a - 1]) /\ off[a - 1] \in Nat /\ Len(A[a - 1]) \in Nat /\ Len(A[a - 1]) # 0
      <3>1. off[(a - 1) + 1] = off[a - 1] + Len(A[a - 1])
        BY <1>16, <2>1
      <3>2. off[a - 1] \in Nat
        BY <1>16, <2>1
      <3> QED
        BY <1>4, <2>1, <3>1, <3>2
    <2> QED
      BY <2>2
  <1>18. ASSUME NEW p \in 1..Len(L)
         PROVE  /\ L[p].said \in C /\ L[p].link \in {"WHERE", "AND", "OR"}
                /\ p = 1 => L[p].link = "WHERE"
                /\ p # 1 => L[p].link \in {"AND", "OR"}
    <2>1. PICK a \in 1..n : \E i \in 1..Len(A[a]) : p = off[a] + i
      BY <1>16
    <2>2. PICK i \in 1..Len(A[a]) : p = off[a] + i
      BY <2>1
    <2>3. L[p].said = A[a][i] /\ L[p].link = IF i > 1 THEN "AND" ELSE IF a > 1 THEN "OR" ELSE "WHERE"
      <3>1. L[p] = At(a, i)
        BY <1>16, <2>2
      <3>2. At(a, i).said = A[a][i] /\ At(a, i).link = IF i > 1 THEN "AND" ELSE IF a > 1 THEN "OR" ELSE "WHERE"
        BY <1>8
      <3> QED
        BY <3>1, <3>2
    <2>4. off[a] \in Nat /\ i \in Nat /\ i >= 1 /\ a \in Nat /\ a >= 1
      <3>1. PICK m \in Nat : m = Len(A[a])
        BY <1>4
      <3>2. i \in 1..m /\ a \in 1..(n + 1)
        BY <3>1
      <3> QED
        BY <1>16, <3>2
    <2>5. p = 1 => i = 1 /\ off[a] = 0
      BY <2>2, <2>4
    <2>6. p = 1 => ~(a > 1)
      BY <1>17, <2>5
    <2>7. p # 1 => i > 1 \/ a > 1
      BY <1>16, <2>2, <2>4
    <2> QED
      BY <1>5, <2>3, <2>5, <2>6, <2>7
  <1>19. ASSUME NEW c \in C PROVE \E p \in 1..Len(L) : L[p].said = c
    <2>1. PICK a \in 1..n : \E i \in 1..Len(A[a]) : c = A[a][i]
      BY <1>6
    <2>2. PICK i \in 1..Len(A[a]) : c = A[a][i]
      BY <2>1
    <2>3. off[a] + i \in 1..Len(L) /\ L[off[a] + i].said = c
      BY <1>8, <1>16, <2>2
    <2> QED
      BY <2>3
  <1>20. ASSUME n = 1 PROVE Len(L) = Len(A[1]) /\ \A p \in 1..Len(L) : L[p].said = A[1][p]
    <2>1. off[2] = off[1] + Len(A[1]) /\ Len(A[1]) \in Nat /\ off[1] = 0 /\ Len(L) = off[2] /\ 1 \in 1..n
      BY <1>4, <1>16, <1>20
    <2>2. Len(L) = Len(A[1])
      BY <2>1
    <2>3. ASSUME NEW p \in 1..Len(L) PROVE L[p].said = A[1][p]
      <3>1. p \in 1..Len(A[1]) /\ off[1] + p = p
        BY <2>1, <2>2
      <3>2. L[p] = At(1, p)
        BY <1>16, <2>1, <3>1
      <3> QED
        BY <1>8, <2>1, <3>1, <3>2
    <2> QED
      BY <2>2, <2>3
  <1>21. LinkedRight(f, L)
    <2>1. \A p \in 2..Len(L) : p \in 1..Len(L) /\ p # 1
      OBVIOUS
    <2>2. Len(L) >= 1 => 1 \in 1..Len(L)
      BY <1>16
    <2> QED
      BY <1>1, <1>2, <1>18, <1>19, <1>20, <2>1, <2>2 DEF LinkedRight, C
  <1> QED
    BY <1>14, <1>21

\* The tokens of the i-th key.
OrderSays(k, i, w) ==
  LET b == IF i = 1 THEN 2 ELSE 1
  IN  /\ Len(k.direction) \in 0..1 /\ Len(w) = b + 1 + Len(k.direction)
      /\ w[1] = IF i = 1 THEN "ORDER" ELSE Comma
      /\ i = 1 => w[2] = "BY"
      /\ w[b + 1] = k.property
      /\ Len(k.direction) = 1 => w[b + 2] = k.direction[1]

\* A key has tokens, and they are these.
LEMMA OrderPieceIs ==
  ASSUME NEW f, NEW i, OrderOK(f.orderBy[i])
  PROVE  OrderPiece(f, i) \in Seq(TextTokens) /\ OrderPiece(f, i) # <<>> /\ OrderSays(f.orderBy[i], i, OrderPiece(f, i))
  <1>1. PICK k : k = f.orderBy[i]
    OBVIOUS
  <1>2. /\ "ORDER" \in TextTokens
        /\ "BY" \in TextTokens
        /\ Comma \in TextTokens
        /\ "ASC" \in TextTokens
        /\ "DESC" \in TextTokens
    BY DEF TextTokens, TextSigns, Keywords
  <1>3. PICK b \in 1..2 : b = IF i = 1 THEN 2 ELSE 1
    OBVIOUS
  <1>4. PICK u \in Seq(TextTokens) :
          /\ u = IF i = 1 THEN <<"ORDER", "BY">> ELSE <<Comma>>
          /\ Len(u) = b /\ u[1] = IF i = 1 THEN "ORDER" ELSE Comma
          /\ i = 1 => u[2] = "BY"
    <2>1. CASE i = 1
      <3>1. <<"ORDER", "BY">> \in Seq(TextTokens) /\ Len(<<"ORDER", "BY">>) = 2
        BY <1>2
      <3>2. <<"ORDER", "BY">>[1] = "ORDER" /\ <<"ORDER", "BY">>[2] = "BY"
        OBVIOUS
      <3> QED
        BY <1>3, <2>1, <3>1, <3>2
    <2>2. CASE i # 1
      <3>1. PICK u \in Seq(TextTokens) : u = <<Comma>> /\ Len(u) = 1 /\ u[1] = Comma
        BY <1>2, OneIs
      <3> QED
        BY <1>3, <2>2, <3>1
    <2> QED
      BY <2>1, <2>2
  <1>5. PICK v \in Seq(TextTokens) : v = <<k.property>> /\ Len(v) = 1 /\ v[1] = k.property
    <2>1. k.property \in TextTokens
      BY <1>1 DEF OrderOK, TextTokens
    <2> QED
      BY <2>1, OneIs
  <1>6. PICK z \in Seq(TextTokens) : z = k.direction /\ Len(z) \in 0..1
    <2>1. <<>> \in Seq(TextTokens) /\ Len(<<>>) = 0
      OBVIOUS
    <2>2. <<"ASC">> \in Seq(TextTokens) /\ Len(<<"ASC">>) = 1
      BY <1>2
    <2>3. <<"DESC">> \in Seq(TextTokens) /\ Len(<<"DESC">>) = 1
      BY <1>2
    <2>4. k.direction = <<>> \/ k.direction = <<"ASC">> \/ k.direction = <<"DESC">>
      BY <1>1 DEF OrderOK
    <2>5. k.direction \in Seq(TextTokens) /\ (Len(k.direction) = 0 \/ Len(k.direction) = 1)
      BY <2>1, <2>2, <2>3, <2>4, Zenon
    <2>6. 0 \in 0..1 /\ 1 \in 0..1
      OBVIOUS
    <2>7. Len(k.direction) \in 0..1
      BY <2>5, <2>6, Zenon
    <2> QED
      BY <2>5, <2>7
  <1>7. PICK w \in Seq(TextTokens) : w = u \o v \o z /\ InThree(u, v, z, w)
    BY ConcatThree
  <1>8. OrderPiece(f, i) = w
    BY <1>1, <1>4, <1>5, <1>6, <1>7 DEF OrderPiece
  <1>9. PICK d \in 0..1 : d = Len(z)
    BY <1>6
  <1>10. /\ Len(w) = b + 1 + d /\ \A e \in 1..b : w[e] = u[e]
         /\ \A e \in 1..1 : w[b + e] = v[e]
         /\ \A e \in 1..d : w[b + 1 + e] = z[e]
    BY <1>4, <1>5, <1>7, <1>9 DEF InThree
  <1>11. w[1] = (IF i = 1 THEN "ORDER" ELSE Comma) /\ (i = 1 => w[2] = "BY") /\ w[b + 1] = k.property
    <2>1. 1 \in 1..b /\ (i = 1 => 2 \in 1..b) /\ 1 \in 1..1
      BY <1>3
    <2> QED
      BY <1>4, <1>5, <1>10, <2>1
  <1>12. d = 1 => w[b + 2] = k.direction[1]
    <2>1. d = 1 => 1 \in 1..d /\ b + 1 + 1 = b + 2
      OBVIOUS
    <2> QED
      BY <1>6, <1>10, <2>1
  <1>13. OrderSays(k, i, w)
    BY <1>3, <1>6, <1>9, <1>10, <1>11, <1>12 DEF OrderSays
  <1>14. w # <<>>
    BY <1>9, <1>10
  <1> QED
    BY <1>1, <1>8, <1>13, <1>14

\* A form's pieces: its columns, its type, its joins, its conditions, its order.
JoinsOf(f) == Len(f.joins)
CondsOf(f) == Len(Linked(f))
KeysOf(f) == Len(f.orderBy)

\* The pieces of a statement, clause by clause.
PiecesRight(f, P) ==
  /\ P \in Seq(Seq(TextTokens)) /\ Len(P) = 2 + JoinsOf(f) + CondsOf(f) + KeysOf(f)
  /\ P[1] = <<"SELECT">> \o f.columns /\ P[2] = <<"FROM", f.type>> \o f.alias
  /\ \A i \in 1..JoinsOf(f) : P[2 + i] = JoinPiece(f.joins[i])
  /\ \A i \in 1..CondsOf(f) : P[2 + JoinsOf(f) + i] = <<Linked(f)[i].link>> \o Words(Linked(f)[i].said)
  /\ \A i \in 1..KeysOf(f) : P[2 + JoinsOf(f) + CondsOf(f) + i] = OrderPiece(f, i)

\* What is in a list.
LEMMA InList ==
  ASSUME NEW s, IsList(s)
  PROVE  /\ Len(s) \in Nat /\ DOMAIN s = 1..Len(s) /\ s \in Seq(ToSet(s))
         /\ \A i \in 1..Len(s) : s[i] \in ToSet(s)
  <1>1. s \in Seq(ToSet(s))
    BY DEF IsList
  <1>2. Len(s) \in Nat /\ DOMAIN s = 1..Len(s)
    BY <1>1, DomainIs
  <1> QED
    BY <1>1, <1>2 DEF ToSet

\* Each condition is one of an alternative.
LEMMA ConditionsAreOK ==
  ASSUME NEW f, AlternativesOK(f), NEW c \in ConditionsOf(f)
  PROVE  ConditionOK(c)
  BY DEF ConditionsOf, AlternativesOK

\* None of the pieces is empty.
LEMMA PiecesAre ==
  ASSUME NEW f, FormOK(f)
  PROVE  PiecesRight(f, Pieces(f)) /\ \A i \in 1..Len(Pieces(f)) : Pieces(f)[i] # <<>>
  <1> DEFINE L == Linked(f)
  <1>1. PICK J \in Nat, W \in Nat, K \in Nat :
          /\ J = JoinsOf(f) /\ W = CondsOf(f) /\ K = KeysOf(f)
          /\ DOMAIN f.joins = 1..J /\ DOMAIN L = 1..W /\ DOMAIN f.orderBy = 1..K
    <2>1. Len(f.joins) \in Nat /\ DOMAIN f.joins = 1..Len(f.joins)
      BY InList DEF FormOK
    <2>2. Len(f.orderBy) \in Nat /\ DOMAIN f.orderBy = 1..Len(f.orderBy)
      BY InList DEF FormOK
    <2>3. Len(L) \in Nat /\ DOMAIN L = 1..Len(L)
      <3>1. PICK S : L \in Seq(S)
        BY LinkedIs DEF FormOK
      <3> QED
        BY <3>1, DomainIs
    <2> QED
      BY <2>1, <2>2, <2>3 DEF JoinsOf, CondsOf, KeysOf
  <1> DEFINE V == Seq(TextTokens)
             cond(i) == <<L[i].link>> \o Words(L[i].said)
  <1>2. PICK a \in V : a = <<"SELECT">> \o f.columns /\ a # <<>>
    <2>1. "SELECT" \in TextTokens
      BY DEF TextTokens, TextSigns
    <2>2. f.columns \in Seq(TextTokens)
      <3>1. f.columns \in Seq(STRING)
        BY DEF FormOK, ColumnsOK
      <3> QED
        BY <3>1, SeqWider DEF TextTokens
    <2> QED
      BY <2>1, <2>2, SetOfConcat
  <1>3. PICK b \in V : b = <<"FROM", f.type>> \o f.alias /\ b # <<>>
    <2>1. "FROM" \in TextTokens /\ f.type \in TextTokens
      BY DEF TextTokens, TextSigns, FormOK
    <2>2. PICK u \in Seq(TextTokens) : u = <<"FROM", f.type>> /\ Len(u) = 2
      <3>1. <<"FROM", f.type>> \in Seq(TextTokens) /\ Len(<<"FROM", f.type>>) = 2
        BY <2>1
      <3> QED
        BY <3>1
    <2>3. PICK v \in Seq(TextTokens) : v = f.alias
      <3>1. f.alias \in Seq(STRING \ Keywords)
        BY DEF FormOK, NoneOrOne
      <3>2. f.alias \in Seq(TextTokens)
        BY <3>1, SeqWider DEF TextTokens
      <3> QED
        BY <3>2
    <2>4. u \o v \in Seq(TextTokens) /\ Len(u \o v) = 2 + Len(v) /\ Len(v) \in Nat
      BY <2>2, ConcatIs
    <2>5. PICK w \in Seq(TextTokens) : w = u \o v /\ Len(w) # 0
      <3>1. 2 + Len(v) # 0
        BY <2>4
      <3> QED
        BY <2>4, <3>1
    <2>6. w # <<>>
      BY <2>5
    <2> QED
      BY <2>2, <2>3, <2>5, <2>6
  <1>4. \A i \in 1..J : JoinPiece(f.joins[i]) \in V /\ JoinPiece(f.joins[i]) # <<>>
    <2> TAKE i \in 1..J
    <2>1. JoinOK(f.joins[i])
      BY <1>1, InList DEF FormOK, JoinsOf
    <2> QED
      BY <2>1, JoinPieceIs
  <1>5. \A i \in 1..W : cond(i) \in V /\ cond(i) # <<>>
    <2> TAKE i \in 1..W
    <2>1. L[i].said \in ConditionsOf(f) /\ L[i].link \in {"WHERE", "AND", "OR"}
      BY <1>1, LinkedIs DEF FormOK, LinkedRight, CondsOf
    <2>2. Words(L[i].said) \in Seq(TextTokens)
      BY <2>1, ConditionsAreOK, WordsAre DEF FormOK
    <2>3. L[i].link \in TextTokens
      BY <2>1 DEF TextTokens, TextSigns, Keywords
    <2>4. PICK x \in TextTokens, s \in Seq(TextTokens) : x = L[i].link /\ s = Words(L[i].said)
      BY <2>2, <2>3
    <2>5. <<x>> \o s # <<>> /\ <<x>> \o s \in Seq(TextTokens)
      BY SetOfConcat
    <2> QED
      BY <2>4, <2>5
  <1>6. \A i \in 1..K : OrderPiece(f, i) \in V /\ OrderPiece(f, i) # <<>>
    <2> TAKE i \in 1..K
    <2>1. OrderOK(f.orderBy[i])
      BY <1>1, InList DEF FormOK, KeysOf
    <2> QED
      BY <2>1, OrderPieceIs
  <1> HIDE DEF V, cond, L
  <1>7. PICK u \in Seq(V) : u = <<a, b>> /\ Len(u) = 2 /\ u[1] = a /\ u[2] = b
    <2>1. <<a, b>> \in Seq(V)
      OBVIOUS
    <2>2. Len(<<a, b>>) = 2 /\ <<a, b>>[1] = a /\ <<a, b>>[2] = b
      OBVIOUS
    <2> QED
      BY <2>1, <2>2
  <1>8. PICK v \in Seq(V) : v = [i \in 1..J |-> JoinPiece(f.joins[i])] /\ Len(v) = J
    <2>1. \A i \in 1..J : JoinPiece(f.joins[i]) \in V
      BY <1>4
    <2>2. [i \in 1..J |-> JoinPiece(f.joins[i])] \in Seq(V)
      BY <2>1
    <2>3. Len([i \in 1..J |-> JoinPiece(f.joins[i])]) = J
      OBVIOUS
    <2> QED
      BY <2>2, <2>3
  <1>9. PICK z \in Seq(V) : z = [i \in 1..W |-> cond(i)] /\ Len(z) = W
    <2>1. \A i \in 1..W : cond(i) \in V
      BY <1>5
    <2>2. [i \in 1..W |-> cond(i)] \in Seq(V)
      BY <2>1
    <2>3. Len([i \in 1..W |-> cond(i)]) = W
      OBVIOUS
    <2> QED
      BY <2>2, <2>3
  <1>10. PICK y \in Seq(V) : y = [i \in 1..K |-> OrderPiece(f, i)] /\ Len(y) = K
    <2>1. \A i \in 1..K : OrderPiece(f, i) \in V
      BY <1>6
    <2>2. [i \in 1..K |-> OrderPiece(f, i)] \in Seq(V)
      BY <2>1
    <2>3. Len([i \in 1..K |-> OrderPiece(f, i)]) = K
      OBVIOUS
    <2> QED
      BY <2>2, <2>3
  <1>11. PICK P \in Seq(V) : P = u \o v \o z \o y /\ InFour(u, v, z, y, P)
    BY ConcatFour
  <1>12. Pieces(f) = P
    <2>1. /\ v = [i \in DOMAIN f.joins |-> JoinPiece(f.joins[i])]
          /\ y = [i \in DOMAIN f.orderBy |-> OrderPiece(f, i)]
      BY <1>1, <1>8, <1>10
    <2>2. z = [i \in DOMAIN Linked(f) |-> <<Linked(f)[i].link>> \o Words(Linked(f)[i].said)]
      BY <1>1, <1>9 DEF cond, L
    <2> QED
      BY <1>2, <1>3, <1>7, <1>11, <2>1, <2>2 DEF Pieces
  <1>13. /\ Len(P) = 2 + J + W + K
         /\ \A i \in 1..2 : P[i] = u[i]
         /\ \A i \in 1..J : P[2 + i] = v[i]
         /\ \A i \in 1..W : P[2 + J + i] = z[i]
         /\ \A i \in 1..K : P[2 + J + W + i] = y[i]
    BY <1>7, <1>8, <1>9, <1>10, <1>11 DEF InFour
  <1>14. P[1] = a /\ P[2] = b
    <2>1. 1 \in 1..2 /\ 2 \in 1..2
      OBVIOUS
    <2> QED
      BY <1>7, <1>13, <2>1
  <1>15. \A i \in 1..J : P[2 + i] = JoinPiece(f.joins[i])
    BY <1>8, <1>13
  <1>16. \A i \in 1..W : P[2 + J + i] = cond(i)
    BY <1>9, <1>13
  <1>17. \A i \in 1..K : P[2 + J + W + i] = OrderPiece(f, i)
    BY <1>10, <1>13
  <1>18. PiecesRight(f, P)
    BY <1>1, <1>2, <1>3, <1>13, <1>14, <1>15, <1>16, <1>17 DEF PiecesRight, V, cond, L
  <1>19. ASSUME NEW i \in 1..Len(P) PROVE P[i] # <<>>
    <2>1. CASE i \in 1..2
      <3>1. i = 1 \/ i = 2
        BY <2>1
      <3>2. P[1] # <<>> /\ P[2] # <<>>
        BY <1>2, <1>3, <1>14
      <3> QED
        BY <3>1, <3>2
    <2>2. CASE i \in 3..(2 + J)
      <3>1. i - 2 \in 1..J /\ 2 + (i - 2) = i
        BY <2>2
      <3> QED
        BY <1>4, <1>15, <3>1
    <2>3. CASE i \in (3 + J)..(2 + J + W)
      <3>1. i - 2 - J \in 1..W /\ 2 + J + (i - 2 - J) = i
        BY <2>3
      <3> QED
        BY <1>5, <1>16, <3>1
    <2>4. CASE i \in (3 + J + W)..(2 + J + W + K)
      <3>1. i - 2 - J - W \in 1..K /\ 2 + J + W + (i - 2 - J - W) = i
        BY <2>4
      <3> QED
        BY <1>6, <1>17, <3>1
    <2> QED
      BY <1>13, <2>1, <2>2, <2>3, <2>4
  <1> QED
    BY <1>12, <1>18, <1>19

-----------------------------------------------------------------------------
(***************************************************************************)
(* The pieces lie in the text one behind the other, and each begins with a *)
(* word the parser tells its clause by.                                    *)
(***************************************************************************)
\* A text in its pieces, each at its start.
LaidIn(P, t, st) ==
  /\ st \in [1..(Len(P) + 1) -> 1..(Len(t) + 1)] /\ st[1] = 1 /\ st[Len(P) + 1] = Len(t) + 1
  /\ \A i \in 1..Len(P) : WordsAt(t, st[i], P[i]) /\ st[i + 1] = st[i] + Len(P[i])
  /\ \A i \in 1..(Len(P) + 1) : TokAt(t, st[i]) = HeadOf(P, i)

\* So are the pieces in the text.
LEMMA TextLaid ==
  ASSUME NEW f, FormOK(f)
  PROVE  Text(f) \in Seq(TextTokens) /\ \E st : LaidIn(Pieces(f), Text(f), st)
  <1>1. PICK P \in Seq(Seq(TextTokens)) :
          P = Pieces(f) /\ (\A i \in 1..Len(P) : P[i] # <<>>) /\ PiecesRight(f, P)
    BY PiecesAre DEF PiecesRight
  <1>2. PICK n \in Nat : n = Len(P) /\ n # 0
    <2>1. JoinsOf(f) \in Nat /\ CondsOf(f) \in Nat /\ KeysOf(f) \in Nat
      <3>1. PICK S : Linked(f) \in Seq(S)
        BY LinkedIs DEF FormOK
      <3>2. Len(Linked(f)) \in Nat
        BY <3>1, DomainIs
      <3>3. Len(f.joins) \in Nat /\ Len(f.orderBy) \in Nat
        BY InList DEF FormOK
      <3> QED
        BY <3>2, <3>3 DEF JoinsOf, CondsOf, KeysOf
    <2>2. Len(P) = 2 + JoinsOf(f) + CondsOf(f) + KeysOf(f)
      BY <1>1 DEF PiecesRight
    <2> QED
      BY <2>1, <2>2
  <1>3. FlattenSeq(P) \in Seq(TextTokens) /\ \E off : LaidOut(P, FlattenSeq(P), off)
    BY <1>2, Flattened
  <1>4. PICK t \in Seq(TextTokens) : t = Text(f) /\ \E off : LaidOut(P, t, off)
    BY <1>1, <1>3 DEF Text
  <1>5. PICK off : LaidOut(P, t, off)
    BY <1>4
  <1>6. PICK m \in Nat : m = Len(t)
    BY DomainIs
  <1>7. /\ off \in [1..(n + 1) -> Nat] /\ off[1] = 0 /\ off[n + 1] = m
        /\ \A i \in 1..n :
             /\ off[i + 1] = off[i] + Len(P[i])
             /\ \A j \in 1..Len(P[i]) :
                  off[i] + j \in 1..Len(t) /\ t[off[i] + j] = P[i][j] /\ TokAt(t, off[i] + j) = P[i][j]
        /\ \A i \in 1..(n + 1) : off[i] <= m /\ TokAt(t, off[i] + 1) = HeadOf(P, i)
    <2>1. LaidTokens(P, t, off)
      BY <1>1, <1>5, TokensLaid
    <2> QED
      BY <1>2, <1>6, <2>1 DEF LaidTokens
  <1> DEFINE st == [i \in 1..(n + 1) |-> off[i] + 1]
  <1>8. \A i \in 1..(n + 1) : st[i] = off[i] + 1 /\ off[i] \in Nat /\ st[i] \in 1..(m + 1)
    <2> TAKE i \in 1..(n + 1)
    <2>1. off[i] \in Nat /\ off[i] <= m
      BY <1>7
    <2>2. st[i] = off[i] + 1
      OBVIOUS
    <2>3. off[i] + 1 \in 1..(m + 1)
      BY <2>1
    <2> QED
      BY <2>1, <2>2, <2>3
  <1>9. st \in [1..(n + 1) -> 1..(m + 1)]
    BY <1>8
  <1> HIDE DEF st
  <1>10. ASSUME NEW i \in 1..n PROVE WordsAt(t, st[i], P[i]) /\ st[i + 1] = st[i] + Len(P[i])
    <2>1. i \in 1..(n + 1) /\ i + 1 \in 1..(n + 1)
      OBVIOUS
    <2>2. P[i] \in Seq(TextTokens)
      BY <1>2
    <2>3. PICK k \in Nat : k = Len(P[i])
      BY <2>2, DomainIs
    <2>4. st[i] = off[i] + 1 /\ st[i + 1] = off[i + 1] + 1 /\ off[i] \in Nat
      BY <1>8, <2>1
    <2>5. ASSUME NEW j \in 1..k
          PROVE  st[i] + j - 1 \in 1..Len(t) /\ t[st[i] + j - 1] = P[i][j] /\ TokAt(t, st[i] + j - 1) = P[i][j]
      <3>1. st[i] + j - 1 = off[i] + j
        BY <2>4
      <3>2. j \in 1..Len(P[i])
        BY <2>3
      <3> QED
        BY <1>7, <3>1, <3>2
    <2>6. st[i + 1] = st[i] + k
      <3>1. off[i + 1] = off[i] + k
        BY <1>7, <2>3
      <3>2. (off[i] + k) + 1 = (off[i] + 1) + k
        BY <2>4
      <3> QED
        BY <2>4, <3>1, <3>2
    <2> QED
      BY <2>3, <2>5, <2>6 DEF WordsAt
  <1>11. ASSUME NEW i \in 1..(n + 1) PROVE TokAt(t, st[i]) = HeadOf(P, i)
    BY <1>7, <1>8
  <1>12. st[1] = 1 /\ st[n + 1] = m + 1
    <2>1. 1 \in 1..(n + 1) /\ n + 1 \in 1..(n + 1)
      OBVIOUS
    <2> QED
      BY <1>7, <1>8, <2>1
  <1>13. LaidIn(P, t, st)
    BY <1>2, <1>6, <1>9, <1>10, <1>11, <1>12 DEF LaidIn
  <1> QED
    BY <1>1, <1>4, <1>13

\* The words its pieces begin with.
HeadsRight(P, J, W, K) ==
  /\ J \in Nat /\ W \in Nat /\ K \in Nat /\ Len(P) = 2 + J + W + K
  /\ \A i \in 3..(2 + J) : HeadOf(P, i) \in {"JOIN", "LEFT", "INNER"}
  /\ W > 0 => HeadOf(P, 3 + J) = "WHERE"
  /\ \A i \in (4 + J)..(2 + J + W) : HeadOf(P, i) \in {"AND", "OR"}
  /\ HeadOf(P, 3 + J + W) = IF K > 0 THEN "ORDER" ELSE "end_of_text"
  /\ \A i \in (4 + J + W)..(2 + J + W + K) : HeadOf(P, i) = Comma
  /\ HeadOf(P, 3 + J + W + K) = "end_of_text"

\* Each piece begins as its clause does.
LEMMA HeadsAre ==
  ASSUME NEW f, FormOK(f), NEW P, P = Pieces(f)
  PROVE  HeadsRight(P, JoinsOf(f), CondsOf(f), KeysOf(f))
  <1>1. PICK J \in Nat, W \in Nat, K \in Nat : J = JoinsOf(f) /\ W = CondsOf(f) /\ K = KeysOf(f)
    <2>1. PICK S : Linked(f) \in Seq(S)
      BY LinkedIs DEF FormOK
    <2>2. Len(Linked(f)) \in Nat
      BY <2>1, DomainIs
    <2>3. Len(f.joins) \in Nat /\ Len(f.orderBy) \in Nat
      BY InList DEF FormOK
    <2> QED
      BY <2>2, <2>3 DEF JoinsOf, CondsOf, KeysOf
  <1>2. /\ Len(P) = 2 + J + W + K
        /\ \A i \in 1..J : P[2 + i] = JoinPiece(f.joins[i])
        /\ \A i \in 1..W : P[2 + J + i] = <<Linked(f)[i].link>> \o Words(Linked(f)[i].said)
        /\ \A i \in 1..K : P[2 + J + W + i] = OrderPiece(f, i)
    BY <1>1, PiecesAre DEF PiecesRight
  <1>3. ASSUME NEW i \in 3..(2 + J) PROVE HeadOf(P, i) \in {"JOIN", "LEFT", "INNER"}
    <2>1. i - 2 \in 1..J /\ 2 + (i - 2) = i /\ i \in 1..Len(P)
      BY <1>2
    <2>2. PICK j : j = f.joins[i - 2] /\ JoinOK(j)
      BY <1>1, <2>1, InList DEF FormOK, JoinsOf
    <2>3. JoinSays(j, JoinPiece(j))
      BY <2>2, JoinPieceIs
    <2>4. JoinPiece(j)[1] = j.how[1]
      <3>1. \A h \in 1..2 : 1 \in 1..h
        OBVIOUS
      <3> QED
        BY <2>3, <3>1 DEF JoinSays
    <2>5. j.how[1] \in {"JOIN", "LEFT", "INNER"}
      <3>1. <<"JOIN">>[1] = "JOIN" /\ <<"LEFT", "JOIN">>[1] = "LEFT" /\ <<"INNER", "JOIN">>[1] = "INNER"
        OBVIOUS
      <3>2. j.how = <<"JOIN">> \/ j.how = <<"LEFT", "JOIN">> \/ j.how = <<"INNER", "JOIN">>
        BY <2>2 DEF JoinOK
      <3> QED
        BY <3>1, <3>2, Zenon
    <2> QED
      BY <1>2, <2>1, <2>2, <2>4, <2>5 DEF HeadOf
  <1>4. ASSUME NEW i \in 1..W
        PROVE  HeadOf(P, 2 + J + i) = Linked(f)[i].link
    <2>1. 2 + J + i \in 1..Len(P)
      BY <1>2
    <2>2. Linked(f)[i].said \in ConditionsOf(f) /\ Linked(f)[i].link \in {"WHERE", "AND", "OR"}
      BY <1>1, LinkedIs DEF FormOK, LinkedRight, CondsOf
    <2>3. Words(Linked(f)[i].said) \in Seq(TextTokens)
      BY <2>2, ConditionsAreOK, WordsAre DEF FormOK
    <2>4. Linked(f)[i].link \in TextTokens
      BY <2>2 DEF TextTokens, TextSigns, Keywords
    <2>5. PICK x \in TextTokens, s \in Seq(TextTokens) : x = Linked(f)[i].link /\ s = Words(Linked(f)[i].said)
      BY <2>3, <2>4
    <2>6. PICK u \in Seq(TextTokens) : u = <<x>> /\ Len(u) = 1 /\ u[1] = x
      BY OneIs
    <2>7. (u \o s)[1] = x
      <3>1. \A e \in 1..Len(u) : (u \o s)[e] = u[e]
        BY ConcatIs
      <3>2. 1 \in 1..Len(u)
        BY <2>6
      <3> QED
        BY <2>6, <3>1, <3>2
    <2> QED
      BY <1>2, <2>1, <2>5, <2>6, <2>7 DEF HeadOf
  <1>5. W > 0 => HeadOf(P, 3 + J) = "WHERE"
    <2>1. W > 0 => 1 \in 1..W /\ 2 + J + 1 = 3 + J /\ Linked(f)[1].link = "WHERE"
      BY <1>1, LinkedIs DEF FormOK, LinkedRight, CondsOf
    <2> QED
      BY <1>4, <2>1
  <1>6. ASSUME NEW i \in (4 + J)..(2 + J + W) PROVE HeadOf(P, i) \in {"AND", "OR"}
    <2>1. i - 2 - J \in 2..W /\ i - 2 - J \in 1..W /\ 2 + J + (i - 2 - J) = i
      OBVIOUS
    <2>2. Linked(f)[i - 2 - J].link \in {"AND", "OR"}
      BY <1>1, <2>1, LinkedIs DEF FormOK, LinkedRight, CondsOf
    <2> QED
      BY <1>4, <2>1, <2>2
  <1>7. ASSUME NEW i \in 1..K
        PROVE  HeadOf(P, 2 + J + W + i) = IF i = 1 THEN "ORDER" ELSE Comma
    <2>1. 2 + J + W + i \in 1..Len(P)
      BY <1>2
    <2>2. OrderOK(f.orderBy[i])
      BY <1>1, InList DEF FormOK, KeysOf
    <2>3. OrderSays(f.orderBy[i], i, OrderPiece(f, i))
      BY <2>2, OrderPieceIs
    <2> QED
      BY <1>2, <2>1, <2>3 DEF HeadOf, OrderSays
  <1>8. HeadOf(P, 3 + J + W + K) = "end_of_text"
    BY <1>2 DEF HeadOf
  <1>9. HeadOf(P, 3 + J + W) = IF K > 0 THEN "ORDER" ELSE "end_of_text"
    <2>1. CASE K > 0
      <3>1. 1 \in 1..K /\ 2 + J + W + 1 = 3 + J + W
        BY <2>1
      <3> QED
        BY <1>7, <2>1, <3>1
    <2>2. CASE ~(K > 0)
      <3>1. 3 + J + W + K = 3 + J + W
        BY <2>2
      <3> QED
        BY <1>8, <2>2, <3>1
    <2> QED
      BY <2>1, <2>2
  <1>10. ASSUME NEW i \in (4 + J + W)..(2 + J + W + K) PROVE HeadOf(P, i) = Comma
    <2>1. i - 2 - J - W \in 1..K /\ 2 + J + W + (i - 2 - J - W) = i /\ i - 2 - J - W # 1
      OBVIOUS
    <2> QED
      BY <1>7, <2>1
  <1> QED
    BY <1>1, <1>2, <1>3, <1>5, <1>6, <1>8, <1>9, <1>10 DEF HeadsRight

-----------------------------------------------------------------------------
(***************************************************************************)
(* FROM and the JOINs.                                                     *)
(***************************************************************************)
\* Where a clause begins, or the text is over.
ClauseAt(t, x) == x = Len(t) + 1 \/ (x \in 1..Len(t) /\ t[x] \in ClauseWords /\ TokAt(t, x) = t[x])

\* Behind the JOINs begins a clause.
LEMMA ClausesAt ==
  ASSUME NEW P, NEW J, NEW W, NEW K, HeadsRight(P, J, W, K), NEW t \in Seq(TextTokens), NEW st, LaidIn(P, t, st),
         NEW i \in 3..(3 + J)
  PROVE  ClauseAt(t, st[i]) /\ st[i] \in Nat
  <1>1. J \in Nat /\ W \in Nat /\ K \in Nat /\ Len(P) = 2 + J + W + K
    BY DEF HeadsRight
  <1>2. i \in 1..(Len(P) + 1) /\ st[i] \in 1..(Len(t) + 1) /\ TokAt(t, st[i]) = HeadOf(P, i)
    BY <1>1 DEF LaidIn
  <1>3. PICK x \in 1..(Len(t) + 1) : x = st[i]
    BY <1>2
  <1>4. ASSUME HeadOf(P, i) \in ClauseWords PROVE ClauseAt(t, x)
    <2>1. TokAt(t, x) # "end_of_text"
      BY <1>2, <1>3, <1>4 DEF ClauseWords
    <2>2. x \in 1..Len(t) /\ TokAt(t, x) = t[x]
      BY <2>1, TokAtIn
    <2> QED
      BY <1>2, <1>3, <1>4, <2>2 DEF ClauseAt
  <1>5. CASE i \in 3..(2 + J)
    BY <1>3, <1>4, <1>5 DEF HeadsRight, ClauseWords
  <1>6. CASE i = 3 + J /\ W > 0
    BY <1>3, <1>4, <1>6 DEF HeadsRight, ClauseWords
  <1>7. CASE i = 3 + J /\ W = 0 /\ K > 0
    <2>1. 3 + J + W = i
      BY <1>1, <1>7
    <2> QED
      BY <1>3, <1>4, <1>7, <2>1 DEF HeadsRight, ClauseWords
  <1>8. CASE i = 3 + J /\ W = 0 /\ K = 0
    <2>1. i = Len(P) + 1
      BY <1>1, <1>8
    <2> QED
      BY <1>3, <2>1 DEF LaidIn, ClauseAt
  <1> QED
    BY <1>1, <1>5, <1>6, <1>7, <1>8

\* An alias is read over where there is one.
LEMMA AliasRead ==
  ASSUME NEW S, NEW t \in Seq(S), NEW x \in Nat, NEW alias, NoneOrOne(alias), NEW a \in Nat, a = Len(alias),
         a = 1 => x \in 1..Len(t) /\ t[x] = alias[1],
         a = 0 => (x \in 1..Len(t) /\ t[x] = "ON") \/ ClauseAt(t, x)
  PROVE  PastAlias(t, x) = x + a
  <1>1. alias \in Seq(STRING \ Keywords) /\ (a = 0 \/ a = 1)
    BY DEF NoneOrOne
  <1>2. CASE a = 1
    <2>1. alias[1] \notin Keywords
      <3>1. PICK v \in Seq(STRING \ Keywords) : v = alias
        BY <1>1
      <3>2. 1 \in 1..Len(v)
        <4>1. Len(v) = a /\ a = 1
          BY <1>2, <3>1
        <4>2. 1 \in 1..1
          OBVIOUS
        <4> QED
          BY <4>1, <4>2, Zenon
      <3>3. v[1] \in STRING \ Keywords
        BY <3>2, ElementOfSeq
      <3> QED
        BY <3>1, <3>3
    <2>2. ~isKeyword(t[x]) /\ x <= Len(t)
      BY <1>2, <2>1 DEF isKeyword, Keywords
    <2> QED
      BY <1>2, <2>2 DEF PastAlias
  <1>3. CASE a = 0
    <2>1. ~(x <= Len(t) /\ ~isKeyword(t[x]))
      <3>1. Len(t) \in Nat
        BY DomainIs
      <3> QED
        BY <1>3, <3>1 DEF ClauseAt, ClauseWords, isKeyword
    <2> QED
      BY <1>3, <2>1 DEF PastAlias
  <1> QED
    BY <1>1, <1>2, <1>3

\* A JOIN is read over as a whole.
LEMMA JoinRead ==
  ASSUME NEW t \in Seq(TextTokens), NEW x \in Nat, NEW j, JoinOK(j), WordsAt(t, x, JoinPiece(j)),
         NEW y \in Nat, y = x + Len(JoinPiece(j)), ClauseAt(t, y)
  PROVE  PastJoin(t, x) = y
  <1>1. PICK w \in Seq(TextTokens) : w = JoinPiece(j) /\ JoinSays(j, w) /\ WordsAt(t, x, w) /\ y = x + Len(w)
    BY JoinPieceIs
  <1>2. PICK h \in 1..2, a \in 0..1 : h = Len(j.how) /\ a = Len(j.alias)
    BY <1>1 DEF JoinSays
  <1>3. j.on \in Seq(STRING \ ClauseWords) /\ NoneOrOne(j.alias)
    BY DEF JoinOK
  <1>4. PICK on \in Seq(STRING \ ClauseWords), m \in Nat : on = j.on /\ m = Len(on)
    BY <1>3, DomainIs
  <1>5. /\ Len(w) = h + 1 + a + (IF on = <<>> THEN 0 ELSE 1 + m)
        /\ \A i \in 1..h : w[i] = j.how[i]
        /\ a = 1 => w[h + 2] = j.alias[1]
        /\ on # <<>> => w[h + a + 2] = "ON" /\ \A i \in 1..m : w[h + a + 2 + i] = on[i]
    BY <1>1, <1>2, <1>4 DEF JoinSays
  <1>6. PICK n \in Nat : n = Len(w) /\ n = h + 1 + a + (IF on = <<>> THEN 0 ELSE 1 + m) /\ y = x + n
    BY <1>1, <1>5, DomainIs
  <1>7. \A i \in 1..n : x + i - 1 \in 1..Len(t) /\ t[x + i - 1] = w[i] /\ TokAt(t, x + i - 1) = w[i]
    BY <1>1, <1>6 DEF WordsAt
  <1>8. Past(t, IF t[x] = "JOIN" THEN x ELSE x + 1, "JOIN") = x + h
    <2>1. <<"JOIN">>[1] = "JOIN" /\ Len(<<"JOIN">>) = 1
      OBVIOUS
    <2>2. /\ <<"LEFT", "JOIN">>[1] = "LEFT" /\ <<"LEFT", "JOIN">>[2] = "JOIN" /\ Len(<<"LEFT", "JOIN">>) = 2
          /\ <<"INNER", "JOIN">>[1] = "INNER" /\ <<"INNER", "JOIN">>[2] = "JOIN" /\ Len(<<"INNER", "JOIN">>) = 2
      OBVIOUS
    <2>3. j.how = <<"JOIN">> \/ j.how = <<"LEFT", "JOIN">> \/ j.how = <<"INNER", "JOIN">>
      BY DEF JoinOK
    <2>4. 1 \in 1..n /\ x + 1 - 1 = x /\ 1 \in 1..h /\ (h = 2 => 2 \in 1..n /\ 2 \in 1..h /\ x + 2 - 1 = x + 1)
      BY <1>6
    <2>5. t[x] = j.how[1] /\ TokAt(t, x) = j.how[1] /\ (h = 2 => TokAt(t, x + 1) = j.how[2])
      BY <1>5, <1>7, <2>4
    <2>6. CASE j.how = <<"JOIN">>
      <3>1. h = 1 /\ t[x] = "JOIN" /\ TokAt(t, x) = "JOIN"
        BY <1>2, <2>1, <2>5, <2>6
      <3> QED
        BY <3>1 DEF Past
    <2>7. CASE j.how = <<"LEFT", "JOIN">> \/ j.how = <<"INNER", "JOIN">>
      <3>1. h = 2 /\ t[x] # "JOIN" /\ TokAt(t, x + 1) = "JOIN"
        BY <1>2, <2>2, <2>5, <2>7
      <3>2. (x + 1) + 1 = x + 2
        OBVIOUS
      <3> QED
        BY <3>1, <3>2 DEF Past
    <2> QED
      BY <2>3, <2>6, <2>7
  <1>9. PICK k \in Nat : k = (x + h) + 1 /\ k = x + h + 1
    OBVIOUS
  <1>10. on # <<>> => k + a \in 1..Len(t) /\ t[k + a] = "ON" /\ TokAt(t, k + a) = "ON"
    <2>1. on # <<>> => h + a + 2 \in 1..n /\ x + (h + a + 2) - 1 = k + a
      BY <1>6, <1>9
    <2> QED
      BY <1>5, <1>7, <2>1
  <1>11. PastAlias(t, k) = k + a
    <2>1. ASSUME a = 1 PROVE k \in 1..Len(t) /\ t[k] = j.alias[1]
      <3>1. h + 2 \in 1..n /\ x + (h + 2) - 1 = k
        BY <1>6, <1>9, <2>1
      <3> QED
        BY <1>5, <1>7, <2>1, <3>1
    <2>2. ASSUME a = 0 PROVE (k \in 1..Len(t) /\ t[k] = "ON") \/ ClauseAt(t, k)
      <3>1. CASE on # <<>>
        <4>1. k + a = k
          BY <2>2
        <4> QED
          BY <1>10, <3>1, <4>1
      <3>2. CASE on = <<>>
        <4>1. k = y
          BY <1>6, <1>9, <2>2, <3>2
        <4> QED
          BY <4>1
      <3> QED
        BY <3>1, <3>2
    <2>3. a \in Nat
      OBVIOUS
    <2> QED
      BY <1>2, <1>3, <2>1, <2>2, <2>3, AliasRead
  <1>12. PastJoin(t, x) =
           IF TokAt(t, k + a) = "ON" THEN Upto(t, k + a, {"WHERE", "ORDER", "JOIN", "LEFT", "INNER"}) ELSE k + a
    BY <1>8, <1>9, <1>11 DEF PastJoin
  <1>13. CASE on = <<>>
    <2>1. k + a = y
      BY <1>6, <1>9, <1>13
    <2>2. TokAt(t, y) # "ON"
      <3>1. CASE y = Len(t) + 1
        <4>1. y \notin 1..Len(t)
          BY <3>1, DomainIs
        <4>2. TokAt(t, y) = "end_of_text"
          BY <4>1, TokAtIn
        <4> QED
          BY <4>2
      <3>2. CASE y # Len(t) + 1
        BY <3>2 DEF ClauseAt, ClauseWords
      <3> QED
        BY <3>1, <3>2
    <2> QED
      BY <1>12, <2>1, <2>2
  <1>14. CASE on # <<>>
    <2>1. PICK c : c = {"WHERE", "ORDER", "JOIN", "LEFT", "INNER"} /\ c = ClauseWords
      BY DEF ClauseWords
    <2>2. PICK q \in 1..(Len(t) + 1) : q = k + a /\ q <= Len(t)
      BY <1>10, <1>14
    <2>3. y = q + 1 + m
      BY <1>6, <1>9, <1>14, <2>2
    <2>4. y \in q..(Len(t) + 1) /\ (y <= Len(t) => t[y] \in c)
      <3>1. y \in 1..(Len(t) + 1) /\ (y <= Len(t) => t[y] \in c)
        <4>1. Len(t) \in Nat
          BY DomainIs
        <4> QED
          BY <2>1, <4>1 DEF ClauseAt
      <3> QED
        BY <2>3, <3>1
    <2>5. ASSUME NEW e \in q..(y - 1) PROVE t[e] \notin c
      <3>1. CASE e = q
        BY <1>10, <1>14, <2>1, <2>2, <3>1
      <3>2. CASE e # q
        <4>1. e - q \in 1..m /\ h + a + 2 + (e - q) \in 1..n /\ x + (h + a + 2 + (e - q)) - 1 = e
          BY <1>6, <1>9, <1>14, <2>2, <2>3, <3>2
        <4>2. t[e] = on[e - q]
          BY <1>5, <1>7, <1>14, <4>1
        <4>3. on[e - q] \notin ClauseWords
          BY <1>4, <4>1
        <4> QED
          BY <2>1, <4>2, <4>3
      <3> QED
        BY <3>1, <3>2
    <2>6. Upto(t, q, c) = y
      BY <2>4, <2>5, UptoIs
    <2> QED
      BY <1>10, <1>12, <1>14, <2>1, <2>2, <2>6
  <1> QED
    BY <1>13, <1>14

\* From SELECT to the first clause.
FromRight(f, t, st) ==
  LET from == IF TokAt(t, 2) = "*" THEN 3 ELSE Upto(t, 2, {"FROM"})
  IN  /\ TokAt(t, 1) = "SELECT" /\ TokAt(t, from) = "FROM" /\ from # Len(t)
      /\ t[from + 1] = f.type /\ PastAlias(t, from + 2) = st[3]

\* SELECT and FROM are read up to the JOINs.
LEMMA FromRead ==
  ASSUME NEW f, FormOK(f), NEW t \in Seq(TextTokens), NEW P, P = Pieces(f), NEW st, LaidIn(P, t, st)
  PROVE  FromRight(f, t, st)
  <1>1. PICK J, W, K : J = JoinsOf(f) /\ W = CondsOf(f) /\ K = KeysOf(f)
    OBVIOUS
  <1>2. HeadsRight(P, J, W, K)
    BY <1>1, HeadsAre
  <1>3. J \in Nat /\ W \in Nat /\ K \in Nat /\ Len(P) = 2 + J + W + K
    BY <1>2 DEF HeadsRight
  <1>4. PICK T \in Nat : T = Len(t)
    BY DomainIs
  <1>5. P[1] = <<"SELECT">> \o f.columns /\ P[2] = <<"FROM", f.type>> \o f.alias
    BY PiecesAre DEF PiecesRight
  <1>6. PICK columns \in Seq(TextTokens), m \in Nat :
          /\ columns = f.columns /\ m = Len(columns) /\ m >= 1
          /\ columns[1] = "*" => m = 1
          /\ \A i \in 1..m : columns[i] # "FROM"
    <2>1. f.columns \in Seq(STRING) /\ f.columns # <<>> /\ ("*" = f.columns[1] => f.columns = <<"*">>)
          /\ "FROM" \notin ToSet(f.columns)
      BY DEF FormOK, ColumnsOK
    <2>2. STRING \subseteq TextTokens
      BY DEF TextTokens
    <2>3. PICK columns \in Seq(STRING) : columns = f.columns
      BY <2>1
    <2>4. columns \in Seq(TextTokens)
      BY <2>2, SeqWider
    <2>5. PICK m \in Nat : m = Len(columns) /\ DOMAIN columns = 1..m
      BY DomainIs
    <2>6. m >= 1
      BY <2>1, <2>3, <2>5
    <2>7. columns[1] = "*" => m = 1
      <3>1. Len(<<"*">>) = 1
        OBVIOUS
      <3> QED
        BY <2>1, <2>3, <2>5, <3>1
    <2>8. \A i \in 1..m : columns[i] # "FROM"
      BY <2>1, <2>3, <2>5 DEF ToSet
    <2> QED
      BY <2>3, <2>4, <2>5, <2>6, <2>7, <2>8
  <1>7. PICK alias \in Seq(TextTokens), a \in Nat : alias = f.alias /\ a = Len(alias) /\ NoneOrOne(f.alias)
    <2>1. NoneOrOne(f.alias) /\ f.alias \in Seq(STRING \ Keywords)
      BY DEF FormOK, NoneOrOne
    <2>2. PICK alias \in Seq(STRING \ Keywords) : alias = f.alias
      BY <2>1
    <2>3. STRING \ Keywords \subseteq TextTokens
      BY DEF TextTokens
    <2>4. alias \in Seq(TextTokens)
      BY <2>3, SeqWider
    <2> QED
      BY <2>1, <2>2, <2>4, DomainIs
  <1>8. PICK u \in Seq(TextTokens) : u = <<"SELECT">> /\ Len(u) = 1 /\ u[1] = "SELECT"
    <2>1. "SELECT" \in TextTokens
      BY DEF TextTokens, TextSigns
    <2> QED
      BY <2>1, OneIs
  <1>9. PICK v \in Seq(TextTokens) : v = <<"FROM", f.type>> /\ Len(v) = 2 /\ v[1] = "FROM" /\ v[2] = f.type
    <2>1. "FROM" \in TextTokens /\ f.type \in TextTokens
      BY DEF TextTokens, TextSigns, FormOK
    <2>2. PICK y \in TextTokens : y = f.type
      BY <2>1
    <2>3. <<"FROM", y>> \in Seq(TextTokens) /\ Len(<<"FROM", y>>) = 2 /\ <<"FROM", y>>[1] = "FROM" /\ <<"FROM", y>>[2] = y
      BY <2>1
    <2> QED
      BY <2>2, <2>3
  <1>10. PICK p \in Seq(TextTokens) : /\ p = P[1] /\ Len(p) = 1 + m /\ p[1] = "SELECT"
                                      /\ \A i \in 1..m : p[1 + i] = columns[i]
    <2>1. 1 \in 1..Len(u)
      BY <1>8
    <2>2. u \o columns = P[1]
      BY <1>5, <1>6, <1>8
    <2>3. PICK p \in Seq(TextTokens) : p = u \o columns
      BY ConcatIs
    <2>4. /\ Len(p) = Len(u) + Len(columns) /\ (\A x \in 1..Len(u) : p[x] = u[x])
          /\ \A x \in 1..Len(columns) : p[Len(u) + x] = columns[x]
      BY <2>3, ConcatIs
    <2> QED
      BY <1>6, <1>8, <2>1, <2>2, <2>3, <2>4
  <1>11. PICK q \in Seq(TextTokens) : /\ q = P[2] /\ Len(q) = 2 + a /\ q[1] = "FROM" /\ q[2] = f.type
                                      /\ a = 1 => q[3] = alias[1]
    <2>1. 1 \in 1..Len(v) /\ 2 \in 1..Len(v) /\ (a = 1 => 1 \in 1..Len(alias) /\ Len(v) + 1 = 3)
      <3>1. 1 \in 1..2 /\ 2 \in 1..2 /\ 1 \in 1..1 /\ 2 + 1 = 3
        OBVIOUS
      <3>2. Len(v) = 2 /\ (a = 1 => Len(alias) = 1)
        BY <1>7, <1>9
      <3> QED
        BY <3>1, <3>2, Zenon
    <2>2. v \o alias = P[2]
      BY <1>5, <1>7, <1>9
    <2>3. PICK q \in Seq(TextTokens) : q = v \o alias
      BY ConcatIs
    <2>4. /\ Len(q) = Len(v) + Len(alias) /\ (\A x \in 1..Len(v) : q[x] = v[x])
          /\ \A x \in 1..Len(alias) : q[Len(v) + x] = alias[x]
      BY <2>3, ConcatIs
    <2> QED
      BY <1>7, <1>9, <2>1, <2>2, <2>3, <2>4
  <1>12. 1 \in 1..Len(P) /\ 2 \in 1..Len(P)
    BY <1>3
  <1>13. PICK s \in 1..(T + 1), z \in 1..(T + 1) :
           s = st[2] /\ z = st[3] /\ s = 2 + m /\ z = s + 2 + a /\ WordsAt(t, 1, p) /\ WordsAt(t, s, q)
    <2>1. /\ WordsAt(t, st[1], P[1]) /\ st[2] = st[1] + Len(P[1]) /\ st[1] = 1
          /\ WordsAt(t, st[2], P[2]) /\ st[3] = st[2] + Len(P[2])
      <3>1. 1 + 1 = 2 /\ 2 + 1 = 3
        OBVIOUS
      <3> QED
        BY <1>12, <3>1 DEF LaidIn
    <2>2. st[2] \in 1..(T + 1) /\ st[3] \in 1..(T + 1)
      BY <1>3, <1>4 DEF LaidIn
    <2>3. st[2] = 2 + m
      BY <1>10, <2>1
    <2>4. st[3] = st[2] + 2 + a
      <3>1. st[3] = st[2] + (2 + a)
        BY <1>11, <2>1
      <3>2. PICK x \in Nat : x = st[2]
        BY <2>2
      <3>3. x + (2 + a) = x + 2 + a
        OBVIOUS
      <3> QED
        BY <3>1, <3>2, <3>3
    <2> QED
      BY <1>10, <1>11, <2>1, <2>2, <2>3, <2>4
  <1>14. /\ \A i \in 1..(1 + m) : i \in 1..T /\ t[i] = p[i] /\ TokAt(t, i) = p[i]
         /\ \A i \in 1..(2 + a) : s + i - 1 \in 1..T /\ t[s + i - 1] = q[i] /\ TokAt(t, s + i - 1) = q[i]
    <2>1. ASSUME NEW i \in 1..(1 + m) PROVE i \in 1..T /\ t[i] = p[i] /\ TokAt(t, i) = p[i]
      <3>1. 1 + i - 1 = i /\ i \in 1..Len(p)
        BY <1>10
      <3>2. 1 + i - 1 \in 1..Len(t) /\ t[1 + i - 1] = p[i] /\ TokAt(t, 1 + i - 1) = p[i]
        BY <1>13, <3>1 DEF WordsAt
      <3> QED
        BY <1>4, <3>1, <3>2
    <2>2. ASSUME NEW i \in 1..(2 + a) PROVE s + i - 1 \in 1..T /\ t[s + i - 1] = q[i] /\ TokAt(t, s + i - 1) = q[i]
      <3>1. i \in 1..Len(q)
        BY <1>11
      <3> QED
        BY <1>4, <1>13, <3>1 DEF WordsAt
    <2> QED
      BY <2>1, <2>2
  <1>15. TokAt(t, 1) = "SELECT"
    <2>1. 1 \in 1..(1 + m)
      OBVIOUS
    <2> QED
      BY <1>10, <1>14, <2>1
  <1>16. s \in 1..T /\ TokAt(t, s) = "FROM" /\ t[s] = "FROM" /\ s + 1 \in 1..T /\ t[s + 1] = f.type
    <2>1. 1 \in 1..(2 + a) /\ s + 1 - 1 = s /\ 2 \in 1..(2 + a) /\ s + 2 - 1 = s + 1
      BY <1>13
    <2> QED
      BY <1>11, <1>14, <2>1
  <1>17. \A i \in 1..m : t[1 + i] = columns[i] /\ TokAt(t, 1 + i) = columns[i]
    <2>1. \A i \in 1..m : 1 + i \in 1..(1 + m)
      OBVIOUS
    <2> QED
      BY <1>10, <1>14, <2>1
  <1>18. (IF TokAt(t, 2) = "*" THEN 3 ELSE Upto(t, 2, {"FROM"})) = s
    <2>1. 1 \in 1..m /\ 1 + 1 = 2
      BY <1>6
    <2>2. TokAt(t, 2) = columns[1]
      BY <1>17, <2>1
    <2>3. CASE columns[1] = "*"
      <3>1. m = 1 /\ s = 2 + m
        BY <1>6, <1>13, <2>3
      <3>2. s = 3
        BY <3>1
      <3> QED
        BY <2>2, <2>3, <3>2
    <2>4. CASE columns[1] # "*"
      <3>1. 2 \in 1..(Len(t) + 1) /\ s \in 2..(Len(t) + 1)
        BY <1>4, <1>13
      <3>2. ASSUME NEW e \in 2..(s - 1) PROVE t[e] \notin {"FROM"}
        <4>1. e - 1 \in 1..m /\ 1 + (e - 1) = e
          BY <1>13
        <4> QED
          BY <1>6, <1>17, <4>1
      <3>3. Upto(t, 2, {"FROM"}) = s
        BY <1>16, <3>1, <3>2, UptoIs
      <3> QED
        BY <2>2, <2>4, <3>3
    <2> QED
      BY <2>3, <2>4
  <1>19. ClauseAt(t, z)
    <2>1. 3 \in 3..(3 + J)
      BY <1>3
    <2> QED
      BY <1>2, <1>13, <2>1, ClausesAt
  <1>20. PastAlias(t, s + 2) = z
    <2>1. s + 2 \in Nat
      BY <1>13
    <2>2. ASSUME a = 1 PROVE s + 2 \in 1..Len(t) /\ t[s + 2] = f.alias[1]
      <3>1. 3 \in 1..(2 + a) /\ s + 3 - 1 = s + 2
        BY <1>13, <2>2
      <3> QED
        BY <1>4, <1>7, <1>11, <1>14, <2>2, <3>1
    <2>3. a = 0 => s + 2 = z
      BY <1>13
    <2>4. PastAlias(t, s + 2) = s + 2 + a
      BY <1>7, <1>19, <2>1, <2>2, <2>3, AliasRead
    <2> QED
      BY <1>13, <2>4
  <1>21. s # Len(t)
    BY <1>4, <1>16
  <1> QED
    BY <1>13, <1>15, <1>16, <1>18, <1>20, <1>21 DEF FromRight

\* The JOINs are read up to the WHERE clause.
LEMMA JoinsRead ==
  ASSUME NEW f, FormOK(f), NEW t \in Seq(TextTokens), NEW P, P = Pieces(f), NEW st, LaidIn(P, t, st),
         NEW J, J = JoinsOf(f)
  PROVE  PastJoins(t)[st[3]] = st[3 + J]
  <1>1. PICK W, K : W = CondsOf(f) /\ K = KeysOf(f)
    OBVIOUS
  <1>2. HeadsRight(P, J, W, K)
    BY <1>1, HeadsAre
  <1>3. J \in Nat /\ W \in Nat /\ K \in Nat /\ Len(P) = 2 + J + W + K
    BY <1>2 DEF HeadsRight
  <1>4. PICK T \in Nat : T = Len(t)
    BY DomainIs
  <1>5. \A i \in 1..(2 + J + W + K + 1) : st[i] \in 1..(T + 1) /\ TokAt(t, st[i]) = HeadOf(P, i)
    BY <1>3, <1>4 DEF LaidIn
  <1>6. PastJoins(t)[st[3 + J]] = st[3 + J]
    <2>1. 3 + J \in 1..(2 + J + W + K + 1)
      BY <1>3
    <2>2. PICK x \in 1..(Len(t) + 2) : x = st[3 + J] /\ TokAt(t, x) = HeadOf(P, 3 + J)
      BY <1>4, <1>5, <2>1
    <2>3. HeadOf(P, 3 + J) \notin {"JOIN", "LEFT", "INNER"}
      <3>1. CASE W > 0
        BY <1>2, <3>1 DEF HeadsRight
      <3>2. CASE ~(W > 0)
        <4>1. 3 + J + W = 3 + J
          BY <1>3, <3>2
        <4>2. HeadOf(P, 3 + J) = "ORDER" \/ HeadOf(P, 3 + J) = "end_of_text"
          BY <1>2, <4>1 DEF HeadsRight
        <4> QED
          BY <4>2
      <3> QED
        BY <3>1, <3>2
    <2> QED
      BY <2>2, <2>3, PastJoinsAre
  <1>7. ASSUME NEW i \in 3..(2 + J) PROVE PastJoins(t)[st[i]] = PastJoins(t)[st[i + 1]]
    <2>1. i \in 1..(2 + J + W + K + 1) /\ i \in 1..Len(P) /\ i + 1 \in 3..(3 + J)
      BY <1>3
    <2>2. PICK x \in 1..(Len(t) + 2) : x = st[i] /\ TokAt(t, x) = HeadOf(P, i)
      BY <1>4, <1>5, <2>1
    <2>3. i - 2 \in 1..J /\ 2 + (i - 2) = i
      BY <1>3
    <2>4. PICK j : j = f.joins[i - 2] /\ JoinOK(j)
      BY <2>3, InList DEF FormOK, JoinsOf
    <2>5. P[i] = JoinPiece(j)
      BY <2>3, <2>4, PiecesAre DEF PiecesRight
    <2>6. WordsAt(t, x, JoinPiece(j)) /\ st[i + 1] = x + Len(JoinPiece(j))
      BY <2>1, <2>2, <2>5 DEF LaidIn
    <2>7. PICK y \in Nat : y = st[i + 1] /\ ClauseAt(t, y)
      BY <1>2, <2>1, ClausesAt
    <2>8. PastJoin(t, x) = y
      <3>1. x \in Nat
        OBVIOUS
      <3> QED
        BY <2>4, <2>6, <2>7, <3>1, JoinRead
    <2>9. TokAt(t, x) \in {"JOIN", "LEFT", "INNER"}
      BY <1>2, <2>2 DEF HeadsRight
    <2> QED
      BY <2>2, <2>7, <2>8, <2>9, PastJoinsAre
  <1> DEFINE T1 == {n \in Nat : n <= J => PastJoins(t)[st[3 + J - n]] = st[3 + J]}
  <1>8. 0 \in T1
    <2>1. 3 + J - 0 = 3 + J
      BY <1>3
    <2> QED
      BY <1>6, <2>1
  <1>9. ASSUME NEW n \in Nat, n \in T1 PROVE n + 1 \in T1
    <2>1. n + 1 <= J => /\ 3 + J - (n + 1) \in 3..(2 + J)
                        /\ (3 + J - (n + 1)) + 1 = 3 + J - n
      BY <1>3
    <2>2. CASE n + 1 <= J
      <3>1. n <= J
        BY <1>3, <2>2
      <3>2. PastJoins(t)[st[3 + J - n]] = st[3 + J]
        BY <1>9, <3>1
      <3>3. PICK k \in 3..(2 + J) : k = 3 + J - (n + 1) /\ k + 1 = 3 + J - n
        BY <2>1, <2>2
      <3>4. PastJoins(t)[st[k]] = PastJoins(t)[st[k + 1]]
        BY <1>7
      <3>5. PastJoins(t)[st[3 + J - (n + 1)]] = st[3 + J]
        BY <3>2, <3>3, <3>4
      <3> QED
        BY <3>5
    <2>3. CASE ~(n + 1 <= J)
      BY <2>3
    <2> QED
      BY <2>2, <2>3
  <1>10. Nat \subseteq T1
    <2> HIDE DEF T1
    <2> QED
      BY <1>8, <1>9, UpTo
  <1>11. J \in T1 /\ 3 + J - J = 3
    BY <1>3, <1>10
  <1> QED
    BY <1>11

-----------------------------------------------------------------------------
(***************************************************************************)
(* The WHERE clause.                                                       *)
(***************************************************************************)
\* What is said from a condition on, when the first broken one ends the reading.
SaidOn(cs, E, end, past) ==
  /\ E[Len(cs) + 1] = EndsAt(end)
  /\ \A p \in 1..Len(cs) :
       E[p] = IF cs[p].kind = "broken" THEN Adding("broken", Empty, EndsAt(past))
              ELSE Adding(cs[p].kind, cs[p].what, E[p + 1])

\* A clause that is broken is an error, and any other says what its conditions say.
SaidWell(cs, said, end) ==
  /\ (\E p \in 1..Len(cs) : cs[p].kind = "broken") => said["broken"] # <<>>
  /\ (\A p \in 1..Len(cs) : cs[p].kind # "broken") =>
       /\ said["broken"] = <<>> /\ said["end"] = <<end>>
       /\ \A kind \in SaidKinds \ {"end"} : said[kind] = SaidIn(cs)[1][kind]

\* At its end a clause says where it ends, and nothing else.
LEMMA EndsAtIs ==
  ASSUME NEW U, NEW i \in U
  PROVE  /\ EndsAt(i) \in SaidOf(U) /\ EndsAt(i)["end"] = <<i>>
         /\ \A k \in SaidKinds \ {"end"} : EndsAt(i)[k] = <<>>
  <1>1. "end" \in SaidKinds /\ NothingSaid \in SaidOf(U) /\ \A k \in SaidKinds : NothingSaid[k] = <<>>
    <2>1. <<>> \in Seq(U)
      OBVIOUS
    <2>2. "end" \in SaidKinds
      BY DEF SaidKinds
    <2> QED
      BY <2>1, <2>2 DEF NothingSaid, SaidOf
  <1>2. PICK nothing \in SaidOf(U) : nothing = NothingSaid
    BY <1>1
  <1>3. /\ Adding("end", i, nothing) \in SaidOf(U)
        /\ Adding("end", i, nothing)["end"] = <<i>> \o nothing["end"]
        /\ \A k \in SaidKinds \ {"end"} : Adding("end", i, nothing)[k] = nothing[k]
    BY <1>1, AddingIs
  <1>4. PICK u \in Seq(U) : u = <<i>>
    BY OneIs
  <1>5. u \o <<>> = u
    BY ConcatEmptySeq
  <1> QED
    BY <1>1, <1>2, <1>3, <1>4, <1>5 DEF EndsAt

\* Read one after the other, the conditions say what they say.
LEMMA SaidOnIs ==
  ASSUME NEW C, NEW cs \in Seq(C), \A p \in 1..Len(cs) : cs[p].kind \in {"pred", "broken"} \cup Scopes,
         NEW E, NEW end, NEW past, SaidOn(cs, E, end, past)
  PROVE  SaidWell(cs, E[1], end)
  <1>1. PICK W \in Nat : W = Len(cs)
    BY DomainIs
  <1>2. PICK U : U = WhatsOf(cs) \cup {Empty, end, past}
    OBVIOUS
  <1>3. \A p \in 1..W : cs[p].what \in U
    BY <1>1, <1>2 DEF WhatsOf
  <1>4. {"pred", "broken"} \cup Scopes \subseteq SaidKinds /\ "end" \notin {"pred", "broken"} \cup Scopes
    BY DEF SaidKinds, Scopes
  <1>5. E[W + 1] = EndsAt(end)
    BY <1>1 DEF SaidOn
  <1>6. /\ EndsAt(end) \in SaidOf(U) /\ EndsAt(end)["end"] = <<end>>
        /\ \A k \in SaidKinds \ {"end"} : EndsAt(end)[k] = <<>>
    BY <1>2, EndsAtIs
  <1>7. EndsAt(past) \in SaidOf(U)
    BY <1>2, EndsAtIs
  <1>8. ASSUME NEW p \in 1..W, cs[p].kind = "broken" PROVE E[p] \in SaidOf(U) /\ E[p]["broken"] # <<>>
    <2>1. E[p] = Adding("broken", Empty, EndsAt(past))
      BY <1>1, <1>8 DEF SaidOn
    <2>2. PICK rest \in SaidOf(U) : rest = EndsAt(past)
      BY <1>7
    <2>3. "broken" \in SaidKinds /\ Empty \in U
      BY <1>2 DEF SaidKinds
    <2>4. /\ Adding("broken", Empty, rest) \in SaidOf(U)
          /\ Adding("broken", Empty, rest)["broken"] = <<Empty>> \o rest["broken"]
      BY <2>3, AddingIs
    <2>5. rest["broken"] \in Seq(U)
      BY <2>3 DEF SaidOf
    <2>6. <<Empty>> \o rest["broken"] # <<>>
      BY <2>3, <2>5, SetOfConcat
    <2> QED
      BY <2>1, <2>2, <2>4, <2>6
  <1>9. ASSUME NEW p \in 1..W, cs[p].kind # "broken", E[p + 1] \in SaidOf(U)
        PROVE  /\ E[p] \in SaidOf(U) /\ cs[p].kind \in SaidKinds \ {"end", "broken"}
               /\ E[p][cs[p].kind] = <<cs[p].what>> \o E[p + 1][cs[p].kind]
               /\ \A k \in SaidKinds \ {cs[p].kind} : E[p][k] = E[p + 1][k]
    <2>1. E[p] = Adding(cs[p].kind, cs[p].what, E[p + 1])
      BY <1>1, <1>9 DEF SaidOn
    <2>2. PICK kind \in SaidKinds, what \in U, rest \in SaidOf(U) :
            kind = cs[p].kind /\ what = cs[p].what /\ rest = E[p + 1] /\ kind \notin {"end", "broken"}
      BY <1>1, <1>3, <1>4, <1>9
    <2>3. /\ Adding(kind, what, rest) \in SaidOf(U)
          /\ Adding(kind, what, rest)[kind] = <<what>> \o rest[kind]
          /\ \A k \in SaidKinds \ {kind} : Adding(kind, what, rest)[k] = rest[k]
      BY AddingIs
    <2> QED
      BY <2>1, <2>2, <2>3
  <1>10. \A p \in 1..(W + 1) : E[p] \in SaidOf(U)
    <2> DEFINE T == {n \in Nat : n <= W => E[W + 1 - n] \in SaidOf(U)}
    <2>1. 0 \in T
      <3>1. W + 1 - 0 = W + 1
        OBVIOUS
      <3> QED
        BY <1>5, <1>6, <3>1
    <2>2. ASSUME NEW n \in Nat, n \in T PROVE n + 1 \in T
      <3>1. CASE n + 1 <= W
        <4>1. PICK p \in 1..W : p = W + 1 - (n + 1) /\ p + 1 = W + 1 - n
          BY <3>1
        <4>2. E[p + 1] \in SaidOf(U)
          BY <2>2, <3>1, <4>1
        <4>3. E[p] \in SaidOf(U)
          BY <1>8, <1>9, <4>2
        <4> QED
          BY <4>1, <4>3
      <3>2. CASE ~(n + 1 <= W)
        BY <3>2
      <3> QED
        BY <3>1, <3>2
    <2>3. Nat \subseteq T
      <3> HIDE DEF T
      <3> QED
        BY <2>1, <2>2, UpTo
    <2>4. ASSUME NEW p \in 1..W PROVE E[p] \in SaidOf(U)
      <3>1. PICK n \in Nat : n = W + 1 - p /\ n <= W /\ p = W + 1 - n
        <4>1. W + 1 - p \in Nat /\ W + 1 - p <= W /\ p = W + 1 - (W + 1 - p)
          OBVIOUS
        <4> QED
          BY <4>1
      <3>2. E[W + 1 - n] \in SaidOf(U)
        BY <2>3, <3>1
      <3> QED
        BY <3>1, <3>2
    <2>5. \A p \in 1..(W + 1) : p \in 1..W \/ p = W + 1
      OBVIOUS
    <2> QED
      BY <1>5, <1>6, <2>4, <2>5
  <1>11. ASSUME NEW q \in 1..W, cs[q].kind = "broken" PROVE E[1]["broken"] # <<>>
    <2> DEFINE T == {n \in Nat : n < q => E[q - n]["broken"] # <<>>}
    <2>1. 0 \in T
      <3>1. q - 0 = q
        OBVIOUS
      <3> QED
        BY <1>8, <1>11, <3>1
    <2>2. ASSUME NEW n \in Nat, n \in T PROVE n + 1 \in T
      <3>1. CASE n + 1 < q
        <4>1. PICK p \in 1..W : p = q - (n + 1) /\ p + 1 = q - n /\ p + 1 \in 1..(W + 1)
          BY <3>1
        <4>2. E[p + 1]["broken"] # <<>> /\ E[p + 1] \in SaidOf(U)
          BY <1>10, <2>2, <3>1, <4>1
        <4>3. "broken" \in SaidKinds
          BY DEF SaidKinds
        <4>4. CASE cs[p].kind = "broken"
          BY <1>8, <4>1, <4>4
        <4>5. CASE cs[p].kind # "broken"
          <5>1. E[p]["broken"] = E[p + 1]["broken"]
            BY <1>9, <4>2, <4>3, <4>5
          <5> QED
            BY <4>1, <4>2, <5>1
        <4> QED
          BY <4>4, <4>5
      <3>2. CASE ~(n + 1 < q)
        BY <3>2
      <3> QED
        BY <3>1, <3>2
    <2>3. Nat \subseteq T
      <3> HIDE DEF T
      <3> QED
        BY <2>1, <2>2, UpTo
    <2>4. q - 1 \in Nat /\ q - 1 < q /\ q - (q - 1) = 1
      OBVIOUS
    <2>5. E[q - (q - 1)]["broken"] # <<>>
      BY <2>3, <2>4
    <2> QED
      BY <2>4, <2>5
  <1>12. ASSUME \A p \in 1..W : cs[p].kind # "broken"
         PROVE  /\ E[1]["broken"] = <<>> /\ E[1]["end"] = <<end>>
                /\ \A kind \in SaidKinds \ {"end"} : E[1][kind] = SaidIn(cs)[1][kind]
    <2> DEFINE Same(p) == /\ E[p]["broken"] = <<>> /\ E[p]["end"] = <<end>>
                          /\ \A kind \in SaidKinds \ {"end"} : E[p][kind] = SaidIn(cs)[p][kind]
               T == {n \in Nat : n <= W => Same(W + 1 - n)}
    <2>0. "broken" \in SaidKinds \ {"end"} /\ "end" \in SaidKinds
      BY DEF SaidKinds
    <2>1. 0 \in T
      <3>1. W + 1 - 0 = W + 1 /\ W + 1 > W /\ W + 1 \in 1..(Len(cs) + 1)
        BY <1>1
      <3>2. SaidIn(cs)[W + 1] = NothingSaid
        BY <1>1, <3>1, SaidInAre
      <3>3. \A k \in SaidKinds : NothingSaid[k] = <<>>
        BY DEF NothingSaid
      <3>4. Same(W + 1)
        BY <1>5, <1>6, <2>0, <3>2, <3>3
      <3> QED
        BY <3>1, <3>4
    <2>2. ASSUME NEW n \in Nat, n \in T PROVE n + 1 \in T
      <3>1. CASE n + 1 <= W
        <4>1. PICK p \in 1..W : p = W + 1 - (n + 1) /\ p + 1 = W + 1 - n /\ p + 1 \in 1..(W + 1) /\ ~(p > W)
          BY <3>1
        <4>2. Same(p + 1) /\ E[p + 1] \in SaidOf(U)
          BY <1>10, <2>2, <3>1, <4>1
        <4>3. PICK kind : kind = cs[p].kind
          OBVIOUS
        <4>4. /\ kind \in SaidKinds \ {"end", "broken"}
              /\ E[p][kind] = <<cs[p].what>> \o E[p + 1][kind]
              /\ \A k \in SaidKinds \ {kind} : E[p][k] = E[p + 1][k]
          BY <1>9, <1>12, <4>2, <4>3
        <4>5. SaidIn(cs)[p] = Adding(kind, cs[p].what, SaidIn(cs)[p + 1])
          <5>1. p \in 1..(Len(cs) + 1) /\ ~(p > Len(cs))
            BY <1>1, <4>1
          <5> QED
            BY <4>3, <5>1, SaidInAre
        <4>6. SaidIn(cs)[p + 1] \in SaidOf(U)
          <5>1. p + 1 \in 1..(Len(cs) + 1) /\ \A k \in 1..Len(cs) : cs[k].kind \in SaidKinds
            BY <1>1, <1>4, <4>1
          <5>2. SaidIn(cs)[p + 1] \in SaidOf(WhatsOf(cs))
            BY <5>1, SaidAre DEF SaidRight
          <5>3. WhatsOf(cs) \subseteq U
            BY <1>2
          <5>4. \A k \in SaidKinds : SaidIn(cs)[p + 1][k] \in Seq(U)
            <6>1. TAKE k \in SaidKinds
            <6>2. PICK v \in Seq(WhatsOf(cs)) : v = SaidIn(cs)[p + 1][k]
              BY <5>2 DEF SaidOf
            <6>3. v \in Seq(U)
              BY <5>3, SeqWider
            <6> QED
              BY <6>2, <6>3
          <5> QED
            BY <5>2, <5>4 DEF SaidOf
        <4>7. PICK rest \in SaidOf(U) : rest = SaidIn(cs)[p + 1]
          BY <4>6
        <4>8. /\ Adding(kind, cs[p].what, rest)[kind] = <<cs[p].what>> \o rest[kind]
              /\ \A k \in SaidKinds \ {kind} : Adding(kind, cs[p].what, rest)[k] = rest[k]
          BY <1>3, <4>4, AddingIs
        <4>9. Same(p)
          BY <2>0, <4>2, <4>4, <4>5, <4>7, <4>8
        <4> QED
          BY <4>1, <4>9
      <3>2. CASE ~(n + 1 <= W)
        BY <3>2
      <3> QED
        BY <3>1, <3>2
    <2>3. Nat \subseteq T
      <3> HIDE DEF T
      <3> QED
        BY <2>1, <2>2, UpTo
    <2>4. W + 1 - W = 1 /\ W <= W
      OBVIOUS
    <2>5. Same(W + 1 - W)
      BY <2>3, <2>4
    <2> QED
      BY <2>4, <2>5
  <1> QED
    BY <1>1, <1>11, <1>12 DEF SaidWell

\* The conditions of a statement, in the order they are written in.
SaidsOf(f) == [p \in 1..CondsOf(f) |-> Linked(f)[p].said]

\* A condition in the text: where it begins, how it is read, where it ends.
CondRead(c, t, x, y) ==
  /\ x \in 1..(Len(t) + 1) /\ y \in 1..(Len(t) + 1) /\ y = x + Len(Words(c)) /\ ConditionOK(c) /\ ReadRight(t, x, c)

\* A piece in the text, with the place before and behind it.
PieceIn(P, t, i, z, y) ==
  /\ z \in 1..(Len(t) + 1) /\ y \in 1..(Len(t) + 1) /\ y = z + Len(P[i])
  /\ WordsAt(t, z, P[i]) /\ TokAt(t, y) = HeadOf(P, i + 1)

\* A piece has its place, and the next one begins behind it.
LEMMA PieceAt ==
  ASSUME NEW P, NEW t, NEW st, LaidIn(P, t, st), NEW N \in Nat, N = Len(P), NEW i \in 1..N
  PROVE  PieceIn(P, t, i, st[i], st[i + 1])
  <1>1. i \in 1..(N + 1) /\ i + 1 \in 1..(N + 1)
    OBVIOUS
  <1>2. st \in [1..(N + 1) -> 1..(Len(t) + 1)]
    BY DEF LaidIn
  <1>3. st[i] \in 1..(Len(t) + 1) /\ st[i + 1] \in 1..(Len(t) + 1)
    BY <1>1, <1>2, Zenon
  <1>4. WordsAt(t, st[i], P[i]) /\ st[i + 1] = st[i] + Len(P[i])
    BY DEF LaidIn
  <1>5. TokAt(t, st[i + 1]) = HeadOf(P, i + 1)
    BY <1>1 DEF LaidIn
  <1> QED
    BY <1>3, <1>4, <1>5 DEF PieceIn

\* Each condition is read as it was written, and up to the next.
LEMMA CondsRead ==
  ASSUME NEW f, FormOK(f), NEW t \in Seq(TextTokens), NEW P, P = Pieces(f), NEW st, LaidIn(P, t, st),
         NEW J \in Nat, J = JoinsOf(f), NEW W \in Nat, W = CondsOf(f), NEW p \in 1..W
  PROVE  CondRead(SaidsOf(f)[p], t, st[2 + J + p] + 1, st[3 + J + p])
  <1>1. PICK K : K = KeysOf(f)
    OBVIOUS
  <1>2. HeadsRight(P, J, W, K)
    BY <1>1, HeadsAre
  <1>3. J \in Nat /\ W \in Nat /\ K \in Nat /\ Len(P) = 2 + J + W + K
    BY <1>2 DEF HeadsRight
  <1>4. PICK T \in Nat : T = Len(t)
    BY DomainIs
  <1>5. PICK i \in Nat : /\ i = 2 + J + p /\ i + 1 = 3 + J + p /\ i \in 1..Len(P) /\ i + 1 \in 1..(Len(P) + 1)
                         /\ p \in Nat /\ p <= W
    <2>1. PICK j \in Nat, v \in Nat, k \in Nat, e \in Nat : j = J /\ v = W /\ k = K /\ e = p /\ 1 <= e /\ e <= v
      BY <1>3
    <2>2. e <= v => /\ 2 + j + e \in Nat /\ (2 + j + e) + 1 = 3 + j + e /\ 2 + j + e \in 1..(2 + j + v + k)
          /\ (2 + j + e) + 1 \in 1..(2 + j + v + k + 1) /\ e \in Nat
      OBVIOUS
    <2> QED
      BY <1>3, <2>1, <2>2
  <1>6. PICK z \in 1..(T + 1), y \in 1..(T + 1) :
          z = st[i] /\ y = st[i + 1] /\ y = z + Len(P[i]) /\ WordsAt(t, z, P[i]) /\ TokAt(t, y) = HeadOf(P, i + 1)
    <2>1. PICK N \in Nat : N = Len(P)
      BY <1>3
    <2>2. PieceIn(P, t, i, st[i], st[i + 1])
      BY <1>5, <2>1, PieceAt
    <2> QED
      BY <1>4, <2>2 DEF PieceIn
  <1>7. PICK c : c = Linked(f)[p].said /\ c \in ConditionsOf(f) /\ ConditionOK(c)
    <2>1. Linked(f)[p].said \in ConditionsOf(f)
      BY LinkedIs DEF FormOK, LinkedRight, CondsOf
    <2> QED
      BY <2>1, ConditionsAreOK DEF FormOK
  <1>8. PICK link \in TextTokens : link = Linked(f)[p].link
    <2>1. Linked(f)[p].link \in {"WHERE", "AND", "OR"}
      BY LinkedIs DEF FormOK, LinkedRight, CondsOf
    <2> QED
      BY <2>1 DEF TextTokens, TextSigns, Keywords
  <1>9. PICK w \in Seq(TextTokens), m \in Nat : w = Words(c) /\ m = Len(w)
    BY <1>7, WordsAre, DomainIs
  <1>10. PICK u \in Seq(TextTokens) : u = <<link>> /\ Len(u) = 1
    BY OneIs
  <1>11. P[i] = u \o w
    BY <1>5, <1>7, <1>8, <1>9, <1>10, PiecesAre DEF PiecesRight
  <1>12. PICK q \in Seq(TextTokens) : q = P[i] /\ Len(q) = 1 + m /\ \A j \in 1..m : q[1 + j] = w[j]
    <2>1. PICK q \in Seq(TextTokens) : q = u \o w
      BY ConcatIs
    <2>2. Len(q) = Len(u) + Len(w) /\ \A j \in 1..Len(w) : q[Len(u) + j] = w[j]
      BY <2>1, ConcatIs
    <2> QED
      BY <1>9, <1>10, <1>11, <2>1, <2>2
  <1>13. PICK x \in Nat : x = z + 1 /\ y = x + m
    <2>1. y = z + (1 + m)
      BY <1>6, <1>12
    <2>2. z \in Nat
      BY <1>6
    <2>3. z + (1 + m) = (z + 1) + m /\ z + 1 \in Nat
      BY <2>2
    <2> QED
      BY <2>1, <2>3
  <1>14. WordsAt(t, x, w)
    <2>1. ASSUME NEW j \in 1..m
          PROVE  x + j - 1 \in 1..Len(t) /\ t[x + j - 1] = w[j] /\ TokAt(t, x + j - 1) = w[j]
      <3>1. z + (1 + j) - 1 = x + j - 1 /\ 1 + j \in 1..(1 + m)
        BY <1>13
      <3>2. z + (1 + j) - 1 \in 1..Len(t) /\ t[z + (1 + j) - 1] = q[1 + j] /\ TokAt(t, z + (1 + j) - 1) = q[1 + j]
        BY <1>6, <1>12, <3>1 DEF WordsAt
      <3> QED
        BY <1>12, <3>1, <3>2
    <2> QED
      BY <1>9, <2>1 DEF WordsAt
  <1>15. HeadOf(P, i + 1) # "("
    <2>1. CASE p < W
      <3>1. i + 1 \in (4 + J)..(2 + J + W)
        <4>1. p \in 1..W /\ p \in Nat /\ i + 1 = 3 + J + p
          BY <1>5
        <4>2. 3 + J + p \in (4 + J)..(2 + J + W)
          BY <2>1, <4>1
        <4> QED
          BY <4>1, <4>2
      <3>2. HeadOf(P, i + 1) \in {"AND", "OR"}
        BY <1>2, <3>1 DEF HeadsRight
      <3> QED
        BY <3>2
    <2>2. CASE p = W
      <3>1. i + 1 = 3 + J + W
        BY <1>5, <2>2
      <3>2. HeadOf(P, i + 1) = "ORDER" \/ HeadOf(P, i + 1) = "end_of_text"
        BY <1>2, <3>1 DEF HeadsRight
      <3> QED
        BY <3>2
    <2>3. p < W \/ p = W
      BY <1>3
    <2> QED
      BY <2>1, <2>2, <2>3
  <1>16. ReadRight(t, x, c)
    <2>1. TokAt(t, x + Len(Words(c))) # "("
      BY <1>6, <1>9, <1>13, <1>15
    <2>2. WordsAt(t, x, Words(c))
      BY <1>9, <1>14
    <2>3. TextTokens \subseteq TextTokens
      OBVIOUS
    <2> QED
      BY <1>7, <2>1, <2>2, <2>3, ConditionRead
  <1>17. x \in 1..(T + 1)
    <2>1. z \in 1..(T + 1) /\ y \in 1..(T + 1)
      OBVIOUS
    <2> QED
      BY <1>13, <2>1
  <1>18. SaidsOf(f)[p] = c
    BY <1>7 DEF SaidsOf
  <1>19. st[2 + J + p] + 1 = x /\ st[3 + J + p] = y
    BY <1>5, <1>6, <1>13
  <1>20. CondRead(c, t, x, y)
    BY <1>4, <1>6, <1>7, <1>9, <1>13, <1>16, <1>17 DEF CondRead
  <1> QED
    BY <1>18, <1>19, <1>20

\* What the WHERE clause says: its conditions, or nothing when there is none.
WhereSaid(t, where) == IF TokAt(t, where) = "WHERE" THEN ParseWhere(t)[where + 1] ELSE EndsAt(where)

\* So the WHERE clause is read up to the ORDER clause.
LEMMA WhereRead ==
  ASSUME NEW f, FormOK(f), NEW t \in Seq(TextTokens), NEW P, P = Pieces(f), NEW st, LaidIn(P, t, st),
         NEW J \in Nat, J = JoinsOf(f), NEW W \in Nat, W = CondsOf(f)
  PROVE  SaidWell(SaidsOf(f), WhereSaid(t, st[3 + J]), st[3 + J + W])
  <1>1. PICK K : K = KeysOf(f)
    OBVIOUS
  <1>2. HeadsRight(P, J, W, K)
    BY <1>1, HeadsAre
  <1>3. J \in Nat /\ W \in Nat /\ K \in Nat /\ Len(P) = 2 + J + W + K
    BY <1>2 DEF HeadsRight
  <1>4. PICK T \in Nat : T = Len(t)
    BY DomainIs
  <1>5. PICK cs : cs = SaidsOf(f)
    OBVIOUS
  <1>6. cs \in [1..W -> ConditionsOf(f)]
    <2>1. \A p \in 1..W : Linked(f)[p].said \in ConditionsOf(f)
      BY LinkedIs DEF FormOK, LinkedRight, CondsOf
    <2> QED
      BY <1>5, <2>1 DEF SaidsOf
  <1>7. cs \in Seq(ConditionsOf(f)) /\ Len(cs) = W
    <2>1. PICK n \in Nat : n = W
      BY <1>3
    <2>2. cs = [p \in 1..n |-> cs[p]] /\ \A p \in 1..n : cs[p] \in ConditionsOf(f)
      BY <1>6, <2>1
    <2>3. [p \in 1..n |-> cs[p]] \in Seq(ConditionsOf(f)) /\ Len([p \in 1..n |-> cs[p]]) = n
      BY <2>2
    <2> QED
      BY <2>1, <2>2, <2>3
  <1>8. ASSUME NEW p \in 1..W PROVE cs[p].kind \in {"pred", "broken"} \cup Scopes
    <2>1. ConditionOK(cs[p])
      BY <1>6, ConditionsAreOK DEF FormOK
    <2> QED
      BY <2>1 DEF ConditionOK
  <1> DEFINE E == [p \in 1..(W + 1) |-> IF p = W + 1 THEN EndsAt(st[3 + J + W]) ELSE ParseWhere(t)[st[2 + J + p] + 1]]
  <1>9. E[W + 1] = EndsAt(st[3 + J + W]) /\ \A p \in 1..W : E[p] = ParseWhere(t)[st[2 + J + p] + 1]
    <2>1. W + 1 \in 1..(W + 1)
      BY <1>3
    <2>2. \A p \in 1..W : p \in 1..(W + 1) /\ p # W + 1
      BY <1>3
    <2> QED
      BY <2>1, <2>2, Zenon
  <1>10. E[1] = WhereSaid(t, st[3 + J])
    <2>1. 3 + J \in 1..(Len(P) + 1)
      BY <1>3
    <2>2. TokAt(t, st[3 + J]) = HeadOf(P, 3 + J)
      BY <2>1 DEF LaidIn
    <2>3. CASE W > 0
      <3>1. 1 \in 1..W /\ 2 + J + 1 = 3 + J
        BY <1>3, <2>3
      <3>2. HeadOf(P, 3 + J) = "WHERE"
        BY <1>2, <2>3 DEF HeadsRight
      <3> QED
        BY <1>9, <2>2, <3>1, <3>2 DEF WhereSaid
    <2>4. CASE W = 0
      <3>1. 3 + J + W = 3 + J /\ W + 1 = 1
        BY <1>3, <2>4
      <3>2. HeadOf(P, 3 + J) = "ORDER" \/ HeadOf(P, 3 + J) = "end_of_text"
        BY <1>2, <3>1 DEF HeadsRight
      <3>3. HeadOf(P, 3 + J) # "WHERE"
        BY <3>2
      <3> QED
        BY <1>9, <2>2, <3>1, <3>3 DEF WhereSaid
    <2> QED
      BY <1>3, <2>3, <2>4
  <1> HIDE DEF E
  <1>11. ASSUME NEW p \in 1..W
         PROVE  E[p] = IF cs[p].kind = "broken" THEN Adding("broken", Empty, EndsAt(T + 1))
                       ELSE Adding(cs[p].kind, cs[p].what, E[p + 1])
    <2>1. PICK c : c = cs[p]
      OBVIOUS
    <2>2. PICK x \in 1..(T + 1), y \in 1..(T + 1) :
            x = st[2 + J + p] + 1 /\ y = st[3 + J + p] /\ y = x + Len(Words(c)) /\ ReadRight(t, x, c)
      <3>1. CondRead(c, t, st[2 + J + p] + 1, st[3 + J + p])
        BY <1>5, <2>1, CondsRead
      <3> QED
        BY <1>4, <3>1 DEF CondRead
    <2>3. E[p] = ParseWhere(t)[x]
      BY <1>9, <2>2
    <2>4. /\ ~WhereEnded(t, x)
          /\ ParseWhere(t)[x] = Adding(ReadAt(t, x).kind, ReadAt(t, x).what, ParseWhere(t)[ReadAt(t, x).next])
      <3>1. x \in 1..(Len(t) + 2) /\ ~WhereEnded(t, x)
        BY <1>4, <2>2 DEF ReadRight
      <3> QED
        BY <3>1, ParseWhereAre
    <2>5. CASE c.kind = "broken"
      <3>1. ReadAt(t, x) = Read("broken", Empty, Len(t) + 1)
        BY <2>2, <2>5 DEF ReadRight
      <3>2. ReadAt(t, x).kind = "broken" /\ ReadAt(t, x).what = Empty /\ ReadAt(t, x).next = T + 1
        BY <1>4, <3>1 DEF Read
      <3>3. T + 1 \in 1..(Len(t) + 2) /\ WhereEnded(t, T + 1)
        BY <1>4 DEF WhereEnded
      <3>4. ParseWhere(t)[T + 1] = EndsAt(T + 1)
        BY <3>3, ParseWhereAre
      <3> QED
        BY <2>1, <2>3, <2>4, <2>5, <3>2, <3>4
    <2>6. CASE c.kind # "broken"
      <3>1. ReadAt(t, x) = Read(c.kind, c.what, y)
        BY <2>2, <2>6 DEF ReadRight
      <3>2. ReadAt(t, x).kind = c.kind /\ ReadAt(t, x).what = c.what /\ ReadAt(t, x).next = y
        BY <3>1 DEF Read
      <3>3. ParseWhere(t)[y] = E[p + 1]
        <4>0. PICK j \in Nat, v \in Nat, k \in Nat : j = J /\ v = W /\ k = K
          BY <1>3
        <4>1. 3 + J + p \in 1..(Len(P) + 1) /\ y \in 1..(Len(t) + 2)
          <5>1. p \in 1..v => 3 + j + p \in 1..(2 + j + v + k + 1)
            OBVIOUS
          <5> QED
            BY <1>3, <1>4, <4>0, <5>1
        <4>2. TokAt(t, y) = HeadOf(P, 3 + J + p)
          BY <2>2, <4>1 DEF LaidIn
        <4>3. CASE p < W
          <5>1. 3 + J + p \in (4 + J)..(2 + J + W) /\ p + 1 \in 1..W /\ 2 + J + (p + 1) = 3 + J + p
            <6>1. p \in 1..v /\ p < v => 3 + j + p \in (4 + j)..(2 + j + v) /\ p + 1 \in 1..v /\ 2 + j + (p + 1) = 3 + j + p
              OBVIOUS
            <6> QED
              BY <4>0, <4>3, <6>1
          <5>2. TokAt(t, y) \in {"AND", "OR"}
            BY <1>2, <4>2, <5>1 DEF HeadsRight
          <5>3. TokAt(t, y) # "end_of_text"
            BY <5>2
          <5>4. y \in 1..Len(t) /\ t[y] = TokAt(t, y)
            BY <5>3, TokAtIn
          <5>5. ReadAt(t, y) = Read("skip", Empty, y + 1)
            BY <5>2, <5>4 DEF ReadAt
          <5>6. ~WhereEnded(t, y)
            BY <1>4, <5>2, <5>4 DEF WhereEnded
          <5>7. ReadAt(t, y).kind = "skip" /\ ReadAt(t, y).what = Empty /\ ReadAt(t, y).next = y + 1
            BY <5>5 DEF Read
          <5>8. ParseWhere(t)[y] = Adding("skip", Empty, ParseWhere(t)[y + 1])
            BY <4>1, <5>6, <5>7, ParseWhereAre
          <5>9. "skip" \notin SaidKinds
            BY DEF SaidKinds, Scopes
          <5>10. E[p + 1] = ParseWhere(t)[y + 1]
            <6>1. PICK r \in 1..W : r = p + 1 /\ 2 + J + r = 3 + J + p
              BY <5>1
            <6>2. E[r] = ParseWhere(t)[st[2 + J + r] + 1]
              BY <1>9
            <6>3. st[2 + J + r] = y
              BY <2>2, <6>1
            <6> QED
              BY <6>1, <6>2, <6>3
          <5> QED
            BY <5>8, <5>9, <5>10 DEF Adding
        <4>4. CASE p = W
          <5>1. 3 + J + p = 3 + J + W
            BY <4>4
          <5>2. HeadOf(P, 3 + J + W) = "ORDER" \/ HeadOf(P, 3 + J + W) = "end_of_text"
            BY <1>2 DEF HeadsRight
          <5>3. WhereEnded(t, y)
            <6>1. CASE TokAt(t, y) = "ORDER"
              BY <6>1 DEF WhereEnded
            <6>2. CASE TokAt(t, y) = "end_of_text"
              <7>1. W > 0
                BY <1>3
              <7>2. CASE K = 0
                <8>1. 3 + J + W = Len(P) + 1
                  BY <1>3, <7>2
                <8>2. y = T + 1
                  BY <1>4, <2>2, <5>1, <8>1 DEF LaidIn
                <8> QED
                  BY <1>4, <8>2 DEF WhereEnded
              <7>3. CASE K > 0
                <8>1. HeadOf(P, 3 + J + W) = "ORDER"
                  BY <1>2, <7>3 DEF HeadsRight
                <8> QED
                  BY <4>2, <5>1, <6>2, <8>1
              <7> QED
                BY <1>3, <7>2, <7>3
            <6> QED
              BY <4>2, <5>1, <5>2, <6>1, <6>2
          <5>4. ParseWhere(t)[y] = EndsAt(y)
            BY <4>1, <5>3, ParseWhereAre
          <5> QED
            BY <1>9, <2>2, <4>4, <5>1, <5>4
        <4> QED
          BY <1>3, <4>3, <4>4
      <3> QED
        BY <2>1, <2>3, <2>4, <2>6, <3>2, <3>3
    <2> QED
      BY <2>1, <2>5, <2>6
  <1>12. SaidOn(cs, E, st[3 + J + W], T + 1)
    BY <1>7, <1>9, <1>11 DEF SaidOn
  <1>13. SaidWell(cs, E[1], st[3 + J + W])
    BY <1>7, <1>8, <1>12, SaidOnIs
  <1> QED
    BY <1>5, <1>10, <1>13

-----------------------------------------------------------------------------
(***************************************************************************)
(* The ORDER clause.                                                       *)
(***************************************************************************)
\* The keys a text orders by, as meant.
KeysMeant(f) == [i \in DOMAIN f.orderBy |-> OrderBy(f.orderBy[i].property, f.orderBy[i].direction = <<"DESC">>)]

\* What is read at a key: its property, its direction, and where it ends.
KeyRead(k, t, x, y) ==
  /\ x \in 1..Len(t) /\ KeyAt(t, x) = OrderBy(k.property, k.direction = <<"DESC">>) /\ DirectionAt(t, x) = y

\* A key is read up to the comma behind it.
LEMMA OrderKeyRead ==
  ASSUME NEW t \in Seq(TextTokens), NEW k, OrderOK(k), NEW i, NEW w \in Seq(TextTokens), OrderSays(k, i, w),
         NEW z \in 1..(Len(t) + 1), WordsAt(t, z, w), NEW b \in Nat, b = IF i = 1 THEN 2 ELSE 1,
         NEW y \in 1..(Len(t) + 1), y = z + Len(w), TokAt(t, y) \in {Comma, "end_of_text"}
  PROVE  KeyRead(k, t, z + b, y)
  <1>1. PICK m \in Nat : m = Len(w)
    BY DomainIs
  <1>2. PICK d \in 0..1 : d = Len(k.direction) /\ m = b + 1 + d /\ w[b + 1] = k.property
                          /\ (d = 1 => w[b + 2] = k.direction[1])
    BY <1>1 DEF OrderSays
  <1>3. PICK x \in Nat : x = z + b /\ y = x + 1 + d
    <2>1. y = z + (b + 1 + d) /\ z \in Nat
      BY <1>1, <1>2
    <2>2. z + b \in Nat /\ z + (b + 1 + d) = (z + b) + 1 + d
      BY <2>1
    <2> QED
      BY <2>1, <2>2
  <1>4. \A j \in 1..m : z + j - 1 \in 1..Len(t) /\ t[z + j - 1] = w[j] /\ TokAt(t, z + j - 1) = w[j]
    BY <1>1 DEF WordsAt
  <1>5. x \in 1..Len(t) /\ t[x] = k.property
    <2>1. b + 1 \in 1..m /\ z + (b + 1) - 1 = x
      <3>1. b + 1 \in 1..(b + 1 + d)
        OBVIOUS
      <3>2. PICK y1 \in Nat : y1 = z
        OBVIOUS
      <3>3. y1 + (b + 1) - 1 = y1 + b
        OBVIOUS
      <3> QED
        BY <1>2, <1>3, <3>1, <3>2, <3>3
    <2> QED
      BY <1>2, <1>4, <2>1
  <1>6. d = 1 => TokAt(t, x + 1) = k.direction[1]
    <2>1. d = 1 => b + 2 \in 1..m /\ z + (b + 2) - 1 = x + 1
      BY <1>2, <1>3
    <2> QED
      BY <1>2, <1>4, <2>1
  <1>7. <<"ASC">>[1] = "ASC" /\ Len(<<"ASC">>) = 1 /\ <<"DESC">>[1] = "DESC" /\ Len(<<"DESC">>) = 1 /\ Len(<<>>) = 0
    OBVIOUS
  <1>8. k.direction = <<>> \/ k.direction = <<"ASC">> \/ k.direction = <<"DESC">>
    BY DEF OrderOK
  <1>9. CASE k.direction = <<>>
    <2>1. d = 0 /\ y = x + 1
      BY <1>2, <1>3, <1>7, <1>9
    <2>2. TokAt(t, x + 1) # "ASC" /\ TokAt(t, x + 1) # "DESC"
      BY <2>1, CommaIs
    <2>3. k.direction # <<"DESC">>
      BY <1>7, <1>9
    <2> QED
      BY <1>3, <1>5, <2>1, <2>2, <2>3 DEF KeyRead, KeyAt, DirectionAt
  <1>10. CASE k.direction = <<"ASC">>
    <2>1. d = 1
      BY <1>2, <1>7, <1>10
    <2>2. TokAt(t, x + 1) = "ASC" /\ y = x + 2
      BY <1>3, <1>6, <1>7, <1>10, <2>1
    <2>3. k.direction # <<"DESC">>
      BY <1>7, <1>10
    <2> QED
      BY <1>3, <1>5, <2>2, <2>3 DEF KeyRead, KeyAt, DirectionAt
  <1>11. CASE k.direction = <<"DESC">>
    <2>1. d = 1
      BY <1>2, <1>7, <1>11
    <2>2. TokAt(t, x + 1) = "DESC" /\ y = x + 2
      BY <1>3, <1>6, <1>7, <1>11, <2>1
    <2> QED
      BY <1>3, <1>5, <1>11, <2>2 DEF KeyRead, KeyAt, DirectionAt
  <1> QED
    BY <1>8, <1>9, <1>10, <1>11

\* The keys read from a place on are those meant.
OrderRight(f, t, order) ==
  /\ order \in 1..(Len(t) + 1)
  /\ (IF TokAt(t, order) = "ORDER" THEN ParseOrder(t)[Past(t, order + 1, "BY")] ELSE <<>>) = KeysMeant(f)

\* So they are behind the WHERE clause.
LEMMA OrderRead ==
  ASSUME NEW f, FormOK(f), NEW t \in Seq(TextTokens), NEW P, P = Pieces(f), NEW st, LaidIn(P, t, st),
         NEW J \in Nat, J = JoinsOf(f), NEW W \in Nat, W = CondsOf(f)
  PROVE  OrderRight(f, t, st[3 + J + W])
  <1>1. PICK K : K = KeysOf(f)
    OBVIOUS
  <1>2. HeadsRight(P, J, W, K)
    BY <1>1, HeadsAre
  <1>3. K \in Nat /\ Len(P) = 2 + J + W + K
    BY <1>2 DEF HeadsRight
  <1>4. PICK k \in Nat, N \in Nat, B \in Nat : k = K /\ N = Len(P) /\ B = 2 + J + W /\ N = B + k
    <2>1. PICK B \in Nat : B = 2 + J + W
      OBVIOUS
    <2>2. B + K \in Nat /\ Len(P) = B + K
      BY <1>3, <2>1
    <2> QED
      BY <1>3, <2>1, <2>2
  <1>5. PICK T \in Nat : T = Len(t)
    BY DomainIs
  <1>6. PICK order \in 1..(T + 1) : order = st[3 + J + W] /\ order = st[B + 1] /\ TokAt(t, order) = HeadOf(P, 3 + J + W)
    <2>1. B + 1 = 3 + J + W /\ B + 1 \in 1..(N + 1)
      <3>1. B + 1 \in 1..(B + k + 1) /\ (2 + J + W) + 1 = 3 + J + W
        OBVIOUS
      <3> QED
        BY <1>4, <3>1, Zenon
    <2> QED
      BY <1>4, <1>5, <2>1 DEF LaidIn
  <1>7. PICK keys \in Seq(ToSet(KeysMeant(f))) : keys = KeysMeant(f) /\ Len(keys) = k
                        /\ \A i \in 1..k : keys[i] = OrderBy(f.orderBy[i].property, f.orderBy[i].direction = <<"DESC">>)
    <2>1. DOMAIN f.orderBy = 1..k
      BY <1>1, <1>4, InList DEF FormOK, KeysOf
    <2> DEFINE key(i) == OrderBy(f.orderBy[i].property, f.orderBy[i].direction = <<"DESC">>)
    <2>2. KeysMeant(f) = [i \in 1..k |-> key(i)]
      BY <2>1 DEF KeysMeant
    <2> HIDE DEF key
    <2>3. DOMAIN [i \in 1..k |-> key(i)] = 1..k /\ \A i \in 1..k : [j \in 1..k |-> key(j)][i] = key(i)
      OBVIOUS
    <2>4. ASSUME NEW i \in 1..k PROVE key(i) \in ToSet(KeysMeant(f))
      BY <2>2, <2>3 DEF ToSet
    <2>5. [i \in 1..k |-> key(i)] \in Seq(ToSet(KeysMeant(f))) /\ Len([i \in 1..k |-> key(i)]) = k
      BY <2>4
    <2>6. \A i \in 1..k : KeysMeant(f)[i] = key(i)
      BY <2>2
    <2> QED
      BY <2>2, <2>5, <2>6 DEF key
  <1>8. CASE k = 0
    <2>1. HeadOf(P, 3 + J + W) = "end_of_text"
      BY <1>2, <1>4, <1>8 DEF HeadsRight
    <2>2. TokAt(t, order) # "ORDER"
      BY <1>6, <2>1
    <2>3. keys = <<>>
      BY <1>7, <1>8
    <2> QED
      BY <1>5, <1>6, <1>7, <2>2, <2>3 DEF OrderRight
  <1>9. CASE k # 0
    <2> DEFINE at(i) == st[B + i] + (IF i = 1 THEN 2 ELSE 1)
    <2>1. ASSUME NEW i \in 1..k
          PROVE  /\ KeyRead(f.orderBy[i], t, at(i), st[B + i + 1]) /\ at(i) \in 1..T
                 /\ TokAt(t, st[B + i + 1]) = IF i = k THEN "end_of_text" ELSE Comma
                 /\ st[B + i + 1] \in 1..(T + 1)
      <3>1. B + i \in 1..N /\ B + i + 1 \in 1..(N + 1) /\ B + (i + 1) = B + i + 1
        <4>1. /\ B + i \in 1..(B + k) /\ B + i + 1 \in 1..(B + k + 1) /\ B + (i + 1) = B + i + 1
          OBVIOUS
        <4> QED
          BY <1>4, <4>1, Zenon
      <3>2. PICK z \in 1..(T + 1), y \in 1..(T + 1) :
              /\ z = st[B + i] /\ y = st[B + i + 1] /\ y = z + Len(P[B + i]) /\ WordsAt(t, z, P[B + i])
              /\ TokAt(t, y) = HeadOf(P, B + i + 1)
        <4>1. PieceIn(P, t, B + i, st[B + i], st[B + i + 1])
          BY <1>4, <3>1, PieceAt
        <4> QED
          BY <1>5, <4>1 DEF PieceIn
      <3>3. PICK w \in Seq(TextTokens) : w = P[B + i] /\ w = OrderPiece(f, i) /\ OrderSays(f.orderBy[i], i, w)
                                      /\ OrderOK(f.orderBy[i])
        <4>1. OrderOK(f.orderBy[i])
          BY <1>1, <1>4, InList DEF FormOK, KeysOf
        <4>2. P[2 + J + W + i] = OrderPiece(f, i)
          BY <1>1, <1>4, PiecesAre DEF PiecesRight
        <4>3. P[B + i] = OrderPiece(f, i)
          BY <1>4, <4>2
        <4> QED
          BY <4>1, <4>3, OrderPieceIs
      <3>4. HeadOf(P, B + i + 1) = IF i = k THEN "end_of_text" ELSE Comma
        <4>1. CASE i = k
          <5>1. B + i + 1 = 3 + J + W + K
            <6>1. B + k + 1 = (B + 1) + k /\ (2 + J + W) + 1 = 3 + J + W
              OBVIOUS
            <6> QED
              BY <1>4, <4>1, <6>1, Zenon
          <5> QED
            BY <1>2, <4>1, <5>1 DEF HeadsRight
        <4>2. CASE i # k
          <5>1. B + i + 1 \in (4 + J + W)..(2 + J + W + K)
            <6>1. i # k => B + i + 1 \in (B + 2)..(B + k)
              OBVIOUS
            <6>2. (2 + J + W) + 2 = 4 + J + W
              OBVIOUS
            <6> QED
              BY <1>4, <4>2, <6>1, <6>2, Zenon
          <5> QED
            BY <1>2, <4>2, <5>1 DEF HeadsRight
        <4> QED
          BY <4>1, <4>2
      <3>5. TokAt(t, y) \in {Comma, "end_of_text"}
        BY <3>2, <3>4
      <3>6. PICK b \in Nat : b = IF i = 1 THEN 2 ELSE 1
        OBVIOUS
      <3>7. KeyRead(f.orderBy[i], t, z + b, y)
        <4>1. z \in 1..(Len(t) + 1) /\ y \in 1..(Len(t) + 1) /\ y = z + Len(w) /\ WordsAt(t, z, w)
          BY <1>5, <3>2, <3>3
        <4> QED
          BY <3>3, <3>5, <3>6, <4>1, OrderKeyRead
      <3>8. at(i) = z + b
        BY <3>2, <3>6
      <3>9. z + b \in 1..T
        BY <1>5, <3>7 DEF KeyRead
      <3> HIDE DEF at
      <3> QED
        BY <3>2, <3>4, <3>7, <3>8, <3>9
    <2>2. ASSUME NEW i \in 1..(k - 1) PROVE st[B + i + 1] + 1 = at(i + 1)
      <3>1. B + (i + 1) = B + i + 1 /\ i + 1 # 1
        BY <1>4
      <3> QED
        BY <3>1
    <2>3. Past(t, order + 1, "BY") = at(1)
      <3>1. 1 \in 1..k /\ B + 1 \in 1..N
        BY <1>4, <1>9
      <3>2. PieceIn(P, t, B + 1, st[B + 1], st[B + 1 + 1])
        BY <1>4, <3>1, PieceAt
      <3>3. PICK w \in Seq(TextTokens) : w = P[B + 1] /\ w = OrderPiece(f, 1) /\ OrderSays(f.orderBy[1], 1, w)
        <4>1. OrderOK(f.orderBy[1])
          BY <1>1, <1>4, <3>1, InList DEF FormOK, KeysOf
        <4>2. P[2 + J + W + 1] = OrderPiece(f, 1)
          BY <1>1, <1>4, <3>1, PiecesAre DEF PiecesRight
        <4>3. P[B + 1] = OrderPiece(f, 1)
          BY <1>4, <4>2
        <4> QED
          BY <4>1, <4>3, OrderPieceIs
      <3>4. w[2] = "BY" /\ 2 \in 1..Len(w)
        <4>1. PICK d \in 0..1 : Len(w) = 2 + 1 + d /\ w[2] = "BY"
          BY <3>3 DEF OrderSays
        <4>2. 2 \in 1..(2 + 1 + d)
          OBVIOUS
        <4> QED
          BY <4>1, <4>2
      <3>5. WordsAt(t, order, w)
        BY <1>6, <3>2, <3>3 DEF PieceIn
      <3>6. TokAt(t, order + 2 - 1) = w[2] /\ order + 2 - 1 = order + 1
        BY <3>4, <3>5 DEF WordsAt
      <3>7. Past(t, order + 1, "BY") = order + 1 + 1
        BY <3>4, <3>6 DEF Past
      <3>8. order + 1 + 1 = order + 2
        OBVIOUS
      <3> QED
        BY <1>6, <3>7, <3>8
    <2>4. TokAt(t, order) = "ORDER"
      BY <1>2, <1>4, <1>6, <1>9 DEF HeadsRight
    <2> HIDE DEF at
    <2>5. /\ Rest(keys, k + 1) = <<>> /\ Rest(keys, 1) = keys
          /\ \A j \in 1..k : <<keys[j]>> \o Rest(keys, j + 1) = Rest(keys, j)
      BY <1>7, RestIs
    <2>6. ASSUME NEW i \in 1..k
          PROVE  ParseOrder(t)[at(i)] = <<keys[i]>> \o IF i = k THEN <<>> ELSE ParseOrder(t)[at(i + 1)]
      <3>1. PICK x \in 1..T, y \in 1..(T + 1) :
              x = at(i) /\ y = st[B + i + 1] /\ KeyRead(f.orderBy[i], t, x, y)
              /\ TokAt(t, y) = IF i = k THEN "end_of_text" ELSE Comma
        BY <2>1
      <3>2. x \in 1..(Len(t) + 1) /\ ~(x > Len(t))
        BY <1>5
      <3>3. ParseOrder(t)[x] = <<KeyAt(t, x)>> \o IF Follows(t, x) THEN ParseOrder(t)[DirectionAt(t, x) + 1] ELSE <<>>
        BY <3>2, ParseOrderAre
      <3>4. KeyAt(t, x) = keys[i] /\ DirectionAt(t, x) = y
        BY <1>7, <3>1 DEF KeyRead
      <3>5. Follows(t, x) <=> i # k
        BY <3>1, <3>4, CommaIs DEF Follows
      <3>6. i # k => y + 1 = at(i + 1)
        <4>1. i # k => i \in 1..(k - 1)
          OBVIOUS
        <4> QED
          BY <2>2, <3>1, <4>1
      <3> QED
        BY <3>1, <3>3, <3>4, <3>5, <3>6
    <2> DEFINE S == {n \in Nat : n < k => ParseOrder(t)[at(k - n)] = Rest(keys, k - n)}
    <2>7. 0 \in S
      <3>1. k - 0 = k /\ k \in 1..k
        BY <1>9
      <3>2. ParseOrder(t)[at(k)] = <<keys[k]>> \o <<>>
        BY <2>6, <3>1
      <3>3. Rest(keys, k) = <<keys[k]>> \o <<>>
        BY <2>5, <3>1
      <3> QED
        BY <3>1, <3>2, <3>3
    <2>8. ASSUME NEW n \in Nat, n \in S PROVE n + 1 \in S
      <3>1. CASE n + 1 < k
        <4>1. PICK i \in 1..k : i = k - (n + 1) /\ i + 1 = k - n /\ i # k
          BY <3>1
        <4>2. ParseOrder(t)[at(i + 1)] = Rest(keys, i + 1)
          BY <2>8, <3>1, <4>1
        <4>3. ParseOrder(t)[at(i)] = Rest(keys, i)
          BY <2>5, <2>6, <4>1, <4>2
        <4> QED
          BY <4>1, <4>3
      <3>2. CASE ~(n + 1 < k)
        BY <3>2
      <3> QED
        BY <3>1, <3>2
    <2>9. Nat \subseteq S
      <3> HIDE DEF S
      <3> QED
        BY <2>7, <2>8, UpTo
    <2>10. ParseOrder(t)[at(1)] = keys
      <3>1. k - 1 \in Nat /\ k - 1 < k /\ k - (k - 1) = 1
        BY <1>9
      <3>2. ParseOrder(t)[at(k - (k - 1))] = Rest(keys, k - (k - 1))
        BY <2>9, <3>1
      <3> QED
        BY <2>5, <3>1, <3>2
    <2> QED
      BY <1>5, <1>6, <1>7, <2>3, <2>4, <2>10 DEF OrderRight
  <1> QED
    BY <1>8, <1>9

-----------------------------------------------------------------------------
(***************************************************************************)
(* The whole statement.                                                    *)
(***************************************************************************)
\* A scope is named by one value, in the text as in what is meant.
LEMMA ScopeMeant ==
  ASSUME NEW f, FormOK(f), \A p \in 1..CondsOf(f) : SaidsOf(f)[p].kind # "broken", NEW kind \in Scopes
  PROVE  LastSaid(SaidIn(SaidsOf(f))[1][kind]) = TheOne(Named(ConditionsOf(f), kind))
  <1>1. PICK W \in Nat : W = CondsOf(f)
    BY LinkedIs, DomainIs DEF FormOK, CondsOf
  <1>2. PICK cs : cs = SaidsOf(f)
    OBVIOUS
  <1>3. /\ cs \in [1..W -> ConditionsOf(f)] /\ \A c \in ConditionsOf(f) : \E p \in 1..W : cs[p] = c
    BY <1>1, <1>2, LinkedIs DEF FormOK, LinkedRight, CondsOf, SaidsOf
  <1>4. cs \in Seq(ConditionsOf(f)) /\ Len(cs) = W
    <2>1. cs = [p \in 1..W |-> cs[p]] /\ \A p \in 1..W : cs[p] \in ConditionsOf(f)
      BY <1>3
    <2>2. [p \in 1..W |-> cs[p]] \in Seq(ConditionsOf(f)) /\ Len([p \in 1..W |-> cs[p]]) = W
      BY <2>1
    <2> QED
      BY <2>1, <2>2
  <1>5. \A p \in 1..Len(cs) : cs[p].kind \in SaidKinds
    <2>1. \A p \in 1..W : ConditionOK(cs[p])
      BY <1>3, ConditionsAreOK DEF FormOK
    <2> QED
      BY <1>4, <2>1 DEF ConditionOK, SaidKinds
  <1>6. SaidRight(cs, 1)
    <2>1. 1 \in 1..(Len(cs) + 1)
      BY <1>4
    <2> QED
      BY <1>4, <1>5, <2>1, SaidAre
  <1>7. kind \in SaidKinds
    BY DEF SaidKinds
  <1>8. PICK s \in Seq(WhatsOf(cs)) : s = SaidIn(cs)[1][kind] /\ ToSet(s) = WhatsFrom(cs, 1, kind)
    BY <1>6, <1>7 DEF SaidRight, SaidOf
  <1>9. WhatsFrom(cs, 1, kind) = Named(ConditionsOf(f), kind)
    <2>1. ASSUME NEW v \in WhatsFrom(cs, 1, kind) PROVE v \in Named(ConditionsOf(f), kind)
      <3>1. PICK k \in 1..W : cs[k].kind = kind /\ v = cs[k].what
        BY <1>4, <2>1 DEF WhatsFrom
      <3>2. cs[k] \in ConditionsOf(f)
        BY <1>3
      <3> QED
        BY <3>1, <3>2 DEF Named
    <2>2. ASSUME NEW v \in Named(ConditionsOf(f), kind) PROVE v \in WhatsFrom(cs, 1, kind)
      <3>1. PICK c \in ConditionsOf(f) : c.kind = kind /\ v = c.what
        BY <2>2 DEF Named
      <3>2. PICK p \in 1..W : cs[p] = c
        BY <1>3
      <3> QED
        BY <1>4, <3>1, <3>2 DEF WhatsFrom
    <2> QED
      BY <2>1, <2>2
  <1>10. PICK n \in Nat : n = Len(s) /\ DOMAIN s = 1..n
    BY DomainIs
  <1>11. CASE n = 0
    <2>1. s = <<>>
      BY <1>10, <1>11
    <2>2. Named(ConditionsOf(f), kind) = {}
      BY <1>8, <1>9, <1>10, <1>11 DEF ToSet
    <2> QED
      BY <1>2, <1>8, <2>1, <2>2 DEF LastSaid, TheOne
  <1>12. CASE n # 0
    <2>1. s # <<>> /\ n \in 1..n
      BY <1>10, <1>12
    <2>2. s[n] \in Named(ConditionsOf(f), kind)
      BY <1>8, <1>9, <1>10, <2>1 DEF ToSet
    <2>3. \A v, w \in Named(ConditionsOf(f), kind) : v = w
      BY DEF FormOK, AlternativesOK
    <2>4. TheOne(Named(ConditionsOf(f), kind)) \in Named(ConditionsOf(f), kind)
      BY <2>2 DEF TheOne
    <2>5. LastSaid(s) = s[n]
      BY <1>10, <2>1 DEF LastSaid
    <2>6. LastSaid(s) = TheOne(Named(ConditionsOf(f), kind))
      BY <2>2, <2>3, <2>4, <2>5
    <2> QED
      BY <1>2, <1>8, <2>6
  <1> QED
    BY <1>11, <1>12

\* The predicates of the only alternative are all that is said; those of one of
\* several are among what is said.
PredsSaid(s) == SaidIn(s)[1]["pred"]
\* They are those meant; with alternatives, all of one of them are among them.
PredsRight(f) ==
  LET said == PredsSaid(SaidsOf(f))
      meant == [a \in DOMAIN f.alternatives |-> PredsSaid(f.alternatives[a])]
  IN  \/ <<said>> = meant
      \/ Len(meant) > 1 /\ \E a \in DOMAIN meant : ToSet(meant[a]) \subseteq ToSet(said)

\* So they are in every statement.
LEMMA PredsMeant ==
  ASSUME NEW f, FormOK(f)
  PROVE  PredsRight(f)
  <1>1. PICK W \in Nat : W = CondsOf(f)
    BY LinkedIs, DomainIs DEF FormOK, CondsOf
  <1>2. PICK cs : cs = SaidsOf(f)
    OBVIOUS
  <1>3. /\ cs \in [1..W -> ConditionsOf(f)] /\ \A c \in ConditionsOf(f) : \E p \in 1..W : cs[p] = c
    BY <1>1, <1>2, LinkedIs DEF FormOK, LinkedRight, CondsOf, SaidsOf
  <1>4. cs \in Seq(ConditionsOf(f)) /\ Len(cs) = W
    <2>1. cs = [p \in 1..W |-> cs[p]] /\ \A p \in 1..W : cs[p] \in ConditionsOf(f)
      BY <1>3
    <2>2. [p \in 1..W |-> cs[p]] \in Seq(ConditionsOf(f)) /\ Len([p \in 1..W |-> cs[p]]) = W
      BY <2>1
    <2> QED
      BY <2>1, <2>2
  <1>5. \A c \in ConditionsOf(f) : c.kind \in SaidKinds
    <2>1. \A c \in ConditionsOf(f) : ConditionOK(c)
      BY ConditionsAreOK DEF FormOK
    <2> QED
      BY <2>1 DEF ConditionOK, SaidKinds
  <1>6. PICK n \in Nat : n = Len(f.alternatives) /\ DOMAIN f.alternatives = 1..n /\ n # 0
    <2>1. IsList(f.alternatives) /\ f.alternatives # <<>>
      BY DEF FormOK, AlternativesOK
    <2>2. PICK s \in Seq(ToSet(f.alternatives)) : s = f.alternatives
      BY <2>1 DEF IsList
    <2>3. PICK n \in Nat : n = Len(s) /\ DOMAIN s = 1..n
      BY DomainIs
    <2>4. n # 0
      BY <2>1, <2>2, <2>3
    <2> QED
      BY <2>2, <2>3, <2>4
  <1>7. 1 \in 1..n
    BY <1>6
  <1>8. PICK alt \in Seq(ToSet(f.alternatives[1])), m \in Nat :
          alt = f.alternatives[1] /\ m = Len(alt) /\ DOMAIN alt = 1..m
    <2>1. IsList(f.alternatives[1])
      BY <1>6, <1>7 DEF FormOK, AlternativesOK
    <2>2. PICK alt \in Seq(ToSet(f.alternatives[1])) : alt = f.alternatives[1]
      BY <2>1 DEF IsList
    <2> QED
      BY <2>2, DomainIs
  <1>9. ToSet(alt) \subseteq ConditionsOf(f)
    BY <1>6, <1>7, <1>8 DEF ConditionsOf
  <1> DEFINE lists == [a \in DOMAIN f.alternatives |-> PredsSaid(f.alternatives[a])]
  <1>10. CASE n = 1
    <2>1. m = W /\ \A p \in 1..W : cs[p] = alt[p]
      <3>1. Len(Linked(f)) = Len(f.alternatives[1]) /\ \A p \in 1..Len(Linked(f)) : Linked(f)[p].said = f.alternatives[1][p]
        BY <1>6, <1>10, LinkedIs DEF FormOK, LinkedRight
      <3> QED
        BY <1>1, <1>2, <1>8, <3>1 DEF CondsOf, SaidsOf
    <2>2. cs = alt
      <3>1. DOMAIN cs = 1..W /\ cs = [p \in 1..W |-> cs[p]]
        BY <1>3
      <3>2. alt = [p \in 1..m |-> alt[p]]
        BY <1>8
      <3> QED
        BY <2>1, <3>1, <3>2
    <2>3. lists = [a \in 1..1 |-> PredsSaid(f.alternatives[a])]
      BY <1>6, <1>10
    <2>4. <<PredsSaid(alt)>> = [a \in 1..1 |-> PredsSaid(f.alternatives[a])]
      BY <1>8
    <2> QED
      BY <1>2, <2>2, <2>3, <2>4 DEF PredsRight
  <1>11. CASE n # 1
    <2>1. Len(lists) > 1 /\ DOMAIN lists = 1..n /\ lists[1] = PredsSaid(alt)
      <3>1. lists = [a \in 1..n |-> PredsSaid(f.alternatives[a])]
        BY <1>6
      <3>2. Len([a \in 1..n |-> PredsSaid(f.alternatives[a])]) = n
        OBVIOUS
      <3>3. n > 1
        <4>1. n # 0 /\ n # 1
          BY <1>6, <1>11
        <4>2. n # 0 /\ n # 1 => n > 1
          OBVIOUS
        <4> QED
          BY <4>1, <4>2
      <3>4. DOMAIN lists = 1..n /\ lists[1] = PredsSaid(f.alternatives[1])
        BY <1>7, <3>1
      <3> QED
        BY <1>8, <3>1, <3>2, <3>3, <3>4
    <2>2. "pred" \in SaidKinds
      BY DEF SaidKinds
    <2>3. ToSet(PredsSaid(cs)) = WhatsFrom(cs, 1, "pred")
      <3>1. 1 \in 1..(Len(cs) + 1) /\ \A k \in 1..Len(cs) : cs[k].kind \in SaidKinds
        BY <1>3, <1>4, <1>5
      <3>2. SaidRight(cs, 1)
        BY <1>4, <3>1, SaidAre
      <3> QED
        BY <2>2, <3>2 DEF SaidRight, PredsSaid
    <2>4. ToSet(PredsSaid(alt)) = WhatsFrom(alt, 1, "pred")
      <3>1. 1 \in 1..(Len(alt) + 1) /\ \A k \in 1..Len(alt) : alt[k].kind \in SaidKinds
        <4>1. 1 \in 1..(m + 1)
          OBVIOUS
        <4>2. \A k \in 1..m : alt[k] \in ConditionsOf(f)
          BY <1>8, <1>9 DEF ToSet
        <4> QED
          BY <1>5, <1>8, <4>1, <4>2
      <3>2. SaidRight(alt, 1)
        BY <1>8, <3>1, SaidAre
      <3> QED
        BY <2>2, <3>2 DEF SaidRight, PredsSaid
    <2>5. ASSUME NEW v \in WhatsFrom(alt, 1, "pred") PROVE v \in WhatsFrom(cs, 1, "pred")
      <3>1. PICK k \in 1..m : alt[k].kind = "pred" /\ v = alt[k].what
        BY <1>8, <2>5 DEF WhatsFrom
      <3>2. alt[k] \in ConditionsOf(f)
        BY <1>8, <1>9 DEF ToSet
      <3>3. PICK p \in 1..W : cs[p] = alt[k]
        BY <1>3, <3>2
      <3> QED
        BY <1>4, <3>1, <3>3 DEF WhatsFrom
    <2>6. Len(lists) > 1 /\ \E a \in DOMAIN lists : ToSet(lists[a]) \subseteq ToSet(PredsSaid(cs))
      BY <1>7, <2>1, <2>3, <2>4, <2>5
    <2> QED
      BY <1>2, <2>6 DEF PredsRight
  <1> QED
    BY <1>10, <1>11

\* A statement in its parts is understood as it was meant.
LEMMA FormParsed ==
  ASSUME NEW f, FormOK(f)
  PROVE  Understood(parseQuery(Text(f)), MeaningOf(f))
  <1>1. PICK t, P, st : t \in Seq(TextTokens) /\ t = Text(f) /\ P = Pieces(f) /\ LaidIn(P, t, st)
    BY TextLaid
  <1>2. PICK J \in Nat, W \in Nat : J = JoinsOf(f) /\ W = CondsOf(f)
    <2>1. HeadsRight(P, JoinsOf(f), CondsOf(f), KeysOf(f))
      BY <1>1, HeadsAre
    <2> QED
      BY <2>1 DEF HeadsRight
  <1>3. FromRight(f, t, st)
    BY <1>1, FromRead
  <1>4. PastJoins(t)[st[3]] = st[3 + J]
    BY <1>1, <1>2, JoinsRead
  <1>5. PICK where, order : where = st[3 + J] /\ order = st[3 + J + W]
    OBVIOUS
  <1>6. PICK said : said = WhereSaid(t, where) /\ SaidWell(SaidsOf(f), said, order)
    BY <1>1, <1>2, <1>5, WhereRead
  <1>7. OrderRight(f, t, order)
    BY <1>1, <1>2, <1>5, OrderRead
  <1> DEFINE read == Meaning(f.type, <<LastSaid(said["IN_FOLDER"]), LastSaid(said["IN_TREE"])>>, LastSaid(said["CONTAINS"]),
                       <<said["pred"]>>,
                       IF TokAt(t, said["end"][1]) = "ORDER" THEN ParseOrder(t)[Past(t, said["end"][1] + 1, "BY")]
                       ELSE <<>>)
  <1>8. parseQuery(t) = IF said["broken"] # <<>> THEN Refused ELSE read
    BY <1>3, <1>4, <1>5, <1>6 DEF parseQuery, FromRight, WhereSaid
  <1>9. /\ \A p \in 1..W : SaidsOf(f)[p] \in ConditionsOf(f)
        /\ \A c \in ConditionsOf(f) : \E p \in 1..W : SaidsOf(f)[p] = c
        /\ Len(SaidsOf(f)) = W
    <2>1. /\ \A p \in 1..W : Linked(f)[p].said \in ConditionsOf(f)
          /\ \A c \in ConditionsOf(f) : \E p \in 1..W : Linked(f)[p].said = c
      BY <1>2, LinkedIs DEF FormOK, LinkedRight, CondsOf
    <2>2. SaidsOf(f) = [p \in 1..W |-> Linked(f)[p].said]
      BY <1>2 DEF SaidsOf
    <2>3. Len([p \in 1..W |-> Linked(f)[p].said]) = W
      OBVIOUS
    <2> QED
      BY <2>1, <2>2, <2>3
  <1>10. CASE \E c \in ConditionsOf(f) : c.kind = "broken"
    <2>1. MeaningOf(f) = Refused
      BY <1>10 DEF MeaningOf
    <2>2. said["broken"] # <<>>
      BY <1>6, <1>9, <1>10 DEF SaidWell
    <2> QED
      BY <1>1, <1>8, <2>1, <2>2 DEF Understood
  <1>11. CASE ~\E c \in ConditionsOf(f) : c.kind = "broken"
    <2>1. \A p \in 1..W : SaidsOf(f)[p].kind # "broken"
      BY <1>9, <1>11
    <2>2. /\ said["broken"] = <<>> /\ said["end"] = <<order>>
          /\ \A kind \in SaidKinds \ {"end"} : said[kind] = SaidIn(SaidsOf(f))[1][kind]
      BY <1>6, <1>9, <2>1 DEF SaidWell
    <2>3. said["end"][1] = order
      BY <2>2
    <2>4. {"IN_FOLDER", "IN_TREE", "CONTAINS", "pred"} \subseteq SaidKinds \ {"end"}
      BY DEF SaidKinds, Scopes
    <2>5. \A kind \in Scopes : LastSaid(said[kind]) = TheOne(Named(ConditionsOf(f), kind))
      <3>1. \A kind \in Scopes : said[kind] = SaidIn(SaidsOf(f))[1][kind]
        BY <2>2, <2>4 DEF Scopes
      <3>2. \A p \in 1..CondsOf(f) : SaidsOf(f)[p].kind # "broken"
        BY <1>2, <2>1
      <3> QED
        BY <3>1, <3>2, ScopeMeant
    <2>6. PICK scope, contains, preds, meant :
            /\ scope = <<TheOne(Named(ConditionsOf(f), "IN_FOLDER")), TheOne(Named(ConditionsOf(f), "IN_TREE"))>>
            /\ contains = TheOne(Named(ConditionsOf(f), "CONTAINS"))
            /\ preds = SaidIn(SaidsOf(f))[1]["pred"]
            /\ meant = [a \in DOMAIN f.alternatives |-> SaidIn(f.alternatives[a])[1]["pred"]]
      OBVIOUS
    <2>7. read = Meaning(f.type, scope, contains, <<preds>>, KeysMeant(f))
      <3>1. /\ LastSaid(said["IN_FOLDER"]) = TheOne(Named(ConditionsOf(f), "IN_FOLDER"))
            /\ LastSaid(said["IN_TREE"]) = TheOne(Named(ConditionsOf(f), "IN_TREE"))
            /\ LastSaid(said["CONTAINS"]) = TheOne(Named(ConditionsOf(f), "CONTAINS"))
        BY <2>5 DEF Scopes
      <3>2. said["pred"] = preds
        BY <2>2, <2>4, <2>6
      <3>3. (IF TokAt(t, order) = "ORDER" THEN ParseOrder(t)[Past(t, order + 1, "BY")] ELSE <<>>) = KeysMeant(f)
        BY <1>7 DEF OrderRight
      <3> QED
        BY <2>3, <2>6, <3>1, <3>2, <3>3
    <2>8. MeaningOf(f) = Meaning(f.type, scope, contains, meant, KeysMeant(f))
      BY <1>11, <2>6 DEF MeaningOf, KeysMeant
    <2>9. parseQuery(t) = Meaning(f.type, scope, contains, <<preds>>, KeysMeant(f))
      BY <1>8, <2>2, <2>7
    <2>10. <<preds>> = meant \/ (Len(meant) > 1 /\ \E a \in DOMAIN meant : ToSet(meant[a]) \subseteq ToSet(preds))
      BY <2>6, PredsMeant DEF PredsRight, PredsSaid
    <2>11. CASE <<preds>> = meant
      BY <1>1, <2>8, <2>9, <2>11 DEF Understood
    <2>12. CASE Len(meant) > 1 /\ \E a \in DOMAIN meant : ToSet(meant[a]) \subseteq ToSet(preds)
      <3>1. PICK q, m : q = Meaning(f.type, scope, contains, <<preds>>, KeysMeant(f))
                        /\ m = Meaning(f.type, scope, contains, meant, KeysMeant(f))
        OBVIOUS
      <3>2. m.where = meant /\ q.where = <<preds>> /\ [q EXCEPT !.where = meant] = m
        BY <3>1 DEF Meaning
      <3>3. q.where[1] = preds
        BY <3>2
      <3>4. Understood(q, m)
        BY <2>12, <3>2, <3>3 DEF Understood
      <3> QED
        BY <1>1, <2>8, <2>9, <3>1, <3>4
    <2> QED
      BY <2>10, <2>11, <2>12
  <1> QED
    BY <1>10, <1>11

\* A fragment is refused.
LEMMA FragmentRefused ==
  ASSUME NEW t \in Seq(STRING), t = <<>> \/ t[1] # "SELECT" \/ \A i \in 2..(Len(t) - 1) : t[i] # "FROM"
  PROVE  parseQuery(t) = Refused
  <1>1. PICK n \in Nat : n = Len(t)
    BY DomainIs
  <1>2. CASE TokAt(t, 1) # "SELECT"
    BY <1>2 DEF parseQuery
  <1>3. CASE TokAt(t, 1) = "SELECT"
    <2>1. 1 \in 1..n /\ t[1] = "SELECT" /\ t # <<>>
      <3>1. 1 \in 1..Len(t) /\ t[1] = TokAt(t, 1)
        <4>1. TokAt(t, 1) # "end_of_text"
          BY <1>3
        <4> QED
          BY <4>1, TokAtIn
      <3> QED
        BY <1>1, <1>3, <3>1
    <2>2. \A i \in 2..(n - 1) : t[i] # "FROM"
      BY <1>1, <2>1
    <2> DEFINE from == IF TokAt(t, 2) = "*" THEN 3 ELSE Upto(t, 2, {"FROM"})
    <2>3. from \in Nat /\ from >= 2
      <3>1. 2 \in 1..(Len(t) + 1)
        BY <1>1, <2>1
      <3>2. Upto(t, 2, {"FROM"}) \in 2..(Len(t) + 1)
        BY <3>1, UptoIn
      <3> QED
        BY <1>1, <3>2
    <2> HIDE DEF from
    <2>4. TokAt(t, from) # "FROM" \/ from = Len(t)
      <3>1. CASE TokAt(t, from) = "FROM"
        <4>1. TokAt(t, from) # "end_of_text"
          BY <3>1
        <4>2. from \in 1..Len(t) /\ t[from] = "FROM"
          BY <2>3, <3>1, <4>1, TokAtIn
        <4>3. from \notin 2..(n - 1)
          BY <2>2, <4>2
        <4> QED
          BY <1>1, <2>3, <4>2, <4>3
      <3> QED
        BY <3>1
    <2> QED
      BY <2>4 DEF parseQuery, from
  <1> QED
    BY <1>2, <1>3

\* Every statement is understood, or refused where it is to be.
LEMMA StatementParsed ==
  ASSUME NEW s \in Statements
  PROVE  Understood(parseQuery(s.text), s.meant)
  <1>1. CASE s \in {[text |-> Text(f), meant |-> MeaningOf(f)] : f \in Forms}
    <2>1. PICK f \in Forms : s = [text |-> Text(f), meant |-> MeaningOf(f)]
      BY <1>1
    <2>2. FormOK(f)
      BY FormsOK DEF FormOK
    <2> QED
      BY <2>1, <2>2, FormParsed
  <1>2. CASE s \in {[text |-> t, meant |-> Refused] : t \in Fragments}
    <2>1. PICK t \in Fragments : s = [text |-> t, meant |-> Refused]
      BY <1>2
    <2>2. parseQuery(t) = Refused
      BY FragmentsOK, FragmentRefused
    <2> QED
      BY <2>1, <2>2 DEF Understood
  <1> QED
    BY <1>1, <1>2 DEF Statements

\* What is meant is ordered by a list of keys.
LEMMA OrderMeant ==
  ASSUME NEW s \in Statements
  PROVE  \E n \in Nat : DOMAIN s.meant.orderBy = 1..n
  <1>1. \E n \in Nat : DOMAIN Refused.orderBy = 1..n
    <2>1. Refused.orderBy = <<>>
      BY DEF Refused, Meaning
    <2>2. DOMAIN <<>> = 1..0
      OBVIOUS
    <2> QED
      BY <2>1, <2>2
  <1>2. ASSUME NEW f \in Forms PROVE \E n \in Nat : DOMAIN MeaningOf(f).orderBy = 1..n
    <2>1. CASE MeaningOf(f) = Refused
      BY <1>1, <2>1
    <2>2. CASE MeaningOf(f) # Refused
      <3>1. MeaningOf(f).orderBy = KeysMeant(f)
        BY <2>2 DEF MeaningOf, KeysMeant, Meaning
      <3>2. DOMAIN f.orderBy = 1..Len(f.orderBy) /\ Len(f.orderBy) \in Nat
        BY FormsOK, InList
      <3> QED
        BY <3>1, <3>2 DEF KeysMeant
    <2> QED
      BY <2>1, <2>2
  <1>3. \/ \E f \in Forms : s.meant = MeaningOf(f)
        \/ s.meant = Refused
    BY DEF Statements
  <1> QED
    BY <1>1, <1>2, <1>3

-----------------------------------------------------------------------------
(***************************************************************************)
(* The answers.  With a total order the sorted answer is one sequence, in  *)
(* whatever order the folders list (SortedAlike), and what the client has  *)
(* got is the beginning of it.                                             *)
(***************************************************************************)
\* All that are found, each once.
LEMMA InSomeOrder ==
  ASSUME NEW S \in SUBSET Found, NEW s \in SetToSeqs(S)
  PROVE  /\ s \in Seq(S) /\ Len(s) = Cardinality(S) /\ Len(s) \in 0..MaxInt
         /\ DOMAIN s = 1..Len(s)
         /\ \A i, k \in 1..Len(s) : s[i] = s[k] => i = k
         /\ \A x \in S : \E i \in 1..Len(s) : s[i] = x
  <1>1. IsFiniteSet(S) /\ Cardinality(S) \in Nat /\ Cardinality(S) <= MaxInt
    <2>1. IsFiniteSet(Found) /\ Cardinality(Found) <= MaxInt /\ Cardinality(Found) \in Nat
      BY QueryConstants, FS_CardinalityType DEF Found
    <2>2. IsFiniteSet(S) /\ Cardinality(S) <= Cardinality(Found)
      BY <2>1, FS_Subset
    <2>3. Cardinality(S) \in Nat
      BY <2>2, FS_CardinalityType
    <2> QED
      BY <2>1, <2>2, <2>3, QueryConstants
  <1>2. PICK n \in Nat : n = Cardinality(S) /\ n <= MaxInt
    BY <1>1
  <1>3. s \in [1..n -> S] /\ \A i, k \in 1..n : i # k => s[i] # s[k]
    BY <1>2 DEF SetToSeqs
  <1>4. Len(s) = n /\ DOMAIN s = 1..n /\ s \in Seq(S)
    BY <1>3
  <1>5. \A x \in S : \E i \in 1..n : s[i] = x
    <2>1. s \in Injection(1..n, S)
      BY <1>3 DEF Injection, IsInjective
    <2>2. Cardinality(1..n) = n
      BY FS_Interval
    <2>3. s \in Surjection(1..n, S)
      BY <1>1, <1>2, <2>1, <2>2, FS_Injection
    <2> QED
      BY <2>3 DEF Surjection
  <1> QED
    BY <1>2, <1>3, <1>4, <1>5, QueryConstants

\* Every value has its place.
LEMMA Ranked ==
  ASSUME NEW o \in Found, NEW p, NEW told
  PROVE  Rank[getObjectPropertyValue(o, p, told)] \in Nat
  BY QueryConstants DEF getObjectPropertyValue, ValueIn, Range, Found

\* Of two objects one comes first at most.
LEMMA NotBothBefore ==
  ASSUME NEW ob, NEW n \in Nat, DOMAIN ob = 1..n, NEW o \in Found, NEW x \in Found, NEW told,
         Before(ob, o, x, told), Before(ob, x, o, told)
  PROVE  FALSE
  <1> DEFINE value(i, y) == Rank[getObjectPropertyValue(y, ob[i].property, told)]
  <1>1. PICK i \in 1..n : /\ \A k \in 1..(i - 1) : value(k, o) = value(k, x)
                          /\ IF ob[i].descending THEN value(i, o) > value(i, x) ELSE value(i, o) < value(i, x)
    BY DEF Before
  <1>2. PICK j \in 1..n : /\ \A k \in 1..(j - 1) : value(k, x) = value(k, o)
                          /\ IF ob[j].descending THEN value(j, x) > value(j, o) ELSE value(j, x) < value(j, o)
    BY DEF Before
  <1>3. \A k \in 1..n : value(k, o) \in Nat /\ value(k, x) \in Nat
    BY Ranked
  <1> HIDE DEF value
  <1>4. value(i, o) # value(i, x) /\ value(j, o) # value(j, x)
    BY <1>1, <1>2, <1>3
  <1>5. i = j
    BY <1>1, <1>2, <1>4
  <1> QED
    BY <1>1, <1>2, <1>3, <1>5

\* Two sorted sequences of the same objects are the same, if the order is total: they
\* cannot differ at a first place.
LEMMA SortedAlike ==
  ASSUME NEW ob, NEW n \in Nat, DOMAIN ob = 1..n, NEW S \in SUBSET Found, NEW told,
         \A o, x \in S : o # x => Before(ob, o, x, told) \/ Before(ob, x, o, told),
         NEW s \in sortResults(S, ob, told), NEW t \in sortResults(S, ob, told)
  PROVE  s = t
  <1>1. /\ s \in Seq(S) /\ Len(s) = Cardinality(S) /\ DOMAIN s = 1..Len(s)
        /\ \A i, k \in 1..Len(s) : s[i] = s[k] => i = k
        /\ \A x \in S : \E i \in 1..Len(s) : s[i] = x
    BY InSomeOrder DEF sortResults
  <1>2. /\ t \in Seq(S) /\ Len(t) = Cardinality(S) /\ DOMAIN t = 1..Len(t)
        /\ \A i, k \in 1..Len(t) : t[i] = t[k] => i = k
        /\ \A x \in S : \E i \in 1..Len(t) : t[i] = x
    BY InSomeOrder DEF sortResults
  <1>3. PICK m \in Nat : m = Len(s) /\ m = Len(t)
    BY <1>1, <1>2
  <1>4. ASSUME NEW i \in 1..m, s[i] # t[i], \A k \in 1..(i - 1) : s[k] = t[k]
        PROVE  FALSE
    <2>1. s[i] \in S /\ t[i] \in S
      BY <1>1, <1>2, <1>3
    <2>2. PICK j \in 1..m, k \in 1..m : t[j] = s[i] /\ s[k] = t[i]
      BY <1>1, <1>2, <1>3, <2>1
    <2>3. j > i /\ k > i
      BY <1>1, <1>2, <1>3, <1>4, <2>2
    <2>4. ~Before(ob, t[j], t[i], told) /\ ~Before(ob, s[k], s[i], told)
      BY <1>1, <1>2, <1>3, <2>2, <2>3 DEF sortResults
    <2> QED
      BY <1>4, <2>1, <2>2, <2>4
  <1>5. \A i \in 1..m : s[i] = t[i]
    <2> SUFFICES ASSUME NEW i \in 1..m, s[i] # t[i] PROVE FALSE
      OBVIOUS
    <2> DEFINE Bad == {k \in 1..m : s[k] # t[k]}
    <2>0. Bad \subseteq Nat /\ Bad # {}
      OBVIOUS
    <2>1. PICK k \in Bad : \A e \in Bad : k <= e
      BY <2>0, LeastNat
    <2> QED
      BY <1>4, <2>1
  <1> QED
    BY <1>1, <1>2, <1>3, <1>5, SeqEqual

\* The folders listed, and the metadata needed had.
Complete(q, failed, told) ==
  /\ Reached(q, failed) = Reached(q, {})
  /\ IF needsMetadata(q) THEN Reached(q, {}) \subseteq told ELSE told = {}

\* What is not metadata, or was told, is as if all were told.
LEMMA ToldEnough ==
  ASSUME NEW o \in Found, NEW p, NEW told, p \in MetaProperties => o \in told
  PROVE  /\ getPropertyValue(o, p, told) = getPropertyValue(o, p, Found)
         /\ getObjectPropertyValue(o, p, told) = getObjectPropertyValue(o, p, Found)
  BY DEF getPropertyValue, getObjectPropertyValue, ValueIn

\* So a statement with the metadata it needs orders the same,
LEMMA OrdersAlike ==
  ASSUME NEW q, NEW n \in Nat, DOMAIN q.orderBy = 1..n, NEW told, NEW o \in Found, NEW x \in Found,
         IF needsMetadata(q) THEN {o, x} \subseteq told ELSE told = {}
  PROVE  Before(q.orderBy, o, x, told) <=> Before(q.orderBy, o, x, Found)
  <1>1. \A i \in 1..n, y \in {o, x} :
          getObjectPropertyValue(y, q.orderBy[i].property, told)
            = getObjectPropertyValue(y, q.orderBy[i].property, Found)
    <2>1. CASE needsMetadata(q)
      BY <2>1, ToldEnough
    <2>2. CASE ~needsMetadata(q)
      <3>1. \A i \in DOMAIN q.orderBy : q.orderBy[i].property \notin MetaProperties
        BY <2>2 DEF needsMetadata, ToSet
      <3> QED
        BY <3>1, ToldEnough
    <2> QED
      BY <2>1, <2>2
  <1>2. \A i \in 1..n, y \in {o, x} :
          Rank[getObjectPropertyValue(y, q.orderBy[i].property, told)]
            = Rank[getObjectPropertyValue(y, q.orderBy[i].property, Found)]
    BY <1>1
  <1>3. \A i \in 1..n : \A k \in 1..(i - 1) : k \in 1..n
    OBVIOUS
  <1> QED
    BY <1>2, <1>3 DEF Before

\* and selects the same.
LEMMA HoldsAlike ==
  ASSUME NEW q, NEW told, needsMetadata(q) \/ told = {}, NEW o \in Found, needsMetadata(q) => o \in told
  PROVE  /\ \A p \in ToSet(q.where[1]) : Holds(p, o, told) <=> Holds(p, o, Found)
         /\ q.contains # Empty => (matchesContains(o, q.contains, told) <=> matchesContains(o, q.contains, Found))
  <1>1. CASE needsMetadata(q)
    <2>1. \A p : getPropertyValue(o, p, told) = getPropertyValue(o, p, Found)
      BY <1>1, ToldEnough
    <2> QED
      BY <2>1 DEF Holds, matchesContains
  <1>2. CASE ~needsMetadata(q)
    <2>1. q.contains = Empty /\ \A p \in ToSet(q.where[1]) : p.property \notin MetaProperties
      BY <1>2 DEF needsMetadata
    <2>2. \A p \in ToSet(q.where[1]) : getPropertyValue(o, p.property, told) = getPropertyValue(o, p.property, Found)
      BY <2>1, ToldEnough
    <2> QED
      BY <2>1, <2>2 DEF Holds
  <1> QED
    BY <1>1, <1>2

\* A statement the parser takes.
Parsed(t, q) == q = parseQuery(t) /\ q # Refused

Shaped(q) == q = Meaning(q.type, q.scope, q.contains, <<q.where[1]>>, q.orderBy)

\* It has its conditions in one conjunction.
LEMMA ParsedShape ==
  ASSUME NEW t, NEW q, Parsed(t, q)
  PROVE  Shaped(q)
  BY DEF Parsed, parseQuery, Meaning, Shaped

\* Where all folders list, nothing is reached that some of them would have kept away.
LEMMA ReachedFound ==
  ASSUME NEW q, NEW failed
  PROVE  Reached(q, failed) \subseteq Reached(q, {}) /\ Reached(q, {}) \subseteq Found
  BY DEF Reached, InScope

\* What matches was asked for.
LEMMA MatchesAsked ==
  ASSUME NEW t, NEW m, NEW q, Parsed(t, q), Understood(q, m), NEW failed, NEW told,
         needsMetadata(q) \/ told = {} \/ told = Found,
         NEW o \in Matches(q, failed, told), needsMetadata(q) => o \in told
  PROVE  o \in AskedBy(m)
  <1>1. Shaped(q)
    BY ParsedShape
  <1>2. o \in Reached(q, {}) /\ o \in Found
    BY ReachedFound DEF Matches
  <1>3. /\ \A p \in ToSet(q.where[1]) : Holds(p, o, Found)
        /\ q.contains # Empty => matchesContains(o, q.contains, Found)
    <2>1. CASE told = Found
      BY <2>1 DEF Matches
    <2>2. CASE told # Found
      BY <1>2, <2>2, HoldsAlike DEF Matches
    <2> QED
      BY <2>1, <2>2
  <1>4. m.type = q.type /\ m.scope = q.scope /\ m.contains = q.contains
    BY <1>1 DEF Understood, Shaped, Meaning
  <1>5. Reached(m, {}) = Reached(q, {})
    BY <1>4 DEF Reached, Searched
  <1>6. \E i \in DOMAIN m.where : ToSet(m.where[i]) \subseteq ToSet(q.where[1])
    <2>1. CASE q = m
      <3>1. 1 \in DOMAIN q.where
        BY <1>1 DEF Shaped, Meaning
      <3> QED
        BY <2>1, <3>1
    <2> QED
      BY <2>1 DEF Understood
  <1> QED
    BY <1>2, <1>3, <1>4, <1>5, <1>6 DEF AskedBy

\* What a statement finds when nothing fails.
WholeAnswer(q) == Matches(q, {}, Found)

\* It was asked for, and is all that was if nothing else was asked for.
LEMMA WholeIsAsked ==
  ASSUME NEW t, NEW m, NEW q, Parsed(t, q), Understood(q, m)
  PROVE  /\ WholeAnswer(q) \subseteq AskedBy(m) /\ WholeAnswer(q) \in SUBSET Found
         /\ q.orderBy = m.orderBy
         /\ Len(m.where) = 1 => WholeAnswer(q) = AskedBy(m)
  <1>1. Shaped(q)
    BY ParsedShape
  <1>2. ASSUME NEW o \in WholeAnswer(q) PROVE o \in Found /\ o \in AskedBy(m)
    <2>1. o \in Matches(q, {}, Found) /\ o \in Found
      BY <1>2, ReachedFound DEF WholeAnswer, Matches
    <2> QED
      BY <2>1, MatchesAsked
  <1>3. q.orderBy = m.orderBy
    BY <1>1 DEF Understood, Shaped, Meaning
  <1>4. ASSUME Len(m.where) = 1 PROVE AskedBy(m) \subseteq WholeAnswer(q)
    <2>1. q = m
      BY <1>4 DEF Understood
    <2>2. DOMAIN q.where = {1}
      BY <1>1 DEF Shaped, Meaning
    <2> QED
      BY <2>1, <2>2 DEF AskedBy, WholeAnswer, Matches
  <1> QED
    BY <1>2, <1>3, <1>4

\* With all folders listed and all metadata had, that is what is found.
LEMMA MatchesAll ==
  ASSUME NEW q, NEW failed, NEW told, Complete(q, failed, told), NEW n \in Nat, DOMAIN q.orderBy = 1..n
  PROVE  sortResults(Matches(q, failed, told), q.orderBy, told)
           = sortResults(WholeAnswer(q), q.orderBy, Found)
  <1>1. ASSUME NEW o \in Reached(q, {})
        PROVE  o \in Found /\ (o \in Matches(q, failed, told) <=> o \in WholeAnswer(q))
    <2>1. o \in Found /\ o \in Reached(q, failed)
      BY <1>1, ReachedFound DEF Complete
    <2>2. (needsMetadata(q) \/ told = {}) /\ (needsMetadata(q) => o \in told)
      BY <1>1 DEF Complete
    <2>3. /\ \A p \in ToSet(q.where[1]) : Holds(p, o, told) <=> Holds(p, o, Found)
          /\ q.contains # Empty => (matchesContains(o, q.contains, told) <=> matchesContains(o, q.contains, Found))
      BY <2>1, <2>2, HoldsAlike
    <2> QED
      BY <1>1, <2>1, <2>3 DEF Matches, WholeAnswer
  <1>2. Matches(q, failed, told) = WholeAnswer(q) /\ WholeAnswer(q) \subseteq Reached(q, {})
    BY <1>1 DEF Matches, WholeAnswer, Complete
  <1>3. WholeAnswer(q) \in SUBSET Found
    BY <1>2, ReachedFound
  <1>4. ASSUME NEW s \in SetToSeqs(WholeAnswer(q)), NEW i \in DOMAIN s, NEW k \in DOMAIN s
        PROVE  Before(q.orderBy, s[k], s[i], told) <=> Before(q.orderBy, s[k], s[i], Found)
    <2>1. s \in Seq(WholeAnswer(q))
      BY <1>3, InSomeOrder
    <2>2. s[i] \in Reached(q, {}) /\ s[k] \in Reached(q, {})
      BY <1>2, <2>1
    <2>3. s[i] \in Found /\ s[k] \in Found
      BY <2>2, ReachedFound
    <2>4. IF needsMetadata(q) THEN {s[k], s[i]} \subseteq told ELSE told = {}
      BY <2>2 DEF Complete
    <2> QED
      BY <2>3, <2>4, OrdersAlike
  <1>5. sortResults(WholeAnswer(q), q.orderBy, told) = sortResults(WholeAnswer(q), q.orderBy, Found)
    BY <1>4 DEF sortResults
  <1> QED
    BY <1>2, <1>5

\* The window is within what was found, unless its end overflowed.
LEMMA WindowIs ==
  ASSUME NEW total \in 0..MaxInt, NEW skip \in Nat, NEW max \in 0..MaxInt
  PROVE  LET w == Window(total, skip, max)
         IN  /\ w.from = (IF skip <= total THEN skip ELSE total) /\ w.from \in 0..total
             /\ w.to < w.from => skip + max > MaxInt
             /\ ~(w.to < w.from) => w.to \in w.from..total
  BY QueryConstants DEF Window, Wrapped, Lesser

\* What a sequence begins with.
BeginsWith(s, g) == Len(g) <= Len(s) /\ \A i \in 1..Len(g) : g[i] = s[i]

\* A page put behind what the client has.
PageOf(S, T, s, g, from, to) ==
  LET h == g \o SubSeq(s, from + 1, to)
  IN  /\ h \in Seq(S \cup T) /\ ToSet(h) \subseteq ToSet(g) \cup ToSet(s)
      /\ BeginsWith(s, g) /\ from = Len(g) => BeginsWith(s, h) /\ Len(h) = to

\* A page stays a beginning of what was found.
LEMMA PageAdded ==
  ASSUME NEW S, NEW s \in Seq(S), NEW T, NEW g \in Seq(T), NEW from \in Nat, NEW to \in from..Len(s)
  PROVE  PageOf(S, T, s, g, from, to)
  <1>1. PICK m \in Nat, n \in Nat : m = Len(g) /\ n = to - from /\ to \in Nat /\ to <= Len(s)
    OBVIOUS
  <1>2. PICK p : p = SubSeq(s, from + 1, to)
    OBVIOUS
  <1>3. p \in Seq(S) /\ Len(p) = n /\ \A i \in 1..n : p[i] = s[from + i]
    <2>1. PICK u \in Int : u = from + 1
      OBVIOUS
    <2>2. to \in Int /\ \A i \in u..to : s[i] \in S
      BY <1>1, <2>1
    <2>3. /\ SubSeq(s, u, to) \in Seq(S)
          /\ Len(SubSeq(s, u, to)) = IF u <= to THEN to - u + 1 ELSE 0
          /\ \A i \in 1..to - u + 1 : SubSeq(s, u, to)[i] = s[u + i - 1]
      BY <2>2, SubSeqProperties
    <2>4. p \in Seq(S) /\ Len(p) = n /\ \A i \in 1..(to - u + 1) : p[i] = s[u + i - 1]
      BY <1>1, <1>2, <2>1, <2>3
    <2>5. \A i \in 1..n : i \in 1..(to - u + 1) /\ s[u + i - 1] = s[from + i]
      BY <1>1, <2>1
    <2> QED
      BY <2>4, <2>5
  <1>4. p \in Seq(S \cup T) /\ g \in Seq(S \cup T)
    BY <1>3, SeqMonotonic
  <1>5. PICK h : h = g \o p
    OBVIOUS
  <1>6. /\ h \in Seq(S \cup T) /\ Len(h) = m + n
        /\ \A i \in 1..(m + n) : h[i] = IF i <= m THEN g[i] ELSE p[i - m]
    <2>1. PICK U : U = S \cup T
      OBVIOUS
    <2>2. p \in Seq(U) /\ g \in Seq(U)
      BY <1>4, <2>1
    <2>3. /\ g \o p \in Seq(U) /\ Len(g \o p) = Len(g) + Len(p)
          /\ \A i \in 1..Len(g) + Len(p) : (g \o p)[i] = IF i <= Len(g) THEN g[i] ELSE p[i - Len(g)]
      BY <2>2, ConcatProperties
    <2> QED
      BY <1>1, <1>3, <1>5, <2>1, <2>3
  <1>7. \A i \in 1..(m + n) : h[i] = IF i <= m THEN g[i] ELSE s[from + (i - m)]
    <2> SUFFICES ASSUME NEW i \in 1..(m + n) PROVE h[i] = IF i <= m THEN g[i] ELSE s[from + (i - m)]
      OBVIOUS
    <2>1. CASE i <= m
      BY <1>6, <2>1
    <2>2. CASE ~(i <= m)
      <3>1. PICK k \in 1..n : k = i - m
        BY <1>1, <2>2
      <3> QED
        BY <1>3, <1>6, <2>2, <3>1
    <2> QED
      BY <2>1, <2>2
  <1>8. DOMAIN g = 1..m /\ DOMAIN s = 1..Len(s) /\ Len(s) \in Nat /\ DOMAIN h = 1..(m + n)
    BY <1>1, <1>6
  <1>9. ToSet(h) \subseteq ToSet(g) \cup ToSet(s)
    <2> SUFFICES ASSUME NEW i \in 1..(m + n) PROVE h[i] \in ToSet(g) \cup ToSet(s)
      BY <1>8 DEF ToSet
    <2>1. CASE i <= m
      BY <1>7, <1>8, <2>1 DEF ToSet
    <2>2. CASE ~(i <= m)
      <3>0. i - m \in 1..(to - from) /\ i - m \in Nat
        BY <1>1, <2>2
      <3>1. from + (i - m) \in 1..Len(s)
        BY <1>1, <1>8, <3>0
      <3> QED
        BY <1>7, <1>8, <2>2, <3>1 DEF ToSet
    <2> QED
      BY <2>1, <2>2
  <1>10. ASSUME BeginsWith(s, g), from = m
         PROVE  BeginsWith(s, h) /\ Len(h) = to
    <2>1. \A i \in 1..m : g[i] = s[i]
      BY <1>1, <1>10 DEF BeginsWith
    <2>2. m + n = to
      BY <1>1, <1>10
    <2>3. \A i \in 1..(m + n) : h[i] = s[i]
      BY <1>7, <1>10, <2>1
    <2> QED
      BY <1>1, <1>6, <2>2, <2>3 DEF BeginsWith
  <1> QED
    BY <1>1, <1>2, <1>5, <1>6, <1>9, <1>10 DEF PageOf

(***************************************************************************)
(* What a client has is some of what it asked for, and with a total order  *)
(* the beginning of the one sorted answer.                                 *)
(***************************************************************************)
\* A client, as it can be.
ClientOK ==
  /\ client = [at |-> client.at, asked |-> client.asked, max |-> client.max,
               got |-> client.got, missed |-> client.missed, blind |-> client.blind]
  /\ client.at \in {"waiting", "asking", "refused", "lost", "done"}
  /\ IF client.at = "waiting" THEN client = Waiting ELSE client.asked \in Statements
  /\ client.got \in Seq(Found) /\ client.missed \subseteq Found /\ client.blind \subseteq Found

\* All that its statement finds, sorted.
SortedAnswers == sortResults(WholeAnswer(parseQuery(client.asked.text)), Meant.orderBy, Found)

\* What it has is the beginning of it.
InOrder ==
  Total /\ AllTold =>
    /\ \/ client.got = <<>> /\ client.at # "done"
       \/ /\ parseQuery(client.asked.text) # Refused
          /\ \E s \in SortedAnswers :
               BeginsWith(s, client.got) /\ (client.at = "done" => Len(client.got) = Len(s))
    /\ client.at = "lost" => Len(client.got) + client.max > MaxInt

QueriesInv == ClientOK /\ AnsweredIsAsked /\ InOrder

\* A client that wrote a statement wrote one of those there are.
LEMMA ClientParsed == ClientOK => ParsedAsWritten
  <1> SUFFICES ASSUME ClientOK, client.at # "waiting" PROVE Understood(parseQuery(client.asked.text), Meant)
    BY DEF ParsedAsWritten
  <1>1. client.asked \in Statements
    BY DEF ClientOK
  <1> QED
    BY <1>1, StatementParsed DEF Meant

\* What was meant, and what is found, depends on the statement alone.
LEMMA SameStatement ==
  ASSUME client'.asked = client.asked
  PROVE  Meant' = Meant /\ Asked' = Asked /\ SortedAnswers' = SortedAnswers /\ (Total <=> Total')
  BY DEF Meant, Asked, SortedAnswers, Total

\* The client is refused, with nothing.
LEMMA StopStep ==
  ASSUME QueriesInv, client.at = "asking", client' = [client EXCEPT !.at = "refused"]
  PROVE  QueriesInv'
  <1>1. PICK c : c = client'
    OBVIOUS
  <1>2. c = [at |-> "refused", asked |-> client.asked, max |-> client.max, got |-> client.got,
             missed |-> client.missed, blind |-> client.blind]
    BY <1>1 DEF QueriesInv, ClientOK
  <1>3. /\ c.at = "refused" /\ c.asked = client.asked /\ c.max = client.max
        /\ c.got = client.got /\ c.missed = client.missed /\ c.blind = client.blind
    BY <1>2
  <1>4. ClientOK'
    BY <1>1, <1>2, <1>3 DEF QueriesInv, ClientOK
  <1>5. Meant' = Meant /\ Asked' = Asked /\ SortedAnswers' = SortedAnswers /\ (Total <=> Total')
    BY <1>1, <1>3, SameStatement
  <1>6. AnsweredIsAsked' /\ InOrder'
    BY <1>1, <1>3, <1>5 DEF QueriesInv, AnsweredIsAsked, InOrder, AllTold
  <1> QED
    BY <1>4, <1>6 DEF QueriesInv

\* Nothing is a sequence of objects.
LEMMA NothingGot == <<>> \in Seq(Found) /\ ToSet(<<>>) = {}
  <1>1. <<>> \in Seq(Found) /\ Len(<<>>) = 0
    BY EmptySeq
  <1>2. ASSUME NEW g, g \in Seq(Found), Len(g) = 0 PROVE ToSet(g) = {}
    <2>1. DOMAIN g = {}
      BY <1>2
    <2> QED
      BY <2>1 DEF ToSet
  <1> QED
    BY <1>1, <1>2, Zenon

\* Waiting, with a statement asked.
LEMMA Asking ==
  ASSUME NEW W, NEW a, NEW s, NEW c,
         W = [at |-> "waiting", asked |-> a, max |-> 0, got |-> <<>>, missed |-> {}, blind |-> {}],
         c = [W EXCEPT !.at = "asking", !.asked = s]
  PROVE  c = [at |-> "asking", asked |-> s, max |-> 0, got |-> <<>>, missed |-> {}, blind |-> {}]
  OBVIOUS

\* The client begins anew.
LEMMA AskStep ==
  ASSUME client' = Waiting \/ \E s \in Statements : client' = [Waiting EXCEPT !.at = "asking", !.asked = s]
  PROVE  QueriesInv'
  <1>1. PICK c : c = client'
    OBVIOUS
  <1>2. PICK how, s, n : c = [at |-> how, asked |-> s, max |-> n, got |-> <<>>, missed |-> {}, blind |-> {}]
                      /\ how \in {"waiting", "asking"}
                      /\ IF how = "waiting" THEN c = Waiting ELSE s \in Statements
    <2>1. PICK W, a : /\ W = Waiting
                      /\ W = [at |-> "waiting", asked |-> a, max |-> 0, got |-> <<>>, missed |-> {}, blind |-> {}]
      BY Zenon DEF Waiting
    <2>2. CASE c = W
      BY <2>1, <2>2
    <2>3. ASSUME NEW s \in Statements, c = [W EXCEPT !.at = "asking", !.asked = s]
          PROVE  c = [at |-> "asking", asked |-> s, max |-> 0, got |-> <<>>, missed |-> {}, blind |-> {}]
      <3>1. W = [at |-> "waiting", asked |-> a, max |-> 0, got |-> <<>>, missed |-> {}, blind |-> {}]
        BY <2>1
      <3> QED
        BY <2>3, <3>1, Asking, Zenon
    <2> QED
      BY <1>1, <2>1, <2>2, <2>3
  <1>3. c.at = how /\ c.asked = s /\ c.max = n /\ c.got = <<>> /\ c.missed = {} /\ c.blind = {}
    BY <1>2
  <1>4. <<>> \in Seq(Found) /\ ToSet(<<>>) = {}
    BY NothingGot
  <1>5. ClientOK'
    BY <1>1, <1>2, <1>3, <1>4 DEF ClientOK
  <1>6. AnsweredIsAsked'
    BY <1>1, <1>3, <1>4 DEF AnsweredIsAsked
  <1>7. InOrder'
    BY <1>1, <1>2, <1>3 DEF InOrder
  <1> QED
    BY <1>5, <1>6, <1>7 DEF QueriesInv

\* A page a query answers, or loses.
TakesPage(q, failed, told, max, results) ==
  LET w == Window(Len(results), Len(client.got), max)
  IN  IF w.to < w.from THEN client' = [client EXCEPT !.at = "lost", !.max = max]
      ELSE client' = [client EXCEPT !.max = max,
             !.at = IF w.to < Len(results) THEN "asking" ELSE "done",
             !.got = @ \o SubSeq(results, w.from + 1, w.to),
             !.missed = @ \cup (Reached(q, {}) \ Reached(q, failed)),
             !.blind = @ \cup IF needsMetadata(q) THEN Reached(q, failed) \ told ELSE {}]

\* What is found is what was asked for, or could not be told.
LEMMA FoundIsAsked ==
  ASSUME NEW t, NEW m, NEW q, Parsed(t, q), Understood(q, m), NEW failed, NEW told,
         needsMetadata(q) \/ told = {}
  PROVE  Matches(q, failed, told) \subseteq
           AskedBy(m) \cup IF needsMetadata(q) THEN Reached(q, failed) \ told ELSE {}
  <1> SUFFICES ASSUME NEW o \in Matches(q, failed, told), needsMetadata(q) => o \in told
               PROVE  o \in AskedBy(m)
    BY DEF Matches
  <1> QED
    BY MatchesAsked

\* A page was answered, or is lost.
LEMMA PageStep ==
  ASSUME QueriesInv, client.at = "asking",
         NEW q, Parsed(client.asked.text, q),
         NEW failed, NEW max \in PageSizes,
         NEW told \in SUBSET (IF needsMetadata(q) THEN Reached(q, failed) ELSE {}),
         NEW results \in sortResults(Matches(q, failed, told), q.orderBy, told),
         TakesPage(q, failed, told, max, results)
  PROVE  QueriesInv'
  <1>1. PICK c, w, unseen, unread :
               /\ c = client' /\ w = Window(Len(results), Len(client.got), max)
               /\ unseen = Reached(q, {}) \ Reached(q, failed)
               /\ unread = IF needsMetadata(q) THEN Reached(q, failed) \ told ELSE {}
    OBVIOUS
  <1>2. /\ client = [at |-> client.at, asked |-> client.asked, max |-> client.max,
                     got |-> client.got, missed |-> client.missed, blind |-> client.blind]
        /\ client.asked \in Statements /\ client.got \in Seq(Found)
        /\ client.missed \subseteq Found /\ client.blind \subseteq Found
        /\ ToSet(client.got) \subseteq Asked \cup client.blind
        /\ unseen \subseteq Found /\ unread \subseteq Found
    BY <1>1, ReachedFound DEF QueriesInv, ClientOK, AnsweredIsAsked
  <1>3. Understood(q, Meant) /\ (needsMetadata(q) \/ told = {})
    BY ClientParsed DEF QueriesInv, ParsedAsWritten, Parsed
  <1>4. PICK F \in SUBSET Found : F = Matches(q, failed, told) /\ F \subseteq Asked \cup unread
    BY <1>1, <1>3, FoundIsAsked, ReachedFound DEF Matches, Asked
  <1>5. /\ results \in Seq(F) /\ Len(results) \in 0..MaxInt /\ ToSet(results) \subseteq F
        /\ DOMAIN results = 1..Len(results)
    <2>1. results \in SetToSeqs(F)
      BY <1>4 DEF sortResults
    <2>2. results \in Seq(F) /\ Len(results) \in 0..MaxInt /\ DOMAIN results = 1..Len(results)
      BY <2>1, InSomeOrder
    <2> QED
      BY <2>2 DEF ToSet
  <1>6. PICK total \in 0..MaxInt, skip \in Nat : total = Len(results) /\ skip = Len(client.got)
    BY <1>2, <1>5
  <1>7. max \in 0..MaxInt /\ total \in Nat
    <2>1. MaxInt \in Nat /\ PageSizes \subseteq 0..MaxInt
      BY QueryConstants
    <2> QED
      BY <1>6, <2>1
  <1>8. /\ w.from = (IF skip <= total THEN skip ELSE total) /\ w.from \in 0..total
        /\ w.to < w.from => skip + max > MaxInt
        /\ ~(w.to < w.from) => w.to \in w.from..total
    BY <1>1, <1>6, <1>7, WindowIs
  <1>9. ASSUME Total, client.missed \cup unseen = {}, client.blind \cup unread = {}
        PROVE  results \in SortedAnswers /\ BeginsWith(results, client.got)
    <2>1. q.orderBy = Meant.orderBy /\ WholeAnswer(q) \subseteq Asked /\ WholeAnswer(q) \in SUBSET Found
      BY <1>3, WholeIsAsked DEF Asked
    <2>2. PICK n \in Nat : DOMAIN q.orderBy = 1..n
      BY <1>2, <2>1, OrderMeant DEF Meant
    <2>3. Complete(q, failed, told)
      <3>1. Reached(q, failed) = Reached(q, {})
        BY <1>1, <1>9, ReachedFound
      <3>2. CASE needsMetadata(q)
        <4>1. Reached(q, failed) \ told = {}
          BY <1>1, <1>9, <3>2
        <4> QED
          BY <3>1, <3>2, <4>1 DEF Complete
      <3>3. CASE ~needsMetadata(q)
        BY <3>1, <3>3 DEF Complete
      <3> QED
        BY <3>2, <3>3
    <2>4. SortedAnswers = sortResults(WholeAnswer(q), q.orderBy, Found)
      BY <2>1 DEF SortedAnswers, Parsed
    <2>5. results \in SortedAnswers
      BY <2>2, <2>3, <2>4, MatchesAll
    <2>6. ASSUME client.got = <<>> PROVE BeginsWith(results, client.got)
      BY <1>6, <2>6 DEF BeginsWith
    <2>7. ASSUME NEW s \in SortedAnswers, BeginsWith(s, client.got)
          PROVE  BeginsWith(results, client.got)
      <3>1. \A o, x \in WholeAnswer(q) :
              o # x => Before(q.orderBy, o, x, Found) \/ Before(q.orderBy, x, o, Found)
        BY <1>9, <2>1 DEF Total
      <3>2. s = results
        BY <2>1, <2>2, <2>4, <2>5, <2>7, <3>1, SortedAlike
      <3> QED
        BY <2>7, <3>2
    <2>8. client.got = <<>> \/ \E s \in SortedAnswers : BeginsWith(s, client.got)
      <3>1. AllTold
        BY <1>9 DEF AllTold
      <3> QED
        BY <1>9, <3>1 DEF QueriesInv, InOrder
    <2> QED
      BY <2>5, <2>6, <2>7, <2>8
  <1>10. CASE w.to < w.from
    <2>1. client' = [client EXCEPT !.at = "lost", !.max = max]
      BY <1>1, <1>10 DEF TakesPage
    <2>2. c = [at |-> "lost", asked |-> client.asked, max |-> max, got |-> client.got,
               missed |-> client.missed, blind |-> client.blind]
      BY <1>1, <1>2, <2>1
    <2>3. /\ c.at = "lost" /\ c.asked = client.asked /\ c.max = max
          /\ c.got = client.got /\ c.missed = client.missed /\ c.blind = client.blind
      BY <2>2
    <2>4. ClientOK'
      BY <1>1, <1>2, <2>2, <2>3 DEF ClientOK
    <2>5. Meant' = Meant /\ Asked' = Asked /\ SortedAnswers' = SortedAnswers /\ (Total <=> Total')
      BY <1>1, <2>3, SameStatement
    <2>6. AnsweredIsAsked'
      BY <1>1, <1>2, <2>3, <2>5 DEF AnsweredIsAsked
    <2>7. InOrder'
      BY <1>1, <1>6, <1>8, <1>10, <2>3, <2>5 DEF QueriesInv, InOrder, AllTold
    <2> QED
      BY <2>4, <2>6, <2>7 DEF QueriesInv
  <1>11. CASE ~(w.to < w.from)
    <2>1. PICK page : page = client.got \o SubSeq(results, w.from + 1, w.to)
      OBVIOUS
    <2>2. PICK how : how = IF w.to < total THEN "asking" ELSE "done"
      OBVIOUS
    <2>3. client' = [client EXCEPT !.max = max, !.at = how, !.got = page,
                                   !.missed = client.missed \cup unseen, !.blind = client.blind \cup unread]
      BY <1>1, <1>6, <1>11, <2>1, <2>2 DEF TakesPage
    <2>4. c = [at |-> how, asked |-> client.asked, max |-> max, got |-> page,
               missed |-> client.missed \cup unseen, blind |-> client.blind \cup unread]
      BY <1>1, <1>2, <2>3
    <2>5. /\ c.at = how /\ c.asked = client.asked /\ c.max = max /\ c.got = page
          /\ c.missed = client.missed \cup unseen /\ c.blind = client.blind \cup unread
      BY <2>4
    <2>6. PICK from \in Nat, to \in Nat : from = w.from /\ to = w.to /\ to \in from..Len(results)
      BY <1>6, <1>7, <1>8, <1>11
    <2>7. /\ page \in Seq(F \cup Found) /\ ToSet(page) \subseteq ToSet(client.got) \cup ToSet(results)
          /\ BeginsWith(results, client.got) /\ from = skip => BeginsWith(results, page) /\ Len(page) = to
      <3>1. page = client.got \o SubSeq(results, from + 1, to)
        BY <2>1, <2>6
      <3>2. PICK g \in Seq(Found) : g = client.got
        BY <1>2
      <3>3. PageOf(F, Found, results, g, from, to)
        BY <1>5, <2>6, PageAdded
      <3> QED
        BY <1>6, <3>1, <3>2, <3>3 DEF PageOf
    <2>8. page \in Seq(Found)
      <3>1. F \cup Found = Found
        BY <1>4
      <3> QED
        BY <2>7, <3>1
    <2>9. how \in {"asking", "done"} /\ (how = "done" => to = total)
      BY <1>6, <1>7, <1>8, <1>11, <2>2, <2>6
    <2>10. ClientOK'
      BY <1>1, <1>2, <2>4, <2>5, <2>8, <2>9 DEF ClientOK
    <2>11. Meant' = Meant /\ Asked' = Asked /\ SortedAnswers' = SortedAnswers /\ (Total <=> Total')
      BY <1>1, <2>5, SameStatement
    <2>12. AnsweredIsAsked'
      BY <1>1, <1>2, <1>4, <1>5, <2>5, <2>7, <2>11 DEF AnsweredIsAsked
    <2>13. ASSUME Total, client.missed \cup unseen = {}, client.blind \cup unread = {}
           PROVE  \E s \in SortedAnswers :
                    BeginsWith(s, page) /\ (how = "done" => Len(page) = Len(s))
      <3>1. results \in SortedAnswers /\ BeginsWith(results, client.got)
        BY <1>9, <2>13
      <3>2. skip <= total
        BY <1>6, <3>1 DEF BeginsWith
      <3>3. BeginsWith(results, page) /\ Len(page) = to
        BY <1>8, <2>6, <2>7, <3>1, <3>2
      <3> QED
        BY <1>6, <2>9, <3>1, <3>3
    <2>14. InOrder'
      <3>1. AllTold' => client.missed \cup unseen = {} /\ client.blind \cup unread = {}
        BY <1>1, <2>5 DEF AllTold
      <3>2. parseQuery(client'.asked.text) # Refused
        BY <1>1, <2>5 DEF Parsed
      <3> QED
        BY <1>1, <2>5, <2>9, <2>11, <2>13, <3>1, <3>2 DEF InOrder
    <2> QED
      BY <2>10, <2>12, <2>14 DEF QueriesInv
  <1> QED
    BY <1>10, <1>11

\* What every step keeps.
LEMMA QueriesStep == QueriesInv /\ [QueriesNext]_client => QueriesInv'
  <1> SUFFICES ASSUME QueriesInv, [QueriesNext]_client PROVE QueriesInv'
    OBVIOUS
  <1>1. CASE UNCHANGED client
    <2>1. Meant' = Meant /\ Asked' = Asked /\ SortedAnswers' = SortedAnswers /\ (Total <=> Total')
      BY <1>1, SameStatement
    <2>2. ClientOK' /\ AnsweredIsAsked' /\ InOrder'
      BY <1>1, <2>1 DEF QueriesInv, ClientOK, AnsweredIsAsked, InOrder, AllTold
    <2> QED
      BY <2>2 DEF QueriesInv
  <1>2. CASE Write \/ Leave
    BY <1>2, AskStep DEF Write, Leave
  <1>3. CASE Query
    <2> DEFINE q == parseQuery(client.asked.text)
    <2>1. client.at = "asking"
      BY <1>3 DEF Query
    <2>2. CASE client' = [client EXCEPT !.at = "refused"]
      BY <2>1, <2>2, StopStep
    <2>3. ASSUME q # Refused, NEW failed, NEW max \in PageSizes,
                 NEW told \in SUBSET (IF needsMetadata(q) THEN Reached(q, failed) ELSE {}),
                 NEW results \in sortResults(Matches(q, failed, told), q.orderBy, told),
                 TakesPage(q, failed, told, max, results)
          PROVE  QueriesInv'
      <3>1. Parsed(client.asked.text, q) /\ (needsMetadata(q) \/ told = {})
        BY <2>3 DEF Parsed
      <3> QED
        BY <2>1, <2>3, <3>1, PageStep
    <2>4. CASE client' # [client EXCEPT !.at = "refused"]
      <3> DEFINE mayTell(failed) == IF needsMetadata(q) THEN Reached(q, failed) ELSE {}
      <3>1. q # Refused /\ \E failed \in SUBSET FoldersOf(Searched(q)), max \in PageSizes :
                             \E told \in SUBSET mayTell(failed) :
                             \E results \in sortResults(Matches(q, failed, told), q.orderBy, told) :
                               TakesPage(q, failed, told, max, results)
        BY <1>3, <2>4, Zenon DEF Query, TakesPage
      <3>2. PICK failed \in SUBSET FoldersOf(Searched(q)), max \in PageSizes :
                             \E told \in SUBSET mayTell(failed) :
                             \E results \in sortResults(Matches(q, failed, told), q.orderBy, told) :
                               TakesPage(q, failed, told, max, results)
        BY <3>1, Zenon
      <3>3. PICK told \in SUBSET mayTell(failed) :
              \E results \in sortResults(Matches(q, failed, told), q.orderBy, told) :
                TakesPage(q, failed, told, max, results)
        BY <3>2, Zenon
      <3> QED
        BY <2>3, <3>1, <3>3, Zenon
    <2> QED
      BY <2>2, <2>4
  <1> QED
    BY <1>1, <1>2, <1>3 DEF QueriesNext

\* And what always holds.
LEMMA QueriesInvariant == QueriesSpec => []QueriesInv
  <1>1. QueriesInit => QueriesInv
    <2> SUFFICES ASSUME client = Waiting PROVE QueriesInv
      BY DEF QueriesInit
    <2>1. /\ client = [at |-> "waiting", asked |-> [text |-> <<>>, meant |-> Refused], max |-> 0,
                       got |-> <<>>, missed |-> {}, blind |-> {}]
      BY DEF Waiting
    <2>2. ClientOK
      BY <2>1, NothingGot DEF ClientOK
    <2>3. AnsweredIsAsked
      BY <2>1, NothingGot DEF AnsweredIsAsked
    <2>4. InOrder
      BY <2>1 DEF InOrder
    <2> QED
      BY <2>2, <2>3, <2>4 DEF QueriesInv
  <1> QED
    BY <1>1, QueriesStep, PTL DEF QueriesSpec

\* A client asks statements of those there are, and has objects there are
\* (Handler.Query and its clients).
THEOREM QueriesTyping == QueriesSpec => []QueriesTypeOK
  <1>1. QueriesInv => QueriesTypeOK
    BY DEF QueriesInv, ClientOK, QueriesTypeOK, Waiting
  <1> QED
    BY <1>1, QueriesInvariant, PTL

\* A statement without OR is understood as it was written, its joins and aliases
\* left out; one that breaks off or is broken is refused.  Of one with OR only this
\* is said: that all but its conditions is understood, and every condition of one
\* of its alternatives is read (parseQuery, parseWhere, parseOrder).
THEOREM ParsedRight == QueriesSpec => []ParsedAsWritten
  <1>1. QueriesInv => ParsedAsWritten
    BY ClientParsed DEF QueriesInv
  <1> QED
    BY <1>1, QueriesInvariant, PTL

\* Whichever listings and requests for metadata fail, no page has an object that
\* was not asked for and whose metadata was had.  If none fails and the order is
\* total, the pages are in that order with nothing twice, whatever order the
\* folders list in, and if the statement has no OR they hold everything it asks for
\* (Handler.Query, listRecursive, sortResults and the window).
THEOREM RightAnswers == QueriesSpec => []AnswersAreRight
  <1>1. QueriesInv => PagesAddUp
    <2> SUFFICES ASSUME QueriesInv, Total, AllTold
                 PROVE  /\ client.at = "lost" => Len(client.got) + client.max > MaxInt
                        /\ \A i, k \in DOMAIN client.got :
                             i < k => Before(Meant.orderBy, client.got[i], client.got[k], Found)
                        /\ client.at = "done" /\ Len(Meant.where) = 1 => ToSet(client.got) = Asked
      BY DEF PagesAddUp
    <2>1. CASE client.got = <<>> /\ client.at # "done"
      BY <2>1 DEF QueriesInv, InOrder
    <2>2. ASSUME parseQuery(client.asked.text) # Refused, client.at # "waiting",
                 NEW s \in SortedAnswers, BeginsWith(s, client.got),
                 client.at = "done" => Len(client.got) = Len(s)
          PROVE  /\ client.at = "done" /\ Len(Meant.where) = 1 => ToSet(client.got) = Asked
                 /\ \A i, k \in DOMAIN client.got :
                      i < k => Before(Meant.orderBy, client.got[i], client.got[k], Found)
      <3>1. PICK g \in Seq(Found) : g = client.got
        BY DEF QueriesInv, ClientOK
      <3>2. PICK m \in Nat : m = Len(g) /\ DOMAIN g = 1..m
        BY <3>1
      <3> DEFINE q == parseQuery(client.asked.text)
                 S == WholeAnswer(q)
      <3>3. /\ S \in SUBSET Found /\ S \subseteq Asked /\ (Len(Meant.where) = 1 => S = Asked)
            /\ s \in SetToSeqs(S)
            /\ \A i, k \in DOMAIN s : i < k => ~Before(Meant.orderBy, s[k], s[i], Found)
        <4>1. Parsed(client.asked.text, q) /\ Understood(q, Meant)
          BY <2>2, ClientParsed DEF Parsed, QueriesInv, ParsedAsWritten
        <4> HIDE DEF q
        <4>2. S \in SUBSET Found /\ S \subseteq Asked /\ (Len(Meant.where) = 1 => S = Asked)
          BY <4>1, WholeIsAsked DEF Asked
        <4> QED
          BY <2>2, <4>2 DEF SortedAnswers, sortResults, q
      <3> HIDE DEF q, S
      <3>4. /\ s \in Seq(S) /\ DOMAIN s = 1..Len(s) /\ Len(s) \in Nat
            /\ \A i, k \in 1..Len(s) : s[i] = s[k] => i = k
            /\ \A x \in S : \E i \in 1..Len(s) : s[i] = x
        <4>1. /\ s \in Seq(S) /\ Len(s) = Cardinality(S) /\ Len(s) \in 0..MaxInt
              /\ DOMAIN s = 1..Len(s)
              /\ \A i, k \in 1..Len(s) : s[i] = s[k] => i = k
              /\ \A x \in S : \E i \in 1..Len(s) : s[i] = x
          BY <3>3, InSomeOrder, Zenon
        <4>2. Len(s) \in Nat
          BY <4>1, QueryConstants
        <4> QED
          BY <4>1, <4>2
      <3>5. m <= Len(s) /\ \A i \in 1..m : i \in 1..Len(s) /\ g[i] = s[i] /\ s[i] \in S
        BY <2>2, <3>1, <3>2, <3>4 DEF BeginsWith
      <3>6. ASSUME client.at = "done" PROVE ToSet(g) = S
        BY <2>2, <3>1, <3>2, <3>4, <3>5, <3>6 DEF ToSet
      <3>7. ASSUME NEW i \in 1..m, NEW k \in 1..m, i < k
            PROVE  Before(Meant.orderBy, g[i], g[k], Found)
        <4>1. ~Before(Meant.orderBy, s[k], s[i], Found)
          BY <3>3, <3>4, <3>5, <3>7
        <4>2. s[i] # s[k] /\ s[i] \in Asked /\ s[k] \in Asked
          BY <3>3, <3>4, <3>5, <3>7
        <4> QED
          BY <3>5, <4>1, <4>2 DEF Total
      <3> QED
        BY <3>1, <3>2, <3>3, <3>6, <3>7
    <2>3. /\ client.at = "lost" => Len(client.got) + client.max > MaxInt
          /\ \/ client.got = <<>> /\ client.at # "done"
             \/ /\ parseQuery(client.asked.text) # Refused
                /\ \E s \in SortedAnswers :
                     BeginsWith(s, client.got) /\ (client.at = "done" => Len(client.got) = Len(s))
      BY DEF QueriesInv, InOrder
    <2>4. client.at = "waiting" => client.got = <<>>
      BY DEF QueriesInv, ClientOK, Waiting
    <2> QED
      BY <2>1, <2>2, <2>3, <2>4
  <1>2. QueriesInv => AnswersAreRight
    BY <1>1 DEF QueriesInv, AnswersAreRight
  <1> QED
    BY <1>2, QueriesInvariant, PTL
=============================================================================
