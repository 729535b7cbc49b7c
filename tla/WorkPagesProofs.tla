-------------------------- MODULE WorkPagesProofs ---------------------------
(***************************************************************************)
(* What holds of WorkPages for any number of requests, listings, WorkIDs   *)
(* and elements.                                                           *)
(*                                                                         *)
(* The argument is about pieces: every object in the cache, and every one  *)
(* a request has just found, is an unanswered end of its listing (Piece).  *)
(* Splitting a piece gives a page and a piece that begins where the page   *)
(* ends (PageSplit).  The rest is bookkeeping by WorkID: whatever comes    *)
(* from an id begins where the page that announced the id ends (Linked),   *)
(* which survives duplicates because ids are never generated twice.        *)
(*                                                                         *)
(* That no element comes twice, and that the shared map counts the page it *)
(* goes out with, needs more: as long as no WorkID was found twice, one    *)
(* request or one object holds what is left of a listing (OneHolder).      *)
(***************************************************************************)
EXTENDS WorkPages, TLAPS

PieceOf(w, f, d) ==
    /\ w.folders.hi = f
    /\ w.docs.hi = f + d
    /\ f <= w.docs.lo
    /\ Count(w.folders) > 0 => w.docs.lo = f
    /\ Count(w.folders) = 0 => w.folders.lo = f
    /\ Total(w) > 0

Piece(w) == PieceOf(w, size[w.listing].f, size[w.listing].d)

\* What a request works on is not empty and has its folders first.
Neat(w) == w.folders.hi <= w.docs.lo /\ Total(w) > 0

\* Page and Rest cut a piece that does not fit in two, without a gap.
LEMMA PageSplit ==
    ASSUME NEW w \in WorkObjects, NEW max \in Nat, NEW f \in Nat, NEW d \in Nat,
           PieceOf(w, f, d), ~Fits(w, max)
    PROVE  /\ Page(w, max) \in WorkObjects
           /\ Rest(w, max) \in WorkObjects
           /\ Page(w, max).listing = w.listing
           /\ Rest(w, max).listing = w.listing
           /\ Total(Page(w, max)) = max
           /\ Start(Page(w, max)) = Start(w)
           /\ Start(Rest(w, max)) = End(Page(w, max))
           /\ PieceOf(Rest(w, max), f, d)
           /\ Neat(Page(w, max))
  <1> DEFINE fl == w.folders.lo
             dl == w.docs.lo
             nf == Least(f - fl, max)
  <1>1. /\ fl \in Nat /\ dl \in Nat /\ fl <= f /\ dl <= f + d
        /\ w.listing \in Listings
        /\ w = [listing |-> w.listing, folders |-> [lo |-> fl, hi |-> f], docs |-> [lo |-> dl, hi |-> f + d]]
    BY DEF WorkObjects, Slices, PieceOf
  <1>2. /\ max > 0 /\ (f - fl) + (f + d - dl) > max /\ f <= dl
        /\ (f - fl > 0 => dl = f) /\ (f - fl = 0 => fl = f)
    BY <1>1 DEF Fits, Total, Count, PieceOf
  <1>3. nf \in Nat /\ nf <= max /\ nf <= f - fl /\ (nf = max \/ nf = f - fl)
    BY <1>1, <1>2 DEF Least
  <1>f. Least(Count(w.folders), max) = nf /\ ~Fits(w, max)
    BY <1>1 DEF Count
  <1>4. Page(w, max) = [listing |-> w.listing, folders |-> [lo |-> fl, hi |-> fl + nf],
                        docs |-> [lo |-> dl, hi |-> dl + (max - nf)]]
    <2>1. Page(w, max) = [w EXCEPT !.folders = Take(@, nf), !.docs = Take(@, max - nf)]
      BY <1>f DEF Page
    <2> QED
      BY <1>1, <2>1 DEF Take
  <1>5. Rest(w, max) = [listing |-> w.listing, folders |-> [lo |-> fl + nf, hi |-> f],
                        docs |-> [lo |-> dl + (max - nf), hi |-> f + d]]
    <2>1. Rest(w, max) = [w EXCEPT !.folders = Drop(@, nf), !.docs = Drop(@, max - nf)]
      BY <1>f DEF Rest
    <2>2. /\ Drop(w.folders, nf) = [lo |-> fl + nf, hi |-> f]
          /\ Drop(w.docs, max - nf) = [lo |-> dl + (max - nf), hi |-> f + d]
      BY <1>1 DEF Drop
    <2> HIDE DEF nf, fl, dl
    <2> QED
      BY <1>1, <2>1, <2>2
  <1> HIDE DEF nf, fl, dl
  <1>6. /\ [lo |-> fl, hi |-> fl + nf] \in Slices
        /\ [lo |-> dl, hi |-> dl + (max - nf)] \in Slices
        /\ [lo |-> fl + nf, hi |-> f] \in Slices
        /\ [lo |-> dl + (max - nf), hi |-> f + d] \in Slices
    BY <1>1, <1>2, <1>3 DEF Slices
  <1>7. Page(w, max) \in WorkObjects /\ Rest(w, max) \in WorkObjects
    <2> HIDE DEF Slices
    <2> QED
      BY <1>1, <1>4, <1>5, <1>6 DEF WorkObjects
  <1>8. Total(Page(w, max)) = max
    BY <1>1, <1>2, <1>3, <1>4 DEF Total, Count
  <1>9. Start(Page(w, max)) = Start(w)
    BY <1>1, <1>2, <1>3, <1>4 DEF Start, Count
  <1>10. Start(Rest(w, max)) = End(Page(w, max))
    BY <1>1, <1>2, <1>3, <1>4, <1>5 DEF Start, End, Count
  <1>11. PieceOf(Rest(w, max), f, d)
    <2> DEFINE rest == Rest(w, max)
    <2>1. /\ rest.folders.lo = fl + nf /\ rest.folders.hi = f
          /\ rest.docs.lo = dl + (max - nf) /\ rest.docs.hi = f + d
      BY <1>5
    <2> HIDE DEF rest
    <2>2. /\ Count(rest.folders) = f - fl - nf
          /\ Count(rest.docs) = (f + d) - dl - (max - nf)
      BY <1>1, <1>3, <2>1 DEF Count
    <2>3. /\ f <= dl + (max - nf)
          /\ f - fl - nf > 0 => dl + (max - nf) = f
          /\ f - fl - nf = 0 => fl + nf = f
          /\ (f - fl - nf) + ((f + d) - dl - (max - nf)) > 0
      BY <1>1, <1>2, <1>3
    <2>4. PieceOf(rest, f, d)
      BY <2>1, <2>2, <2>3 DEF PieceOf, Total
    <2> QED
      BY <2>4 DEF rest
  <1>12. Neat(Page(w, max))
    BY <1>1, <1>2, <1>3, <1>4, <1>8 DEF Neat
  <1> QED
    BY <1>4, <1>5, <1>7, <1>8, <1>9, <1>10, <1>11, <1>12

\* A piece that fits is a last page.
LEMMA PieceEnds ==
    ASSUME NEW w \in WorkObjects, NEW f \in Nat, NEW d \in Nat, PieceOf(w, f, d)
    PROVE  End(w) = f + d
  BY DEF WorkObjects, Slices, PieceOf, End, Count, Total

-----------------------------------------------------------------------------
Known(i) == i # NoId => i \in made

\* Ids in use have been generated; an id a request works on has been taken.
IdsInv ==
    /\ \A i \in WorkIds : cache[i] # Nothing => i \in made
    /\ \A r \in Requests : Known(req[r].asked) /\ Known(req[r].next)
    /\ \A r \in Requests : req[r].asked # NoId => req[r].asked \in taken
    /\ \A a \in answers : Known(a.asked) /\ Known(a.next)
    /\ \A r \in Requests : pc[r] \in {"idle", "found", "page"} => req[r].next = NoId
    /\ \A r \in Requests : pc[r] = "idle" => req[r].asked = NoId

Ready(r) == pc[r] \in {"load", "encode"}

\* A page has its full size, or it ends its listing.
Full(w, max, next) ==
    IF next = NoId
    THEN /\ End(w) = size[w.listing].f + size[w.listing].d
         /\ max > 0 => Total(w) <= max
    ELSE Total(w) = max

\* Objects and the work of requests are pieces until they are paged; pages are full.
PieceInv ==
    /\ \A i \in WorkIds : cache[i] # Nothing => Piece(cache[i])
    /\ \A r \in Requests : pc[r] \in {"found", "page"} => Piece(req[r].work)
    /\ \A r \in Requests : Ready(r) => Full(req[r].work, req[r].max, req[r].next)
    /\ \A r \in Busy : req[r].work.listing \in Listed
    /\ \A a \in answers : a.page.listing \in Listed

\* Page w announces id i; work w comes from id i.
Announces(i, w) ==
    \/ \E a \in answers : a.next = i /\ a.page = w
    \/ \E r \in Requests : Ready(r) /\ req[r].next = i /\ req[r].work = w
ComesFrom(i, w) ==
    \/ cache[i] = w
    \/ \E a \in answers : a.asked = i /\ a.page = w
    \/ \E r \in Requests : req[r].asked = i /\ req[r].work = w

Follows(v, w) == w.listing = v.listing /\ Start(w) = End(v)

Linked ==
    \A i \in WorkIds : \A v, w \in WorkObjects :
        Announces(i, v) /\ ComesFrom(i, w) => Follows(v, w)

FirstInv ==
    /\ \A r \in Busy : req[r].asked = NoId => Start(req[r].work) = 0
    /\ \A a \in answers : a.asked = NoId => Start(a.page) = 0

\* Whoever announces an id left its rest in the cache.
KeptInv ==
    \A i \in WorkIds, w \in WorkObjects :
        Announces(i, w) => cache[i] # Nothing \/ i \in taken \/ w.listing \in lost

GoneInv ==
    \A r \in Requests :
        pc[r] \in {"page", "load", "encode"} /\ req[r].asked # NoId => cache[req[r].asked] = Nothing

IInv == /\ TypeOK /\ IdsInv /\ PieceInv /\ Linked /\ FirstInv /\ KeptInv /\ GoneInv
        /\ PagesAreFull /\ AnsweredIsGone

LEMMA InitIInv == Init => IInv
  <1> SUFFICES ASSUME Init PROVE IInv
    OBVIOUS
  <1> USE WorkAssumption DEF Init
  <1>1. Idle \in Works
    BY DEF Idle, Works, NoWork
  <1>2. TypeOK
    <2>1. size \in [Listings -> [f : Nat, d : Nat]]
      OBVIOUS
    <2>2. req \in [Requests -> Works]
      BY <1>1
    <2> QED
      BY <2>1, <2>2 DEF TypeOK, Busy
  <1>3. IdsInv
    BY DEF IdsInv, Known, Idle
  <1>4. PieceInv /\ FirstInv /\ GoneInv /\ PagesAreFull /\ AnsweredIsGone
    BY DEF PieceInv, FirstInv, GoneInv, PagesAreFull, AnsweredIsGone, Ready, Busy
  <1>5. \A i, w : ~Announces(i, w)
    BY DEF Announces, Ready
  <1>6. Linked /\ KeptInv
    BY <1>5 DEF Linked, KeptInv
  <1> QED
    BY <1>2, <1>3, <1>4, <1>6 DEF IInv

\* A listing just made is a piece.
LEMMA ListingPiece ==
    ASSUME NEW l \in Listings, NEW nf \in Nat, NEW nd \in Nat, nf + nd > 0
    PROVE  LET w == [listing |-> l, folders |-> All(nf), docs |-> [lo |-> nf, hi |-> nf + nd]]
           IN  w \in WorkObjects /\ PieceOf(w, nf, nd) /\ Start(w) = 0
  <1>1. All(nf) \in Slices /\ [lo |-> nf, hi |-> nf + nd] \in Slices
    BY DEF All, Slices
  <1>2. [listing |-> l, folders |-> All(nf), docs |-> [lo |-> nf, hi |-> nf + nd]] \in WorkObjects
    <2> HIDE DEF Slices
    <2> QED
      BY <1>1 DEF WorkObjects
  <1> QED
    BY <1>2 DEF PieceOf, Count, Total, All, Start

\* Paginate's two cases, for a request that holds a piece.
LEMMA PaginateCases ==
    ASSUME TypeOK, IdsInv, PieceInv, NEW r \in Requests, Paginate(r)
    PROVE  LET w == req[r].work
               max == req[r].max
           IN  /\ w \in WorkObjects /\ max \in Nat /\ Piece(w)
               /\ \/ /\ Fits(w, max)
                     /\ UNCHANGED <<cache, made, req>>
                  \/ \E i \in WorkIds \ made :
                        /\ ~Fits(w, max)
                        /\ made' = made \cup {i}
                        /\ cache' = [cache EXCEPT ![i] = Rest(w, max)]
                        /\ req' = [req EXCEPT ![r] = [@ EXCEPT !.work = Page(w, max), !.next = i]]
                        /\ Page(w, max) \in WorkObjects
                        /\ Rest(w, max) \in WorkObjects
                        /\ Page(w, max).listing = w.listing
                        /\ Rest(w, max).listing = w.listing
                        /\ Total(Page(w, max)) = max
                        /\ Start(Page(w, max)) = Start(w)
                        /\ Start(Rest(w, max)) = End(Page(w, max))
                        /\ Piece(Rest(w, max))
                        /\ Neat(Page(w, max))
  <1> DEFINE w == req[r].work
             max == req[r].max
  <1>1. w \in WorkObjects /\ max \in Nat
    BY DEF TypeOK, Busy, Paginate, Works
  <1>2. Piece(w)
    BY DEF PieceInv, Paginate
  <1>3. size[w.listing].f \in Nat /\ size[w.listing].d \in Nat
    BY <1>1 DEF TypeOK, WorkObjects
  <1>4. CASE Fits(w, max)
    BY <1>1, <1>2, <1>4 DEF Paginate
  <1>5. CASE ~Fits(w, max)
    <2>1. PICK i \in WorkIds \ made :
             /\ made' = made \cup {i}
             /\ cache' = [cache EXCEPT ![i] = Rest(w, max)]
             /\ req' = [req EXCEPT ![r] = [@ EXCEPT !.work = Page(w, max), !.next = i]]
      <3>1. NewId \in WorkIds \ made
        BY <1>5 DEF Paginate, NewId
      <3> QED
        BY <1>5, <3>1 DEF Paginate
    <2> HIDE DEF w, max
    <2>2. /\ Page(w, max) \in WorkObjects
          /\ Rest(w, max) \in WorkObjects
          /\ Page(w, max).listing = w.listing
          /\ Rest(w, max).listing = w.listing
          /\ Total(Page(w, max)) = max
          /\ Start(Page(w, max)) = Start(w)
          /\ Start(Rest(w, max)) = End(Page(w, max))
          /\ PieceOf(Rest(w, max), size[w.listing].f, size[w.listing].d)
          /\ Neat(Page(w, max))
      BY <1>1, <1>2, <1>3, <1>5, PageSplit DEF Piece
    <2>3. Piece(Rest(w, max))
      BY <2>2 DEF Piece
    <2> QED
      BY <1>1, <1>2, <1>5, <2>1, <2>2, <2>3 DEF w, max
  <1> QED
    BY <1>4, <1>5

\* Every action keeps the types.
LEMMA StepTypeOK == TypeOK /\ IdsInv /\ PieceInv /\ [Next]_vars => TypeOK'
  <1> SUFFICES ASSUME TypeOK, IdsInv, PieceInv, [Next]_vars PROVE TypeOK'
    OBVIOUS
  <1> USE WorkAssumption DEF Goto, store, Busy
  <1>i. Idle \in Works
    BY DEF Idle, Works, NoWork
  <1>1. ASSUME NEW r \in Requests, GetFolder(r) PROVE TypeOK'
    <2>1. PICK l \in Listings \ Listed, nf \in 0 .. MaxItems, nd \in 0 .. MaxItems, max \in 0 .. MaxItems :
             /\ nf + nd \in 1 .. MaxItems
             /\ size' = [size EXCEPT ![l] = [f |-> nf, d |-> nd]]
             /\ req' = [req EXCEPT ![r] =
                    [Idle EXCEPT !.max = max,
                                 !.work = [listing |-> l, folders |-> All(nf),
                                           docs |-> [lo |-> nf, hi |-> nf + nd]]]]
      BY <1>1, WorkAssumption DEF GetFolder
    <2>2. nf \in Nat /\ nd \in Nat /\ max \in Nat /\ nf + nd > 0
      BY <2>1
    <2>3. [listing |-> l, folders |-> All(nf), docs |-> [lo |-> nf, hi |-> nf + nd]] \in WorkObjects
      BY <2>1, <2>2, ListingPiece
    <2>4. req' \in [Requests -> Works] /\ req'[r].work \in WorkObjects
      BY <2>1, <2>2, <2>3, <1>i DEF TypeOK, Works, Idle
    <2>5. size' \in [Listings -> [f : Nat, d : Nat]]
      BY <2>1, <2>2 DEF TypeOK
    <2> QED
      BY <1>1, <2>1, <2>4, <2>5 DEF GetFolder, TypeOK
  <1>2. ASSUME NEW r \in Requests, WorkFound(r) PROVE TypeOK'
    <2>1. PICK a \in answers, max \in 0 .. MaxItems :
             /\ a.next # NoId
             /\ cache[a.next] # Nothing
             /\ req' = [req EXCEPT ![r] = [Idle EXCEPT !.asked = a.next, !.work = cache[a.next], !.max = max]]
             /\ taken' = taken \cup {a.next}
             /\ doubled' = IF a.next \in taken THEN doubled \cup {a.next} ELSE doubled
      BY <1>2 DEF WorkFound
    <2>2. a.next \in WorkIds /\ max \in Nat
      BY <2>1 DEF TypeOK, Answers
    <2>3. cache[a.next] \in WorkObjects
      BY <2>1, <2>2 DEF TypeOK
    <2>4. req' \in [Requests -> Works] /\ req'[r].work \in WorkObjects
      BY <2>1, <2>2, <2>3, <1>i DEF TypeOK, Works, Idle
    <2> QED
      BY <1>2, <2>1, <2>2, <2>4 DEF WorkFound, TypeOK
  <1>3. ASSUME NEW r \in Requests, WorkDelete(r) PROVE TypeOK'
    BY <1>3 DEF WorkDelete, Remove, TypeOK
  <1>4. ASSUME NEW r \in Requests, Paginate(r) PROVE TypeOK'
    <2>1. CASE Fits(req[r].work, req[r].max)
      BY <1>4, <2>1 DEF Paginate, TypeOK
    <2>2. CASE ~Fits(req[r].work, req[r].max)
      <3>1. PICK i \in WorkIds \ made :
               /\ made' = made \cup {i}
               /\ cache' = [cache EXCEPT ![i] = Rest(req[r].work, req[r].max)]
               /\ req' = [req EXCEPT ![r] = [@ EXCEPT !.work = Page(req[r].work, req[r].max), !.next = i]]
               /\ Page(req[r].work, req[r].max) \in WorkObjects
               /\ Rest(req[r].work, req[r].max) \in WorkObjects
        BY <1>4, <2>2, PaginateCases
      <3>2. req' \in [Requests -> Works] /\ req'[r].work \in WorkObjects
        BY <3>1 DEF TypeOK, Works
      <3> QED
        BY <1>4, <3>1, <3>2 DEF Paginate, TypeOK
    <2> QED
      BY <2>1, <2>2
  <1>5. ASSUME NEW r \in Requests, SetLoaded(r) PROVE TypeOK'
    <2>1. req[r].work \in WorkObjects /\ Total(req[r].work) \in Nat
      BY <1>5 DEF SetLoaded, TypeOK, WorkObjects, Slices, Total, Count
    <2> QED
      BY <1>5, <2>1 DEF SetLoaded, Loaded, TypeOK
  <1>6. ASSUME NEW r \in Requests, Answer(r) PROVE TypeOK'
    <2>1. req[r].work \in WorkObjects /\ req[r].work.listing \in Listings
      BY <1>6 DEF Answer, TypeOK, WorkObjects
    <2>2. AnswerOf(r) \in Answers
      BY <2>1 DEF AnswerOf, Answers, TypeOK, Works
    <2> QED
      BY <1>6, <1>i, <2>2 DEF Answer, Finish, TypeOK
  <1>7. ASSUME NEW r \in Requests, AnswerLost(r) PROVE TypeOK'
    <2>1. req[r].work \in WorkObjects /\ req[r].work.listing \in Listings
      BY <1>7 DEF AnswerLost, TypeOK, WorkObjects
    <2> QED
      BY <1>7, <1>i, <2>1 DEF AnswerLost, Finish, TypeOK
  <1>8. ASSUME NEW i \in WorkIds, Expire(i) PROVE TypeOK'
    <2>1. cache[i].listing \in Listings
      BY <1>8 DEF Expire, TypeOK, WorkObjects
    <2> QED
      BY <1>8, <2>1 DEF Expire, TypeOK
  <1>9. CASE Restart
    <2>1. \A r \in Busy : req[r].work.listing \in Listings
      BY DEF TypeOK, WorkObjects
    <2>2. \A i \in WorkIds : cache[i] # Nothing => cache[i].listing \in Listings
      BY DEF TypeOK, WorkObjects
    <2> QED
      BY <1>9, <1>i, <2>1, <2>2 DEF Restart, TypeOK
  <1>10. ASSUME NEW r \in Requests, WorkUnknown(r) PROVE TypeOK'
    BY <1>10 DEF WorkUnknown, vars, TypeOK
  <1>11. CASE UNCHANGED vars
    BY <1>11 DEF vars, TypeOK
  <1> QED
    BY <1>1, <1>2, <1>3, <1>4, <1>5, <1>6, <1>7, <1>8, <1>9, <1>10, <1>11 DEF Next, Step

\* Where no id gets a new announcer or a new holder, the links stay.
LEMMA LinkedSub ==
    ASSUME Linked,
           \A i \in WorkIds : \A w \in WorkObjects :
               (Announces(i, w)' => Announces(i, w)) /\ (ComesFrom(i, w)' => ComesFrom(i, w))
    PROVE  Linked'
  BY DEF Linked, Follows, Start, End, Count

\* One lemma per action: it keeps the invariant.
LEMMA GetFolderStep ==
    ASSUME IInv, NEW r \in Requests, GetFolder(r), TypeOK' PROVE IInv'
  <1> USE WorkAssumption DEF Goto, store
  <1>1. PICK l \in Listings \ Listed, nf \in 0 .. MaxItems, nd \in 0 .. MaxItems, max \in 0 .. MaxItems :
           /\ nf + nd \in 1 .. MaxItems
           /\ size' = [size EXCEPT ![l] = [f |-> nf, d |-> nd]]
           /\ req' = [req EXCEPT ![r] =
                  [Idle EXCEPT !.max = max,
                               !.work = [listing |-> l, folders |-> All(nf),
                                         docs |-> [lo |-> nf, hi |-> nf + nd]]]]
    BY DEF GetFolder
  <1>2. nf \in Nat /\ nd \in Nat /\ max \in Nat /\ nf + nd > 0
    BY <1>1
  <1> DEFINE w0 == [listing |-> l, folders |-> All(nf), docs |-> [lo |-> nf, hi |-> nf + nd]]
  <1>3. w0 \in WorkObjects /\ PieceOf(w0, nf, nd) /\ Start(w0) = 0
    BY <1>1, <1>2, ListingPiece
  <1>4. /\ UNCHANGED <<cache, made, taken, lost, answers>>
        /\ pc[r] = "idle" /\ pc' = [pc EXCEPT ![r] = "page"]
        /\ TypeOK /\ IdsInv /\ PieceInv
    BY DEF GetFolder, IInv
  <1>5. /\ req'[r].work = w0 /\ req'[r].asked = NoId /\ req'[r].next = NoId /\ w0.listing = l
        /\ \A q \in Requests : q # r => req'[q] = req[q] /\ pc'[q] = pc[q]
        /\ pc'[r] = "page"
    BY <1>1, <1>4 DEF TypeOK, Idle
  <1> HIDE DEF w0
  <1>6. /\ size'[l] = [f |-> nf, d |-> nd]
        /\ \A k \in Listings : k # l => size'[k] = size[k]
        /\ \A k \in Listed : size'[k] = size[k] /\ k \in Listed'
        /\ l \in Listed'
    <2>1. [f |-> nf, d |-> nd] # [f |-> 0, d |-> 0]
      BY <1>1, <1>2
    <2> QED
      BY <1>1, <2>1 DEF TypeOK, Listed, IInv
  <1>7. IdsInv'
    BY <1>4, <1>5 DEF IdsInv, Known
  <1>8. PieceInv'
    <2>1. \A w \in WorkObjects : Piece(w) => Piece(w)'
      <3> SUFFICES ASSUME NEW w \in WorkObjects, Piece(w) PROVE Piece(w)'
        OBVIOUS
      <3>1. w.listing \in Listings
        BY DEF WorkObjects
      <3>2. CASE w.listing = l
        <4>1. size[l].f = 0 /\ size[l].d = 0
          BY DEF Listed
        <4> QED
          BY <3>2, <4>1 DEF Piece, PieceOf, WorkObjects, Slices, Total, Count
      <3>3. CASE w.listing # l
        BY <3>1, <3>3, <1>6 DEF Piece
      <3> QED
        BY <3>2, <3>3
    <2>2. \A i \in WorkIds : cache'[i] # Nothing => Piece(cache[i])' /\ cache'[i] = cache[i]
      BY <2>1, <1>4 DEF PieceInv, TypeOK
    <2>3. Piece(w0)'
      BY <1>3, <1>5, <1>6 DEF Piece
    <2>4. \A q \in Requests : pc'[q] \in {"found", "page"} => Piece(req[q].work)'
      <3> SUFFICES ASSUME NEW q \in Requests, pc'[q] \in {"found", "page"} PROVE Piece(req[q].work)'
        OBVIOUS
      <3>1. CASE q = r
        BY <3>1, <1>5, <2>3 DEF Piece
      <3>2. CASE q # r
        <4>1. req[q].work \in WorkObjects /\ Piece(req[q].work) /\ req'[q] = req[q]
          BY <3>2, <1>4, <1>5 DEF PieceInv, TypeOK, Busy
        <4> QED
          BY <4>1, <2>1 DEF Piece
      <3> QED
        BY <3>1, <3>2
    <2>5. \A q \in Requests : Ready(q)' => Full(req[q].work, req[q].max, req[q].next)'
      <3> SUFFICES ASSUME NEW q \in Requests, Ready(q)'
                   PROVE  Full(req[q].work, req[q].max, req[q].next)'
        OBVIOUS
      <3>1. q # r /\ Ready(q) /\ req'[q] = req[q]
        BY <1>5 DEF Ready
      <3>2. Full(req[q].work, req[q].max, req[q].next) /\ req[q].work.listing \in Listed
        BY <3>1, <1>4 DEF PieceInv, Ready, Busy
      <3> QED
        BY <3>1, <3>2, <1>6 DEF Full
    <2>6. \A q \in Busy' : req'[q].work.listing \in Listed'
      BY <1>4, <1>5, <1>6 DEF PieceInv, Busy
    <2>7. \A a \in answers' : a.page.listing \in Listed'
      BY <1>4, <1>6 DEF PieceInv
    <2>8. \A i \in WorkIds : cache'[i] # Nothing => Piece(cache[i])'
      BY <2>2
    <2> QED
      BY <2>4, <2>5, <2>6, <2>7, <2>8 DEF PieceInv
  <1>9. Linked' /\ KeptInv'
    <2>1. \A i \in WorkIds : \A w \in WorkObjects :
             (Announces(i, w)' => Announces(i, w)) /\ (ComesFrom(i, w)' => ComesFrom(i, w))
      BY <1>4, <1>5 DEF Announces, ComesFrom, Ready
    <2> QED
      BY <1>4, <2>1, LinkedSub DEF IInv, KeptInv
  <1>10. FirstInv' /\ GoneInv' /\ AnsweredIsGone'
    BY <1>3, <1>4, <1>5 DEF IInv, FirstInv, GoneInv, AnsweredIsGone, Busy
  <1>11. PagesAreFull'
    <2>1. \A a \in answers : size'[a.page.listing] = size[a.page.listing]
      BY <1>4, <1>6 DEF PieceInv
    <2> QED
      BY <1>4, <2>1 DEF IInv, PagesAreFull
  <1> QED
    BY <1>7, <1>8, <1>9, <1>10, <1>11 DEF IInv

LEMMA WorkFoundStep ==
    ASSUME IInv, NEW r \in Requests, WorkFound(r), TypeOK' PROVE IInv'
  <1> USE WorkAssumption DEF Goto, store
  <1>1. PICK a \in answers, max \in 0 .. MaxItems :
           /\ a.next # NoId
           /\ cache[a.next] # Nothing
           /\ req' = [req EXCEPT ![r] = [Idle EXCEPT !.asked = a.next, !.work = cache[a.next], !.max = max]]
           /\ taken' = taken \cup {a.next}
    BY DEF WorkFound
  <1> DEFINE k == a.next
  <1>2. /\ UNCHANGED <<cache, made, lost, size, answers>>
        /\ pc[r] = "idle" /\ pc' = [pc EXCEPT ![r] = "found"]
        /\ TypeOK /\ IdsInv /\ PieceInv
    BY DEF WorkFound, IInv
  <1>3. k \in WorkIds /\ k \in made /\ cache[k] \in WorkObjects /\ Piece(cache[k])
    BY <1>1, <1>2 DEF TypeOK, Answers, IdsInv, Known, PieceInv
  <1>4. /\ req'[r].work = cache[k] /\ req'[r].asked = k /\ req'[r].next = NoId
        /\ \A q \in Requests : q # r => req'[q] = req[q] /\ pc'[q] = pc[q]
        /\ pc'[r] = "found"
    BY <1>1, <1>2 DEF TypeOK, Idle
  <1>5. taken' = taken \cup {k} /\ k # NoId /\ cache[k] # Nothing
    BY <1>1
  <1> HIDE DEF k
  <1>6. IdsInv'
    BY <1>2, <1>3, <1>4, <1>5 DEF IdsInv, Known
  <1>7. \A w \in WorkObjects : (Piece(w)' <=> Piece(w))
    BY <1>2 DEF Piece
  <1>8. Listed' = Listed /\ cache[k].listing \in Listed
    <2>1. cache[k].listing \in Listings
      BY <1>3 DEF WorkObjects
    <2>2. size[cache[k].listing] # [f |-> 0, d |-> 0]
      BY <1>3 DEF Piece, PieceOf, WorkObjects, Slices, Total, Count
    <2> QED
      BY <1>2, <2>1, <2>2 DEF Listed
  <1>9. PieceInv'
    <2>1. \A q \in Requests : pc'[q] \in {"found", "page"} => Piece(req[q].work)'
      BY <1>2, <1>3, <1>4 DEF PieceInv, Piece
    <2>2. \A q \in Requests : Ready(q)' => Full(req[q].work, req[q].max, req[q].next)'
      BY <1>2, <1>4 DEF PieceInv, Ready, Full
    <2>3. \A q \in Busy' : req'[q].work.listing \in Listed'
      BY <1>2, <1>4, <1>8 DEF PieceInv, Busy
    <2> QED
      BY <1>2, <1>8, <2>1, <2>2, <2>3 DEF PieceInv, Piece
  <1>10. Linked' /\ KeptInv'
    <2>1. \A i \in WorkIds : \A w \in WorkObjects :
             (Announces(i, w)' => Announces(i, w)) /\ (ComesFrom(i, w)' => ComesFrom(i, w))
      BY <1>2, <1>4 DEF Announces, ComesFrom, Ready
    <2> QED
      BY <1>2, <1>5, <2>1, LinkedSub DEF IInv, KeptInv
  <1>11. FirstInv' /\ GoneInv' /\ AnsweredIsGone' /\ PagesAreFull'
    BY <1>2, <1>4, <1>5 DEF IInv, FirstInv, GoneInv, AnsweredIsGone, PagesAreFull, Busy
  <1> QED
    BY <1>6, <1>9, <1>10, <1>11 DEF IInv

LEMMA WorkDeleteStep ==
    ASSUME IInv, NEW r \in Requests, WorkDelete(r), TypeOK' PROVE IInv'
  <1> USE WorkAssumption DEF Goto, store
  <1> DEFINE k == req[r].asked
  <1>1. /\ UNCHANGED <<req, made, taken, lost, size, answers>>
        /\ pc[r] = "found" /\ pc' = [pc EXCEPT ![r] = "page"]
        /\ cache' = [cache EXCEPT ![k] = Nothing]
        /\ TypeOK /\ IdsInv /\ PieceInv
    BY DEF WorkDelete, Remove, IInv
  <1>2. /\ \A i \in WorkIds : cache'[i] = Nothing \/ cache'[i] = cache[i]
        /\ k \in WorkIds => cache'[k] = Nothing
        /\ k # NoId => k \in taken /\ k \in WorkIds
        /\ \A i \in WorkIds : i # k => cache'[i] = cache[i]
        /\ \A q \in Requests : q # r => pc'[q] = pc[q]
        /\ pc'[r] = "page"
    BY <1>1 DEF TypeOK, Works, IdsInv
  <1> HIDE DEF k
  <1>3. IdsInv'
    BY <1>1, <1>2 DEF IdsInv, Known
  <1>4. PieceInv'
    BY <1>1, <1>2 DEF PieceInv, Piece, Full, Ready, Busy, Listed
  <1>5. \A i \in WorkIds : \A w \in WorkObjects :
           (Announces(i, w)' => Announces(i, w)) /\ (ComesFrom(i, w)' => ComesFrom(i, w))
    BY <1>1, <1>2 DEF Announces, ComesFrom, Ready
  <1>6. Linked'
    BY <1>5, LinkedSub DEF IInv
  <1>7. KeptInv'
    BY <1>1, <1>2, <1>5 DEF IInv, KeptInv
  <1>8. GoneInv' /\ AnsweredIsGone'
    <2>1. \A i \in WorkIds : cache[i] = Nothing => cache'[i] = Nothing
      BY <1>2
    <2>2. \A q \in Requests : req[q].asked # NoId => req[q].asked \in WorkIds
      BY <1>1 DEF TypeOK, Works
    <2>3. \A a \in answers : a.asked # NoId => a.asked \in WorkIds
      BY <1>1 DEF TypeOK, Answers
    <2> QED
      BY <1>1, <1>2, <2>1, <2>2, <2>3 DEF IInv, GoneInv, AnsweredIsGone, k
  <1>9. FirstInv' /\ PagesAreFull'
    BY <1>1, <1>2 DEF IInv, FirstInv, PagesAreFull, Busy
  <1> QED
    BY <1>3, <1>4, <1>6, <1>7, <1>8, <1>9 DEF IInv

LEMMA SetLoadedStep ==
    ASSUME IInv, NEW r \in Requests, SetLoaded(r), TypeOK' PROVE IInv'
  <1>1. /\ UNCHANGED <<cache, req, made, taken, lost, size, answers>>
        /\ pc[r] = "load" /\ pc' = [pc EXCEPT ![r] = "encode"]
        /\ TypeOK /\ IdsInv /\ PieceInv
    BY DEF SetLoaded, Goto, store, IInv
  <1>2. /\ \A q \in Requests : q # r => pc'[q] = pc[q]
        /\ pc'[r] = "encode"
    BY <1>1 DEF TypeOK
  <1>3. IdsInv'
    BY <1>1, <1>2 DEF IdsInv, Known
  <1>4. PieceInv'
    BY <1>1, <1>2 DEF PieceInv, Piece, Full, Ready, Busy, Listed
  <1>5. \A i, w : (Announces(i, w)' <=> Announces(i, w)) /\ (ComesFrom(i, w)' <=> ComesFrom(i, w))
    BY <1>1, <1>2 DEF Announces, ComesFrom, Ready
  <1>6. Linked' /\ KeptInv'
    BY <1>1, <1>5, LinkedSub DEF IInv, KeptInv
  <1>7. FirstInv' /\ GoneInv' /\ AnsweredIsGone' /\ PagesAreFull'
    BY <1>1, <1>2 DEF IInv, FirstInv, GoneInv, AnsweredIsGone, PagesAreFull, Busy
  <1> QED
    BY <1>3, <1>4, <1>6, <1>7 DEF IInv

LEMMA PaginateStep ==
    ASSUME IInv, NEW r \in Requests, Paginate(r), TypeOK' PROVE IInv'
  <1> USE WorkAssumption DEF Goto
  <1> DEFINE w0 == req[r].work
             max == req[r].max
             pg == Page(w0, max)
             rest == Rest(w0, max)
  <1>1. /\ UNCHANGED <<taken, lost, size, answers>>
        /\ pc[r] = "page" /\ pc' = [pc EXCEPT ![r] = "load"]
        /\ TypeOK /\ IdsInv /\ PieceInv
    BY DEF Paginate, IInv
  <1>2. w0 \in WorkObjects /\ max \in Nat /\ Piece(w0) /\ req[r].next = NoId /\ w0.listing \in Listed
    BY <1>1, PaginateCases DEF IdsInv, PieceInv, Busy
  <1>3. /\ \A q \in Requests : q # r => pc'[q] = pc[q]
        /\ pc'[r] = "load"
        /\ \A q \in Requests : q # r => (Ready(q)' <=> Ready(q))
        /\ Listed' = Listed /\ Busy' = Busy /\ r \in Busy
    BY <1>1 DEF TypeOK, Ready, Listed, Busy
  <1>4. CASE Fits(w0, max) /\ UNCHANGED <<cache, made, req>>
    <2>1. IdsInv'
      BY <1>1, <1>3, <1>4 DEF IdsInv, Known
    <2>2. End(w0) = size[w0.listing].f + size[w0.listing].d
      BY <1>1, <1>2, PieceEnds DEF Piece, TypeOK, Listed
    <2>3. Full(w0, max, NoId)
      BY <1>4, <2>2 DEF Full, Fits
    <2>4. PieceInv'
      <3>1. \A q \in Requests : Ready(q)' => Full(req[q].work, req[q].max, req[q].next)'
        BY <1>1, <1>2, <1>3, <1>4, <2>3 DEF PieceInv, Full
      <3> QED
        BY <1>1, <1>3, <1>4, <3>1 DEF PieceInv, Piece
    <2>5. \A i \in WorkIds : \A w \in WorkObjects :
             (Announces(i, w)' => Announces(i, w)) /\ (ComesFrom(i, w)' => ComesFrom(i, w))
      BY <1>1, <1>2, <1>3, <1>4 DEF Announces, ComesFrom, Ready
    <2>6. Linked' /\ KeptInv'
      BY <1>1, <1>4, <2>5, LinkedSub DEF IInv, KeptInv
    <2>7. FirstInv' /\ GoneInv' /\ AnsweredIsGone' /\ PagesAreFull'
      BY <1>1, <1>3, <1>4 DEF IInv, FirstInv, GoneInv, AnsweredIsGone, PagesAreFull
    <2> QED
      BY <2>1, <2>4, <2>6, <2>7 DEF IInv
  <1>5. CASE ~Fits(w0, max)
    <2>1. PICK k \in WorkIds \ made :
             /\ made' = made \cup {k}
             /\ cache' = [cache EXCEPT ![k] = rest]
             /\ req' = [req EXCEPT ![r] = [@ EXCEPT !.work = pg, !.next = k]]
             /\ pg \in WorkObjects /\ rest \in WorkObjects
             /\ pg.listing = w0.listing /\ rest.listing = w0.listing
             /\ Total(pg) = max /\ Start(pg) = Start(w0) /\ Start(rest) = End(pg) /\ Piece(rest)
      BY <1>5, PaginateCases, <1>1
    <2> HIDE DEF pg, rest
    <2>2. /\ req'[r].work = pg /\ req'[r].next = k
          /\ req'[r].asked = req[r].asked /\ req'[r].max = max
          /\ \A q \in Requests : q # r => req'[q] = req[q]
          /\ cache'[k] = rest /\ \A i \in WorkIds : i # k => cache'[i] = cache[i]
          /\ k # NoId /\ cache[k] = Nothing
      BY <1>1, <2>1 DEF TypeOK, Works, IdsInv
    <2> HIDE DEF w0, max
    <2>3. /\ \A q \in Requests : req[q].asked # k /\ req[q].next # k
          /\ \A a \in answers : a.asked # k /\ a.next # k
      BY <1>1, <2>1, <2>2 DEF IdsInv, Known
    <2>4. IdsInv'
      BY <1>1, <1>3, <2>1, <2>2 DEF IdsInv, Known
    <2>5. PieceInv'
      <3>1. \A i \in WorkIds : cache'[i] # Nothing => Piece(cache[i])'
        BY <1>1, <2>1, <2>2 DEF PieceInv, Piece
      <3>2. \A q \in Requests : Ready(q)' => Full(req[q].work, req[q].max, req[q].next)'
        BY <1>1, <1>3, <2>1, <2>2 DEF PieceInv, Full
      <3>3. \A q \in Busy' : req'[q].work.listing \in Listed'
        BY <1>1, <1>2, <1>3, <2>1, <2>2 DEF PieceInv, Busy
      <3>4. \A q \in Requests : pc'[q] \in {"found", "page"} => Piece(req[q].work)'
        BY <1>1, <1>3, <2>2 DEF PieceInv, Piece
      <3> QED
        BY <1>1, <1>3, <3>1, <3>2, <3>3, <3>4 DEF PieceInv
    <2>6. \A i \in WorkIds : \A w \in WorkObjects :
             Announces(i, w)' => IF i = k THEN w = pg ELSE Announces(i, w)
      BY <1>1, <1>3, <2>2, <2>3 DEF Announces
    <2>7. \A i \in WorkIds : \A w \in WorkObjects :
             ComesFrom(i, w)' =>
                IF i = k THEN w = rest ELSE ComesFrom(i, w) \/ (w = pg /\ ComesFrom(i, w0))
      BY <1>1, <2>2, <2>3 DEF ComesFrom, w0
    <2>8. Linked'
      <3> SUFFICES ASSUME NEW i \in WorkIds, NEW v \in WorkObjects, NEW w \in WorkObjects,
                          Announces(i, v)', ComesFrom(i, w)'
                   PROVE  Follows(v, w)
        BY DEF Linked, Follows, Start, End, Count
      <3>1. CASE i = k
        BY <2>1, <2>6, <2>7, <3>1 DEF Follows
      <3>2. CASE i # k /\ ComesFrom(i, w)
        BY <2>6, <3>2 DEF IInv, Linked
      <3>3. CASE i # k /\ w = pg /\ ComesFrom(i, w0)
        <4>1. Follows(v, w0)
          BY <1>2, <2>6, <3>3 DEF IInv, Linked
        <4> QED
          BY <2>1, <3>3, <4>1 DEF Follows
      <3> QED
        BY <2>7, <3>1, <3>2, <3>3
    <2>9. KeptInv'
      BY <1>1, <2>1, <2>2, <2>6 DEF IInv, KeptInv
    <2>10. FirstInv'
      BY <1>1, <1>3, <2>1, <2>2 DEF IInv, FirstInv, w0
    <2>11. GoneInv' /\ AnsweredIsGone'
      <3>1. \A q \in Requests : req'[q].asked = req[q].asked
        BY <2>2
      <3>2. \A q \in Requests : req[q].asked # NoId => cache'[req[q].asked] = cache[req[q].asked]
        BY <1>1, <2>2, <2>3 DEF TypeOK, Works
      <3>3. \A a \in answers : a.asked # NoId => cache'[a.asked] = cache[a.asked]
        BY <1>1, <2>2, <2>3 DEF TypeOK, Answers
      <3> QED
        BY <1>1, <1>3, <3>1, <3>2, <3>3 DEF IInv, GoneInv, AnsweredIsGone
    <2>12. PagesAreFull'
      BY <1>1 DEF IInv, PagesAreFull
    <2> QED
      BY <2>4, <2>5, <2>8, <2>9, <2>10, <2>11, <2>12 DEF IInv
  <1> QED
    BY <1>1, <1>4, <1>5, PaginateCases

\* What Answer and AnswerLost do to the request.
LEMMA FinishFacts ==
    ASSUME TypeOK, NEW r \in Requests, pc[r] = "encode", Finish(r)
    PROVE  /\ pc'[r] = "idle" /\ req'[r].asked = NoId /\ req'[r].next = NoId
           /\ \A q \in Requests : q # r => pc'[q] = pc[q] /\ req'[q] = req[q]
           /\ Ready(r) /\ r \in Busy
  BY DEF Finish, Goto, TypeOK, Idle, Ready, Busy

LEMMA AnswerStep ==
    ASSUME IInv, NEW r \in Requests, Answer(r), TypeOK' PROVE IInv'
  <1> DEFINE b == AnswerOf(r)
  <1>1. /\ UNCHANGED <<cache, made, taken, lost, size>>
        /\ answers' = answers \cup {b}
        /\ b.asked = req[r].asked /\ b.page = req[r].work /\ b.max = req[r].max /\ b.next = req[r].next
        /\ pc[r] = "encode"
        /\ TypeOK /\ IdsInv /\ PieceInv
    BY DEF Answer, store, AnswerOf, IInv
  <1>2. /\ pc'[r] = "idle" /\ req'[r].asked = NoId /\ req'[r].next = NoId
        /\ \A q \in Requests : q # r => pc'[q] = pc[q] /\ req'[q] = req[q]
        /\ Ready(r) /\ r \in Busy
    BY <1>1, FinishFacts DEF Answer
  <1> HIDE DEF b
  <1>3. IdsInv'
    BY <1>1, <1>2 DEF IdsInv, Known
  <1>4. PieceInv'
    <2>1. \A q \in Requests : pc'[q] \in {"found", "page"} => Piece(req[q].work)'
      BY <1>1, <1>2 DEF PieceInv, Piece
    <2>2. \A q \in Requests : Ready(q)' => Full(req[q].work, req[q].max, req[q].next)'
      BY <1>1, <1>2 DEF PieceInv, Ready, Full
    <2>3. \A q \in Busy' : req'[q].work.listing \in Listed'
      BY <1>1, <1>2 DEF PieceInv, Busy, Listed
    <2>4. \A a \in answers' : a.page.listing \in Listed'
      BY <1>1, <1>2 DEF PieceInv, Listed
    <2>5. \A i \in WorkIds : cache'[i] # Nothing => Piece(cache[i])'
      BY <1>1 DEF PieceInv, Piece
    <2> QED
      BY <2>1, <2>2, <2>3, <2>4, <2>5 DEF PieceInv
  <1>5. \A i \in WorkIds : \A w \in WorkObjects :
           (Announces(i, w)' => Announces(i, w)) /\ (ComesFrom(i, w)' => ComesFrom(i, w))
    BY <1>1, <1>2, WorkAssumption DEF Announces, ComesFrom, Ready
  <1>6. Linked' /\ KeptInv'
    BY <1>1, <1>5, LinkedSub DEF IInv, KeptInv
  <1>7. FirstInv'
    BY <1>1, <1>2 DEF IInv, FirstInv, Busy
  <1>8. GoneInv' /\ AnsweredIsGone'
    BY <1>1, <1>2 DEF IInv, GoneInv, AnsweredIsGone
  <1>9. PagesAreFull'
    <2>1. Full(b.page, b.max, b.next)
      BY <1>1, <1>2 DEF PieceInv
    <2> QED
      BY <1>1, <2>1 DEF IInv, PagesAreFull, Full
  <1> QED
    BY <1>3, <1>4, <1>6, <1>7, <1>8, <1>9 DEF IInv

LEMMA AnswerLostStep ==
    ASSUME IInv, NEW r \in Requests, AnswerLost(r), TypeOK' PROVE IInv'
  <1>1. /\ UNCHANGED <<cache, made, taken, size, answers>>
        /\ lost \subseteq lost' /\ pc[r] = "encode"
        /\ TypeOK /\ IdsInv /\ PieceInv
    BY DEF AnswerLost, store, IInv
  <1>2. /\ pc'[r] = "idle" /\ req'[r].asked = NoId /\ req'[r].next = NoId
        /\ \A q \in Requests : q # r => pc'[q] = pc[q] /\ req'[q] = req[q]
    BY <1>1, FinishFacts DEF AnswerLost
  <1>3. IdsInv'
    BY <1>1, <1>2 DEF IdsInv, Known
  <1>4. PieceInv'
    <2>1. \A q \in Requests : pc'[q] \in {"found", "page"} => Piece(req[q].work)'
      BY <1>1, <1>2 DEF PieceInv, Piece
    <2>2. \A q \in Requests : Ready(q)' => Full(req[q].work, req[q].max, req[q].next)'
      BY <1>1, <1>2 DEF PieceInv, Ready, Full
    <2> QED
      BY <1>1, <1>2, <2>1, <2>2 DEF PieceInv, Piece, Busy, Listed
  <1>5. \A i \in WorkIds : \A w \in WorkObjects :
           (Announces(i, w)' => Announces(i, w)) /\ (ComesFrom(i, w)' => ComesFrom(i, w))
    BY <1>1, <1>2, WorkAssumption DEF Announces, ComesFrom, Ready
  <1>6. Linked' /\ KeptInv'
    BY <1>1, <1>5, LinkedSub DEF IInv, KeptInv
  <1>7. FirstInv' /\ GoneInv' /\ AnsweredIsGone' /\ PagesAreFull'
    BY <1>1, <1>2 DEF IInv, FirstInv, GoneInv, AnsweredIsGone, PagesAreFull, Busy
  <1> QED
    BY <1>3, <1>4, <1>6, <1>7 DEF IInv

\* Whoever announces an id announces the listing of the object kept under it.
LEMMA KeptListing ==
    ASSUME IInv, NEW i \in WorkIds, NEW w \in WorkObjects, Announces(i, w), cache[i] # Nothing
    PROVE  cache[i].listing = w.listing
  BY DEF IInv, TypeOK, Linked, ComesFrom, Follows

LEMMA ExpireStep ==
    ASSUME IInv, NEW k \in WorkIds, Expire(k), TypeOK' PROVE IInv'
  <1>1. /\ UNCHANGED <<made, taken, size, answers, pc, req>>
        /\ cache[k] # Nothing /\ lost' = lost \cup {cache[k].listing}
        /\ cache'[k] = Nothing /\ \A i \in WorkIds : i # k => cache'[i] = cache[i]
        /\ TypeOK /\ IdsInv /\ PieceInv
    BY DEF Expire, IInv, TypeOK
  <1>2. IdsInv'
    BY <1>1 DEF IdsInv, Known
  <1>3. PieceInv'
    BY <1>1 DEF PieceInv, Piece, Ready, Full, Busy, Listed
  <1>4. \A i \in WorkIds : \A w \in WorkObjects :
           (Announces(i, w)' => Announces(i, w)) /\ (ComesFrom(i, w)' => ComesFrom(i, w))
    BY <1>1, WorkAssumption DEF Announces, ComesFrom, Ready
  <1>5. Linked'
    BY <1>4, LinkedSub DEF IInv
  <1>6. KeptInv'
    BY <1>1, <1>4, KeptListing DEF IInv, KeptInv
  <1>7. FirstInv' /\ PagesAreFull'
    BY <1>1 DEF IInv, FirstInv, PagesAreFull, Busy
  <1>8. GoneInv' /\ AnsweredIsGone'
    BY <1>1 DEF IInv, GoneInv, AnsweredIsGone, TypeOK, Works, Answers
  <1> QED
    BY <1>2, <1>3, <1>5, <1>6, <1>7, <1>8 DEF IInv

LEMMA RestartStep ==
    ASSUME IInv, Restart, TypeOK' PROVE IInv'
  <1>1. /\ UNCHANGED <<made, taken, size, answers>>
        /\ lost \subseteq lost'
        /\ \A i \in WorkIds : cache[i] # Nothing => cache[i].listing \in lost'
        /\ \A r \in Busy : req[r].work.listing \in lost'
        /\ \A i \in WorkIds : cache'[i] = Nothing
        /\ \A r \in Requests : pc'[r] = "idle" /\ req'[r].asked = NoId /\ req'[r].next = NoId
        /\ TypeOK /\ IdsInv /\ PieceInv
    BY DEF Restart, IInv, Idle
  <1>2. IdsInv'
    BY <1>1 DEF IdsInv, Known
  <1>3. PieceInv'
    BY <1>1 DEF PieceInv, Ready, Busy, Listed
  <1>4. \A i \in WorkIds : \A w \in WorkObjects :
           (Announces(i, w)' => Announces(i, w)) /\ (ComesFrom(i, w)' => ComesFrom(i, w))
    BY <1>1, WorkAssumption DEF Announces, ComesFrom, Ready
  <1>5. Linked'
    BY <1>4, LinkedSub DEF IInv
  <1>6. KeptInv'
    BY <1>1, <1>4, KeptListing DEF IInv, KeptInv
  <1>7. FirstInv' /\ PagesAreFull' /\ GoneInv' /\ AnsweredIsGone'
    BY <1>1 DEF IInv, FirstInv, PagesAreFull, Busy, GoneInv, AnsweredIsGone, TypeOK, Answers
  <1> QED
    BY <1>2, <1>3, <1>5, <1>6, <1>7 DEF IInv

LEMMA StepIInv == IInv /\ [Next]_vars => IInv'
  <1> SUFFICES ASSUME IInv, [Next]_vars PROVE IInv'
    OBVIOUS
  <1>1. TypeOK'
    BY StepTypeOK DEF IInv
  <1>2. CASE UNCHANGED vars
    BY <1>1, <1>2
       DEF vars, store, IInv, IdsInv, Known, PieceInv, Piece, Ready, Full, Busy, Listed, Linked,
           Announces, ComesFrom, Follows, Start, End, Count, FirstInv, KeptInv, GoneInv,
           PagesAreFull, AnsweredIsGone
  <1>3. CASE Next
    BY <1>1, <1>2, <1>3, GetFolderStep, WorkFoundStep, WorkDeleteStep, PaginateStep, SetLoadedStep,
       AnswerStep, AnswerLostStep, ExpireStep, RestartStep
       DEF Next, Step, WorkUnknown
  <1> QED
    BY <1>2, <1>3

-----------------------------------------------------------------------------
(***************************************************************************)
(* While no WorkID was found twice, a listing has one holder at a time: a  *)
(* request works on it, or an object waits for the request that asks next. *)
(***************************************************************************)
NeatInv ==
    /\ \A r \in Busy : Neat(req[r].work)
    /\ \A a \in answers : Neat(a.page)

\* Two requests do not work on one listing.
OneAtWork == \A r, q \in Busy : r # q => req[r].work.listing # req[q].work.listing

\* The answers of a listing lie before the work on it, and their WorkIDs are used.
WorkBehind ==
    \A r \in Busy, a \in answers :
        a.page.listing = req[r].work.listing =>
            /\ a.next # NoId => a.next \in taken
            /\ End(a.page) <= Start(req[r].work)

\* The cache has what a request has just found, or what it has just left behind.
HeldObjects ==
    \A r \in Busy, i \in WorkIds :
        cache[i] # Nothing /\ cache[i].listing = req[r].work.listing =>
            (pc[r] = "found" /\ i = req[r].asked) \/ (Ready(r) /\ i = req[r].next)

OneObject ==
    \A i, k \in WorkIds :
        cache[i] # Nothing /\ cache[k] # Nothing /\ cache[i].listing = cache[k].listing => i = k

ObjectsBehind ==
    \A a \in answers, i \in WorkIds :
        cache[i] # Nothing /\ cache[i].listing = a.page.listing => End(a.page) <= Start(cache[i])

PagesApart ==
    \A a, b \in answers :
        a # b /\ a.page.listing = b.page.listing =>
            /\ a.next # NoId /\ b.next # NoId => a.next \in taken \/ b.next \in taken
            /\ End(a.page) <= Start(b.page) \/ End(b.page) <= Start(a.page)

MapIsOfPage ==
    /\ \A r \in Requests : pc[r] = "encode" => loaded[req[r].work.listing] = Total(req[r].work)
    /\ \A a \in answers : a.loaded = Total(a.page)

OneHolder == OneAtWork /\ WorkBehind /\ HeldObjects /\ OneObject /\ ObjectsBehind /\ PagesApart /\ MapIsOfPage

OnceInv == IInv /\ NeatInv /\ (doubled = {} => OneHolder)

LEMMA NeatSpan ==
    ASSUME NEW w \in WorkObjects
    PROVE  /\ Start(w) \in Nat /\ End(w) \in Nat /\ Total(w) \in Nat
           /\ Neat(w) => /\ Start(w) <= End(w)
                         /\ \A x \in Elements(w) : x \in Nat /\ Start(w) < x /\ x <= End(w)
  BY DEF WorkObjects, Slices, Neat, Total, Count, Start, End, Elements, Items

LEMMA PieceNeat ==
    ASSUME TypeOK, NEW w \in WorkObjects, Piece(w)
    PROVE  Neat(w) /\ w.listing \in Listed
  <1>1. w.listing \in Listings /\ size[w.listing].f \in Nat /\ size[w.listing].d \in Nat
    BY DEF TypeOK, WorkObjects
  <1>2. Neat(w)
    BY DEF Piece, PieceOf, Neat
  <1>3. ~(size[w.listing].f = 0 /\ size[w.listing].d = 0)
    <2>1. w.folders.lo \in Nat /\ w.docs.lo \in Nat
      BY DEF WorkObjects, Slices
    <2>2. /\ w.folders.hi = size[w.listing].f
          /\ w.docs.hi = size[w.listing].f + size[w.listing].d
          /\ (w.folders.hi - w.folders.lo) + (w.docs.hi - w.docs.lo) > 0
      BY DEF Piece, PieceOf, Total, Count
    <2> QED
      BY <1>1, <2>1, <2>2
  <1> QED
    BY <1>1, <1>2, <1>3 DEF Listed

\* What the typing says of the parts of a listing.
LEMMA Parts ==
    ASSUME IInv
    PROVE  /\ \A r \in Busy : req[r].work \in WorkObjects /\ r \in Requests /\ req[r].work.listing \in Listed
           /\ \A a \in answers : a.page \in WorkObjects /\ a.next \in WorkIds \cup {NoId}
                                 /\ a.page.listing \in Listed
           /\ \A i \in WorkIds : cache[i] # Nothing =>
                cache[i] \in WorkObjects /\ Piece(cache[i]) /\ cache[i].listing \in Listed
  <1>1. \A i \in WorkIds : cache[i] # Nothing => cache[i] \in WorkObjects /\ Piece(cache[i])
    BY DEF IInv, TypeOK, PieceInv
  <1>2. \A i \in WorkIds : cache[i] # Nothing => cache[i].listing \in Listed
    BY <1>1, PieceNeat DEF IInv
  <1> QED
    BY <1>1, <1>2 DEF IInv, TypeOK, PieceInv, Busy, Answers

LEMMA OnceInit == Init => OnceInv
  <1> SUFFICES ASSUME Init PROVE OnceInv
    OBVIOUS
  <1>1. IInv
    BY InitIInv
  <1>2. Busy = {} /\ answers = {} /\ (\A i \in WorkIds : cache[i] = Nothing) /\ \A r \in Requests : pc[r] # "encode"
    BY DEF Init, Busy
  <1> QED
    BY <1>1, <1>2 DEF OnceInv, NeatInv, OneHolder, OneAtWork, WorkBehind, HeldObjects, OneObject, ObjectsBehind,
                      PagesApart, MapIsOfPage

LEMMA OnceGetFolder ==
    ASSUME OnceInv, NEW r \in Requests, GetFolder(r), IInv' PROVE OnceInv'
  <1>1. PICK l \in Listings \ Listed, nf \in 0 .. MaxItems, nd \in 0 .. MaxItems, max \in 0 .. MaxItems :
           /\ nf + nd \in 1 .. MaxItems
           /\ req' = [req EXCEPT ![r] =
                  [Idle EXCEPT !.max = max,
                               !.work = [listing |-> l, folders |-> All(nf),
                                         docs |-> [lo |-> nf, hi |-> nf + nd]]]]
    BY WorkAssumption DEF GetFolder
  <1>2. PICK w : w = [listing |-> l, folders |-> All(nf), docs |-> [lo |-> nf, hi |-> nf + nd]]
    OBVIOUS
  <1>3. /\ UNCHANGED <<cache, taken, doubled, loaded, answers>>
        /\ pc[r] = "idle" /\ pc' = [pc EXCEPT ![r] = "page"]
        /\ TypeOK /\ IInv
    BY DEF GetFolder, Goto, store, OnceInv, IInv
  <1>4. req'[r].work = w /\ w.listing = l
    BY <1>1, <1>2, <1>3 DEF TypeOK, Idle
  <1>5. Neat(w)
    <2>1. nf \in Nat /\ nd \in Nat /\ nf + nd > 0
      BY <1>1
    <2> QED
      BY <1>2, <2>1 DEF Neat, Total, Count, All
  <1>6. /\ \A q \in Requests : q # r => pc'[q] = pc[q] /\ req'[q] = req[q]
        /\ Busy' = Busy \cup {r} /\ r \notin Busy /\ pc'[r] = "page"
    BY <1>1, <1>3 DEF TypeOK, Busy
  <1>7. /\ \A q \in Busy : req[q].work.listing # l
        /\ \A a \in answers : a.page.listing # l
        /\ \A i \in WorkIds : cache[i] # Nothing => cache[i].listing # l
    BY <1>1, <1>3, Parts
  <1> HIDE DEF Busy
  <1>8. NeatInv'
    BY <1>3, <1>4, <1>5, <1>6 DEF OnceInv, NeatInv, Busy
  <1>9. ASSUME OneHolder PROVE OneHolder'
    <2>1. Busy \subseteq Requests
      BY DEF Busy
    <2>2. OneAtWork' /\ WorkBehind' /\ HeldObjects'
      BY <1>3, <1>4, <1>6, <1>7, <1>9, <2>1 DEF OneHolder, OneAtWork, WorkBehind, HeldObjects, Ready, Start, End, Count
    <2>3. OneObject' /\ ObjectsBehind' /\ PagesApart'
      BY <1>3, <1>9 DEF OneHolder, OneObject, ObjectsBehind, PagesApart, Start, End, Count
    <2>4. MapIsOfPage'
      BY <1>3, <1>6, <1>9 DEF OneHolder, MapIsOfPage, Total, Count
    <2> QED
      BY <2>2, <2>3, <2>4 DEF OneHolder
  <1> QED
    BY <1>3, <1>8, <1>9 DEF OnceInv

LEMMA OnceWorkFound ==
    ASSUME OnceInv, NEW r \in Requests, WorkFound(r), IInv' PROVE OnceInv'
  <1>1. PICK a \in answers, max \in 0 .. MaxItems :
           /\ a.next # NoId /\ cache[a.next] # Nothing
           /\ req' = [req EXCEPT ![r] = [Idle EXCEPT !.asked = a.next, !.work = cache[a.next], !.max = max]]
           /\ taken' = taken \cup {a.next}
           /\ doubled' = IF a.next \in taken THEN doubled \cup {a.next} ELSE doubled
    BY DEF WorkFound
  <1>2. PICK i, w : i = a.next /\ w = cache[i]
    OBVIOUS
  <1>3. /\ UNCHANGED <<cache, loaded, answers>>
        /\ pc[r] = "idle" /\ pc' = [pc EXCEPT ![r] = "found"]
        /\ TypeOK /\ IInv
    BY DEF WorkFound, Goto, OnceInv, IInv
  <1>4. req'[r].work = w /\ req'[r].asked = i
    BY <1>1, <1>2, <1>3 DEF TypeOK, Idle
  <1>5. i \in WorkIds /\ cache[i] # Nothing /\ w \in WorkObjects /\ Piece(w) /\ a.page \in WorkObjects
    BY <1>1, <1>2, <1>3, Parts
  <1>6. w.listing = a.page.listing
    <2>1. Announces(i, a.page)
      BY <1>2 DEF Announces
    <2> QED
      BY <1>2, <1>3, <1>5, <2>1, KeptListing
  <1>7. /\ \A q \in Requests : q # r => pc'[q] = pc[q] /\ req'[q] = req[q]
        /\ Busy' = Busy \cup {r} /\ r \notin Busy /\ pc'[r] = "found" /\ Busy \subseteq Requests
    BY <1>1, <1>3 DEF TypeOK, Busy
  <1>8. NeatInv'
    BY <1>3, <1>4, <1>5, <1>7, PieceNeat DEF OnceInv, NeatInv
  <1>9. ASSUME OneHolder, i \notin taken PROVE OneHolder'
    <2>1. \A q \in Busy : req[q].work.listing # w.listing
      BY <1>1, <1>2, <1>6, <1>9 DEF OneHolder, WorkBehind
    <2>2. OneAtWork'
      BY <1>4, <1>7, <1>9, <2>1 DEF OneHolder, OneAtWork
    <2>3. WorkBehind'
      <3> SUFFICES ASSUME NEW q \in Busy', NEW b \in answers, b.page.listing = req'[q].work.listing
                   PROVE  (b.next # NoId => b.next \in taken') /\ End(b.page) <= Start(req'[q].work)
        BY <1>3 DEF WorkBehind, Start, End, Count
      <3>1. CASE q # r
        BY <1>1, <1>7, <1>9, <3>1 DEF OneHolder, WorkBehind
      <3>2. CASE q = r
        <4>1. b.page.listing = w.listing /\ req'[q].work = w
          BY <1>4, <3>2
        <4>2. End(b.page) <= Start(w)
          BY <1>2, <1>5, <1>9, <4>1 DEF OneHolder, ObjectsBehind
        <4>3. b.next # NoId => b.next \in taken'
          BY <1>1, <1>2, <1>6, <1>9, <4>1 DEF OneHolder, PagesApart
        <4> QED
          BY <4>1, <4>2, <4>3
      <3> QED
        BY <3>1, <3>2
    <2>4. HeldObjects'
      <3> SUFFICES ASSUME NEW q \in Busy', NEW k \in WorkIds, cache[k] # Nothing,
                          cache[k].listing = req'[q].work.listing
                   PROVE  (pc'[q] = "found" /\ k = req'[q].asked) \/ (Ready(q)' /\ k = req'[q].next)
        BY <1>3 DEF HeldObjects
      <3>1. CASE q # r
        BY <1>7, <1>9, <3>1 DEF OneHolder, HeldObjects, Ready
      <3>2. CASE q = r
        BY <1>2, <1>4, <1>5, <1>7, <1>9, <3>2 DEF OneHolder, OneObject
      <3> QED
        BY <3>1, <3>2
    <2>5. OneObject' /\ ObjectsBehind'
      BY <1>3, <1>9 DEF OneHolder, OneObject, ObjectsBehind, Start, End, Count
    <2>6. PagesApart'
      BY <1>1, <1>3, <1>9 DEF OneHolder, PagesApart, Start, End, Count
    <2>7. MapIsOfPage'
      BY <1>3, <1>7, <1>9 DEF OneHolder, MapIsOfPage, Total, Count
    <2> QED
      BY <2>2, <2>3, <2>4, <2>5, <2>6, <2>7 DEF OneHolder
  <1> QED
    BY <1>1, <1>2, <1>8, <1>9 DEF OnceInv

LEMMA OnceWorkDelete ==
    ASSUME OnceInv, NEW r \in Requests, WorkDelete(r), IInv' PROVE OnceInv'
  <1>1. /\ UNCHANGED <<taken, doubled, loaded, req, answers>>
        /\ pc[r] = "found" /\ pc' = [pc EXCEPT ![r] = "page"]
        /\ cache' = [cache EXCEPT ![req[r].asked] = Nothing]
        /\ TypeOK /\ IInv
    BY DEF WorkDelete, Remove, Goto, OnceInv, IInv
  <1>2. /\ \A q \in Requests : q # r => pc'[q] = pc[q]
        /\ Busy' = Busy /\ r \in Busy /\ pc'[r] = "page" /\ Busy \subseteq Requests
        /\ \A i \in WorkIds : cache'[i] # Nothing => cache'[i] = cache[i] /\ i # req[r].asked
    BY <1>1 DEF TypeOK, Busy
  <1>3. NeatInv'
    BY <1>1, <1>2 DEF OnceInv, NeatInv, Neat, Total, Count
  <1>4. ASSUME OneHolder PROVE OneHolder'
    <2>1. OneAtWork' /\ WorkBehind' /\ PagesApart'
      BY <1>1, <1>2, <1>4 DEF OneHolder, OneAtWork, WorkBehind, PagesApart, Start, End, Count
    <2>2. HeldObjects'
      BY <1>1, <1>2, <1>4 DEF OneHolder, HeldObjects, Ready
    <2>3. OneObject' /\ ObjectsBehind'
      BY <1>1, <1>2, <1>4 DEF OneHolder, OneObject, ObjectsBehind, Start, End, Count
    <2>4. MapIsOfPage'
      BY <1>1, <1>2, <1>4 DEF OneHolder, MapIsOfPage, Total, Count
    <2> QED
      BY <2>1, <2>2, <2>3, <2>4 DEF OneHolder
  <1> QED
    BY <1>1, <1>3, <1>4 DEF OnceInv

LEMMA OncePaginate ==
    ASSUME OnceInv, NEW r \in Requests, Paginate(r), IInv' PROVE OnceInv'
  <1> DEFINE w0 == req[r].work
             max == req[r].max
             pg == Page(w0, max)
             rest == Rest(w0, max)
  <1>1. /\ UNCHANGED <<taken, doubled, loaded, answers>>
        /\ pc[r] = "page" /\ pc' = [pc EXCEPT ![r] = "load"]
        /\ TypeOK /\ IdsInv /\ PieceInv /\ IInv
    BY DEF Paginate, Goto, OnceInv, IInv
  <1>2. /\ \A q \in Requests : q # r => pc'[q] = pc[q]
        /\ Busy' = Busy /\ r \in Busy /\ pc'[r] = "load" /\ Busy \subseteq Requests
        /\ w0 \in WorkObjects
    BY <1>1, Parts DEF TypeOK, Busy
  <1>3. CASE UNCHANGED <<cache, made, req>>
    <2>1. NeatInv'
      BY <1>1, <1>2, <1>3 DEF OnceInv, NeatInv, Neat, Total, Count
    <2>2. ASSUME OneHolder PROVE OneHolder'
      <3>1. OneAtWork' /\ WorkBehind' /\ PagesApart' /\ OneObject' /\ ObjectsBehind'
        BY <1>1, <1>2, <1>3, <2>2
           DEF OneHolder, OneAtWork, WorkBehind, PagesApart, OneObject, ObjectsBehind, Start, End, Count
      <3>2. HeldObjects'
        BY <1>1, <1>2, <1>3, <2>2 DEF OneHolder, HeldObjects, Ready
      <3>3. MapIsOfPage'
        BY <1>1, <1>2, <1>3, <2>2 DEF OneHolder, MapIsOfPage, Total, Count
      <3> QED
        BY <3>1, <3>2, <3>3 DEF OneHolder
    <2> QED
      BY <1>1, <2>1, <2>2 DEF OnceInv
  <1>4. CASE ~(UNCHANGED <<cache, made, req>>)
    <2>1. PICK k \in WorkIds \ made :
             /\ cache' = [cache EXCEPT ![k] = rest]
             /\ req' = [req EXCEPT ![r] = [@ EXCEPT !.work = pg, !.next = k]]
             /\ pg \in WorkObjects /\ rest \in WorkObjects
             /\ pg.listing = w0.listing /\ rest.listing = w0.listing
             /\ Start(pg) = Start(w0) /\ Start(rest) = End(pg) /\ Neat(pg)
      BY <1>1, <1>4, PaginateCases
    <2> HIDE DEF pg, rest
    <2>2. /\ req'[r].work = pg /\ req'[r].next = k
          /\ \A q \in Requests : q # r => req'[q] = req[q]
          /\ cache'[k] = rest /\ \A i \in WorkIds : i # k => cache'[i] = cache[i]
      BY <1>1, <2>1 DEF TypeOK, Works
    <2> HIDE DEF w0, max
    <2>3. NeatInv'
      <3>1. \A q \in Busy' : Neat(req'[q].work)
        BY <1>2, <2>1, <2>2 DEF OnceInv, NeatInv
      <3>2. \A a \in answers' : Neat(a.page)
        BY <1>1 DEF OnceInv, NeatInv
      <3> QED
        BY <3>1, <3>2 DEF NeatInv, Neat, Total, Count
    <2>4. ASSUME OneHolder PROVE OneHolder'
      <3>1. /\ \A i \in WorkIds : cache[i] # Nothing => cache[i].listing # w0.listing
            /\ \A a \in answers : a.page.listing = w0.listing =>
                 (a.next # NoId => a.next \in taken) /\ End(a.page) <= Start(w0)
            /\ \A q \in Busy : q # r => req[q].work.listing # w0.listing
        BY <1>1, <1>2, <2>4 DEF OneHolder, HeldObjects, WorkBehind, OneAtWork, Ready, w0
      <3>2. Start(w0) <= Start(rest)
        BY <2>1, NeatSpan
      <3>3. OneAtWork'
        BY <1>2, <2>1, <2>2, <2>4, <3>1 DEF OneHolder, OneAtWork
      <3>4. WorkBehind'
        <4> SUFFICES ASSUME NEW q \in Busy, NEW a \in answers, a.page.listing = req'[q].work.listing
                     PROVE  (a.next # NoId => a.next \in taken) /\ End(a.page) <= Start(req'[q].work)
          BY <1>1, <1>2 DEF WorkBehind, Start, End, Count
        <4>1. CASE q = r
          BY <2>1, <2>2, <3>1, <4>1
        <4>2. CASE q # r
          BY <1>2, <2>2, <2>4, <4>2 DEF OneHolder, WorkBehind
        <4> QED
          BY <4>1, <4>2
      <3>5. HeldObjects'
        <4> SUFFICES ASSUME NEW q \in Busy, NEW i \in WorkIds, cache'[i] # Nothing,
                            cache'[i].listing = req'[q].work.listing
                     PROVE  (pc'[q] = "found" /\ i = req'[q].asked) \/ (Ready(q)' /\ i = req'[q].next)
          BY <1>2 DEF HeldObjects
        <4>1. CASE q = r
          BY <1>2, <2>1, <2>2, <3>1, <4>1 DEF Ready
        <4>2. CASE q # r
          BY <1>2, <2>1, <2>2, <2>4, <3>1, <4>2 DEF OneHolder, HeldObjects, Ready
        <4> QED
          BY <4>1, <4>2
      <3>6. OneObject'
        BY <2>1, <2>2, <2>4, <3>1 DEF OneHolder, OneObject
      <3>7. ObjectsBehind'
        <4> SUFFICES ASSUME NEW a \in answers, NEW i \in WorkIds, cache'[i] # Nothing,
                            cache'[i].listing = a.page.listing
                     PROVE  End(a.page) <= Start(cache'[i])
          BY <1>1 DEF ObjectsBehind, Start, End, Count
        <4>1. CASE i = k
          <5>1. End(a.page) <= Start(w0)
            BY <2>1, <2>2, <3>1, <4>1
          <5>2. End(a.page) \in Nat /\ Start(w0) \in Nat /\ Start(rest) \in Nat
            BY <1>1, <1>2, <2>1, Parts, NeatSpan
          <5>3. End(a.page) <= Start(rest)
            BY <3>2, <5>1, <5>2
          <5> QED
            BY <2>2, <4>1, <5>3
        <4>2. CASE i # k
          BY <2>2, <2>4, <4>2 DEF OneHolder, ObjectsBehind
        <4> QED
          BY <4>1, <4>2
      <3>8. PagesApart'
        BY <1>1, <2>4 DEF OneHolder, PagesApart, Start, End, Count
      <3>9. MapIsOfPage'
        BY <1>1, <1>2, <2>2, <2>4 DEF OneHolder, MapIsOfPage, Total, Count
      <3> QED
        BY <3>3, <3>4, <3>5, <3>6, <3>7, <3>8, <3>9 DEF OneHolder
    <2> QED
      BY <1>1, <2>3, <2>4 DEF OnceInv
  <1> QED
    BY <1>3, <1>4

LEMMA OnceSetLoaded ==
    ASSUME OnceInv, NEW r \in Requests, SetLoaded(r), IInv' PROVE OnceInv'
  <1>1. /\ UNCHANGED <<cache, taken, doubled, req, answers>>
        /\ pc[r] = "load" /\ pc' = [pc EXCEPT ![r] = "encode"]
        /\ loaded' = [loaded EXCEPT ![req[r].work.listing] = Total(req[r].work)]
        /\ TypeOK /\ IInv
    BY DEF SetLoaded, Loaded, Goto, store, OnceInv, IInv
  <1>2. /\ \A q \in Requests : q # r => pc'[q] = pc[q]
        /\ Busy' = Busy /\ r \in Busy /\ pc'[r] = "encode" /\ Busy \subseteq Requests
        /\ \A q \in Requests : Ready(q)' <=> Ready(q)
    BY <1>1 DEF TypeOK, Busy, Ready
  <1>3. NeatInv'
    BY <1>1, <1>2 DEF OnceInv, NeatInv, Neat, Total, Count
  <1>4. ASSUME OneHolder PROVE OneHolder'
    <2>1. OneAtWork' /\ WorkBehind' /\ PagesApart' /\ OneObject' /\ ObjectsBehind'
      BY <1>1, <1>2, <1>4
         DEF OneHolder, OneAtWork, WorkBehind, PagesApart, OneObject, ObjectsBehind, Start, End, Count
    <2>2. HeldObjects'
      BY <1>1, <1>2, <1>4 DEF OneHolder, HeldObjects
    <2>3. MapIsOfPage'
      <3>1. \A q \in Requests : pc'[q] = "encode" => loaded'[req[q].work.listing] = Total(req[q].work)
        <4> SUFFICES ASSUME NEW q \in Requests, pc'[q] = "encode"
                     PROVE  loaded'[req[q].work.listing] = Total(req[q].work)
          OBVIOUS
        <4>1. q \in Busy /\ req[q].work.listing \in Listings
          BY <1>1, <1>2, Parts DEF Busy, Listed
        <4>2. q # r => req[q].work.listing # req[r].work.listing /\ pc[q] = "encode"
          BY <1>2, <1>4, <4>1 DEF OneHolder, OneAtWork
        <4> QED
          BY <1>1, <1>4, <4>1, <4>2 DEF TypeOK, OneHolder, MapIsOfPage
      <3> QED
        BY <1>1, <1>4, <3>1 DEF OneHolder, MapIsOfPage, Total, Count
    <2> QED
      BY <2>1, <2>2, <2>3 DEF OneHolder
  <1> QED
    BY <1>1, <1>3, <1>4 DEF OnceInv

LEMMA OnceAnswer ==
    ASSUME OnceInv, NEW r \in Requests, Answer(r), IInv' PROVE OnceInv'
  <1> DEFINE w == req[r].work
  <1>1. PICK b : b = AnswerOf(r)
    OBVIOUS
  <1>2. /\ UNCHANGED <<cache, taken, doubled, loaded>> /\ answers' = answers \cup {b}
        /\ b.page = w /\ b.next = req[r].next /\ b.loaded = loaded[w.listing]
        /\ pc[r] = "encode" /\ TypeOK /\ IInv
    BY <1>1 DEF Answer, AnswerOf, store, OnceInv, IInv
  <1>3. /\ \A q \in Requests : q # r => pc'[q] = pc[q] /\ req'[q] = req[q]
        /\ Ready(r) /\ r \in Busy /\ pc'[r] = "idle"
    BY <1>2, FinishFacts DEF Answer
  <1>4. Busy' = Busy \ {r} /\ Busy \subseteq Requests /\ w \in WorkObjects
    BY <1>2, <1>3, Parts DEF Busy
  <1>5. NeatInv'
    <2>1. \A a \in answers' : Neat(a.page)
      BY <1>2, <1>3 DEF OnceInv, NeatInv
    <2>2. \A q \in Busy' : Neat(req'[q].work)
      BY <1>3, <1>4 DEF OnceInv, NeatInv
    <2> QED
      BY <2>1, <2>2 DEF NeatInv, Neat, Total, Count
  <1> HIDE DEF w
  <1>6. ASSUME OneHolder PROVE OneHolder'
    <2>1. /\ \A a \in answers : a.page.listing = w.listing =>
               (a.next # NoId => a.next \in taken) /\ End(a.page) <= Start(w)
          /\ \A q \in Busy : q # r => req[q].work.listing # w.listing
          /\ \A i \in WorkIds : cache[i] # Nothing /\ cache[i].listing = w.listing => i = req[r].next
          /\ loaded[w.listing] = Total(w)
      BY <1>2, <1>3, <1>4, <1>6 DEF OneHolder, WorkBehind, OneAtWork, HeldObjects, MapIsOfPage, w
    <2>2. OneAtWork' /\ HeldObjects'
      BY <1>2, <1>3, <1>4, <1>6 DEF OneHolder, OneAtWork, HeldObjects, Ready
    <2>3. WorkBehind'
      <3> SUFFICES ASSUME NEW q \in Busy', NEW a \in answers', a.page.listing = req'[q].work.listing
                   PROVE  (a.next # NoId => a.next \in taken) /\ End(a.page) <= Start(req'[q].work)
        BY <1>2 DEF WorkBehind, Start, End, Count
      <3>1. a \in answers /\ q \in Busy /\ req'[q] = req[q]
        BY <1>2, <1>3, <1>4, <2>1
      <3> QED
        BY <1>6, <3>1 DEF OneHolder, WorkBehind
    <2>4. OneObject'
      BY <1>2, <1>6 DEF OneHolder, OneObject
    <2>5. ObjectsBehind'
      <3> SUFFICES ASSUME NEW a \in answers', NEW i \in WorkIds, cache[i] # Nothing,
                          cache[i].listing = a.page.listing
                   PROVE  End(a.page) <= Start(cache[i])
        BY <1>2 DEF ObjectsBehind, Start, End, Count
      <3>1. CASE a \in answers
        BY <1>6, <3>1 DEF OneHolder, ObjectsBehind
      <3>2. CASE a = b
        <4>1. i = req[r].next /\ a.page = w
          BY <1>2, <2>1, <3>2
        <4>2. cache[i] \in WorkObjects
          BY <1>2, Parts
        <4>3. Announces(i, w) /\ ComesFrom(i, cache[i])
          BY <1>3, <4>1 DEF Announces, ComesFrom, w
        <4>4. Start(cache[i]) = End(w)
          BY <1>2, <1>4, <4>2, <4>3 DEF IInv, Linked, Follows
        <4>5. End(w) \in Nat
          BY <1>4, NeatSpan
        <4> QED
          BY <4>1, <4>4, <4>5
      <3> QED
        BY <1>2, <3>1, <3>2
    <2>6. PagesApart'
      <3> SUFFICES ASSUME NEW a \in answers', NEW o \in answers', a # o, a.page.listing = o.page.listing
                   PROVE  /\ a.next # NoId /\ o.next # NoId => a.next \in taken \/ o.next \in taken
                          /\ End(a.page) <= Start(o.page) \/ End(o.page) <= Start(a.page)
        BY <1>2 DEF PagesApart, Start, End, Count
      <3>1. CASE a \in answers /\ o \in answers
        BY <1>6, <3>1 DEF OneHolder, PagesApart
      <3>2. CASE a = b /\ o \in answers
        BY <1>2, <2>1, <3>2
      <3>3. CASE o = b /\ a \in answers
        BY <1>2, <2>1, <3>3
      <3> QED
        BY <1>2, <3>1, <3>2, <3>3
    <2>7. MapIsOfPage'
      <3>1. \A a \in answers' : a.loaded = Total(a.page)
        BY <1>2, <1>6, <2>1 DEF OneHolder, MapIsOfPage
      <3>2. \A q \in Requests : pc'[q] = "encode" => loaded[req'[q].work.listing] = Total(req'[q].work)
        BY <1>3, <1>6 DEF OneHolder, MapIsOfPage
      <3> QED
        BY <1>2, <3>1, <3>2 DEF MapIsOfPage, Total, Count
    <2> QED
      BY <2>2, <2>3, <2>4, <2>5, <2>6, <2>7 DEF OneHolder
  <1> QED
    BY <1>2, <1>5, <1>6 DEF OnceInv

\* An answer that is lost, an object that expires and a restart take parts away.
LEMMA OnceLoses ==
    ASSUME OnceInv, IInv', UNCHANGED <<answers, loaded, taken, doubled>>, Busy' \subseteq Busy,
           \A q \in Busy' : pc'[q] = pc[q] /\ req'[q] = req[q],
           \A i \in WorkIds : cache'[i] # Nothing => cache'[i] = cache[i]
    PROVE  OnceInv'
  <1>1. NeatInv'
    BY DEF OnceInv, NeatInv, Neat, Total, Count
  <1>2. ASSUME OneHolder PROVE OneHolder'
    <2>1. OneAtWork' /\ WorkBehind' /\ PagesApart'
      BY <1>2 DEF OneHolder, OneAtWork, WorkBehind, PagesApart, Start, End, Count
    <2>2. HeldObjects'
      BY <1>2 DEF OneHolder, HeldObjects, Ready
    <2>3. OneObject' /\ ObjectsBehind'
      BY <1>2 DEF OneHolder, OneObject, ObjectsBehind, Start, End, Count
    <2>4. MapIsOfPage'
      <3>1. \A q \in Requests : pc'[q] = "encode" => q \in Busy'
        BY DEF Busy
      <3>2. \A q \in Requests : pc'[q] = "encode" => pc[q] = "encode" /\ req'[q] = req[q]
        BY <3>1
      <3> QED
        BY <1>2, <3>2 DEF OneHolder, MapIsOfPage, Total, Count
    <2> QED
      BY <2>1, <2>2, <2>3, <2>4 DEF OneHolder
  <1> QED
    BY <1>1, <1>2 DEF OnceInv

LEMMA StepOnceInv == OnceInv /\ [Next]_vars => OnceInv'
  <1> SUFFICES ASSUME OnceInv, [Next]_vars PROVE OnceInv'
    OBVIOUS
  <1>1. IInv' /\ IInv /\ TypeOK
    BY StepIInv DEF OnceInv, IInv
  <1>2. CASE UNCHANGED vars
    BY <1>1, <1>2, OnceLoses DEF vars, store, Busy
  <1>3. ASSUME NEW r \in Requests, AnswerLost(r) PROVE OnceInv'
    <2>1. /\ \A q \in Requests : q # r => pc'[q] = pc[q] /\ req'[q] = req[q]
          /\ pc'[r] = "idle"
      BY <1>1, <1>3, FinishFacts DEF AnswerLost
    <2> QED
      BY <1>1, <1>3, <2>1, OnceLoses DEF AnswerLost, store, Busy
  <1>4. ASSUME NEW i \in WorkIds, Expire(i) PROVE OnceInv'
    BY <1>1, <1>4, OnceLoses DEF Expire, TypeOK, Busy
  <1>5. CASE Restart
    BY <1>1, <1>5, OnceLoses DEF Restart, Busy
  <1> QED
    BY <1>1, <1>2, <1>3, <1>4, <1>5, OnceGetFolder, OnceWorkFound, OnceWorkDelete, OncePaginate,
       OnceSetLoaded, OnceAnswer
       DEF Next, Step, WorkUnknown

LEMMA OnceHolds == Spec => []OnceInv
  <1>1. OnceInv /\ [Next]_vars => OnceInv'
    BY StepOnceInv
  <1> QED
    BY OnceInit, <1>1, PTL DEF Spec

-----------------------------------------------------------------------------
\* The invariant holds of every behaviour.
THEOREM Invariance == Spec => []IInv
  <1>1. IInv /\ [Next]_vars => IInv'
    BY StepIInv
  <1> QED
    BY InitIInv, <1>1, PTL DEF Spec

\* The state of the paged listings is well typed.
THEOREM Typing == Spec => []TypeOK
  <1>1. IInv => TypeOK
    BY DEF IInv
  <1> QED
    BY Invariance, <1>1, PTL

\* GetFolderByWorkID returns the next batch, whatever the page sizes and however
\* many requests ask for the same WorkID.
THEOREM NextBatch == Spec => []SuccessorContinues
  <1>1. IInv => SuccessorContinues
    <2> SUFFICES ASSUME IInv PROVE SuccessorContinues
      OBVIOUS
    <2>1. \A a, b \in answers : a.next # NoId /\ b.asked = a.next => Follows(a.page, b.page)
      <3> SUFFICES ASSUME NEW a \in answers, NEW b \in answers, a.next # NoId, b.asked = a.next
                   PROVE  Follows(a.page, b.page)
        OBVIOUS
      <3>1. a.next \in WorkIds /\ a.page \in WorkObjects /\ b.page \in WorkObjects
        BY DEF IInv, TypeOK, Answers
      <3>2. Announces(a.next, a.page) /\ ComesFrom(a.next, b.page)
        BY DEF Announces, ComesFrom
      <3> QED
        BY <3>1, <3>2 DEF IInv, Linked
    <2> QED
      BY <2>1 DEF SuccessorContinues, Follows, IInv, FirstInv
  <1> QED
    BY Invariance, <1>1, PTL

\* Pages are full until the last, and the last ends the listing.
THEOREM FullPages == Spec => []PagesAreFull
  <1>1. IInv => PagesAreFull
    BY DEF IInv
  <1> QED
    BY Invariance, <1>1, PTL

\* A NextWorkId is good until it is used, unless something of its listing was lost.
THEOREM NextIsKept == Spec => []NextIsThere
  <1>1. IInv => NextIsThere
    <2> SUFFICES ASSUME IInv, NEW a \in answers, a.next # NoId
                 PROVE  cache[a.next] # Nothing \/ a.next \in taken \/ a.page.listing \in lost
      BY DEF NextIsThere
    <2>1. a.next \in WorkIds /\ a.page \in WorkObjects
      BY DEF IInv, TypeOK, Answers
    <2>2. Announces(a.next, a.page)
      BY DEF Announces
    <2> QED
      BY <2>1, <2>2 DEF IInv, KeptInv
  <1> QED
    BY Invariance, <1>1, PTL

\* A WorkID that was answered is not answered again.
THEOREM AnsweredOnce == Spec => []AnsweredIsGone
  <1>1. IInv => AnsweredIsGone
    BY DEF IInv
  <1> QED
    BY Invariance, <1>1, PTL

\* As long as no WorkID was found by two requests, no element of a listing is
\* answered twice, nor answered and kept for later.
THEOREM AnsweredApart == Spec => []NoElementTwice
  <1>1. OnceInv => NoElementTwice
    <2> SUFFICES ASSUME OnceInv, doubled = {} PROVE NoElementTwice
      BY DEF NoElementTwice
    <2>1. /\ \A a \in answers : a.page \in WorkObjects /\ Neat(a.page)
          /\ \A i \in WorkIds : cache[i] # Nothing => cache[i] \in WorkObjects /\ Neat(cache[i])
      BY Parts, PieceNeat DEF OnceInv, IInv, NeatInv
    <2>2. \A v, w \in WorkObjects : Neat(v) /\ Neat(w) /\ End(v) <= Start(w) => Elements(v) \cap Elements(w) = {}
      <3> SUFFICES ASSUME NEW v \in WorkObjects, NEW w \in WorkObjects, Neat(v), Neat(w), End(v) <= Start(w),
                          NEW x \in Elements(v), x \in Elements(w)
                   PROVE  FALSE
        OBVIOUS
      <3>1. End(v) \in Nat /\ Start(w) \in Nat /\ x \in Nat /\ x <= End(v) /\ Start(w) < x
        BY NeatSpan
      <3> QED
        BY <3>1
    <2>3. /\ \A a, b \in answers : a # b /\ a.page.listing = b.page.listing =>
               End(a.page) <= Start(b.page) \/ End(b.page) <= Start(a.page)
          /\ \A a \in answers, i \in WorkIds :
               cache[i] # Nothing /\ cache[i].listing = a.page.listing => End(a.page) <= Start(cache[i])
      BY DEF OnceInv, OneHolder, PagesApart, ObjectsBehind
    <2> QED
      BY <2>1, <2>2, <2>3 DEF NoElementTwice
  <1> QED
    BY OnceHolds, <1>1, PTL

\* As long as no WorkID was found by two requests, the FolderInfo of an answer
\* counts that answer's elements, although the pages share the map.
THEOREM MapOfThePage == Spec => []LoadedIsOfPage
  <1>1. OnceInv => LoadedIsOfPage
    BY DEF OnceInv, OneHolder, MapIsOfPage, LoadedIsOfPage
  <1> QED
    BY OnceHolds, <1>1, PTL
=============================================================================
