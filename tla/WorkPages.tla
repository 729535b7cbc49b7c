----------------------------- MODULE WorkPages ------------------------------
(***************************************************************************)
(* Paged folder listings: GetFolder, GetFolderByWorkID and the work cache  *)
(* (openyard-service/pkg/http/handlers/folders.go).                        *)
(*                                                                         *)
(* GetFolder answers the first page and keeps the rest of the listing      *)
(* under a new random WorkID, which the answer carries; GetFolderByWorkID  *)
(* takes the rest out of the cache, answers the next page and keeps the    *)
(* new rest under another WorkID.  The pages of one listing share one      *)
(* FolderInfo map, which each request writes and then encodes.             *)
(*                                                                         *)
(* The elements of a listing are its positions: 1 .. nf are the folders,   *)
(* nf+1 .. nf+nd the documents.  A Go slice is a record of two bounds: the *)
(* positions above lo up to hi.                                            *)
(***************************************************************************)
EXTENDS Integers, FiniteSets

CONSTANTS Requests,   \* the requests that can be served at once
          Listings,   \* the listings that GetFolder makes (their FolderInfo maps)
          WorkIds,    \* the WorkIDs that can be generated
          NoId,       \* the zero GUID, and a request without a WorkID
          NoListing,  \* a request that works on nothing
          Nothing,    \* a WorkID the cache does not know
          MaxItems    \* bound: the elements of a listing, and the page size asked for

VARIABLES
    cache,    \* per WorkID: the work object kept, or Nothing
    made,     \* history: the WorkIDs generated so far
    lost,     \* history: the listings of which an answer or an object was lost
    taken,    \* history: the WorkIDs some request found in the cache
    doubled,  \* history: the WorkIDs two requests found in the cache
    size,     \* per listing: its numbers of folders and documents
    loaded,   \* per listing: SubElementsLoaded of its shared FolderInfo
    pc,       \* where each request is
    req,      \* what each request works on, and what it is about to answer
    answers   \* history: the answers that reached their client

store == <<cache, made, taken, doubled>>
vars == <<store, lost, size, loaded, pc, req, answers>>

-----------------------------------------------------------------------------
(* Slices. *)

Slices == {s \in [lo : Nat, hi : Nat] : s.lo <= s.hi}
Count(s) == s.hi - s.lo
Take(s, n) == [lo |-> s.lo, hi |-> s.lo + n]
Drop(s, n) == [lo |-> s.lo + n, hi |-> s.hi]
Items(s) == (s.lo + 1) .. s.hi
All(n) == [lo |-> 0, hi |-> n]

\* A work object: what is left of a listing.
WorkObjects == [listing : Listings, folders : Slices, docs : Slices]
Total(w) == Count(w.folders) + Count(w.docs)

ASSUME WorkAssumption ==
    /\ NoId \notin WorkIds
    /\ NoListing \notin Listings
    /\ Nothing \notin WorkObjects
    /\ MaxItems \in Nat

\* paginateSubElements: a page of max elements, folders first, and what remains.
\* max = 0 stands for no (usable) parameter: everything fits.  Before
\* the rest stand slips it could have: one without its folders, one with the
\* documents just sent.
Fits(w, max) == max = 0 \/ Total(w) <= max

Least(a, b) == IF a <= b THEN a ELSE b

Page(w, max) ==
    IF Fits(w, max) THEN w
    ELSE LET nf == Least(Count(w.folders), max)
         IN  [w EXCEPT !.folders = Take(@, nf), !.docs = Take(@, max - nf)]

RestDocsOnly(w, max) ==
    LET nf == Least(Count(w.folders), max)
    IN  [w EXCEPT !.folders = Drop(@, Count(@)), !.docs = Drop(@, max - nf)]

RestAllDocs(w, max) ==
    LET nf == Least(Count(w.folders), max)
    IN  [w EXCEPT !.folders = Drop(@, nf)]

Rest(w, max) ==
    LET nf == Least(Count(w.folders), max)
    IN  [w EXCEPT !.folders = Drop(@, nf), !.docs = Drop(@, max - nf)]

-----------------------------------------------------------------------------
(* What a request works on.  asked is its WorkID, work the object it has or the
   page it answers, max its page size, next the NextWorkId of its answer. *)

NoWork == [listing |-> NoListing, folders |-> All(0), docs |-> All(0)]
Idle == [asked |-> NoId, work |-> NoWork, max |-> 0, next |-> NoId]

Works == [asked : WorkIds \cup {NoId},
          work  : WorkObjects \cup {NoWork},
          max   : Nat,
          next  : WorkIds \cup {NoId}]

Answers == [asked : WorkIds \cup {NoId}, page : WorkObjects, max : Nat,
            next : WorkIds \cup {NoId}, loaded : Nat]

Busy == {r \in Requests : pc[r] # "idle"}
Listed == {l \in Listings : size[l] # [f |-> 0, d |-> 0]}

TypeOK ==
    /\ cache \in [WorkIds -> WorkObjects \cup {Nothing}]
    /\ made \subseteq WorkIds
    /\ lost \subseteq Listings
    /\ taken \subseteq WorkIds
    /\ doubled \subseteq WorkIds
    /\ size \in [Listings -> [f : Nat, d : Nat]]
    /\ loaded \in [Listings -> Nat]
    /\ pc \in [Requests -> {"idle", "found", "page", "load", "encode"}]
    /\ req \in [Requests -> Works]
    /\ \A r \in Busy : req[r].work \in WorkObjects
    /\ answers \subseteq Answers

Init ==
    /\ cache = [i \in WorkIds |-> Nothing]
    /\ made = {}
    /\ lost = {}
    /\ taken = {}
    /\ doubled = {}
    /\ size = [l \in Listings |-> [f |-> 0, d |-> 0]]
    /\ loaded = [l \in Listings |-> 0]
    /\ pc = [r \in Requests |-> "idle"]
    /\ req = [r \in Requests |-> Idle]
    /\ answers = {}

Goto(r, label) == pc' = [pc EXCEPT ![r] = label]

\* Bound: a request starts only while there is a WorkID for each busy request.
IdsLeft == Cardinality(WorkIds \ made) > Cardinality(Busy)

-----------------------------------------------------------------------------
\* GetFolder up to its answer: stat and list succeed and find nf folders and nd
\* documents.  A folder that is not found or not listed changes no state, and an
\* empty one is answered as a whole.
GetFolder(r) ==
    /\ pc[r] = "idle"
    /\ IdsLeft
    /\ \E l \in Listings \ Listed, nf, nd, max \in 0 .. MaxItems :
          /\ nf + nd \in 1 .. MaxItems
          /\ size' = [size EXCEPT ![l] = [f |-> nf, d |-> nd]]
          /\ req' = [req EXCEPT ![r] =
                 [Idle EXCEPT !.max = max,
                              !.work = [listing |-> l, folders |-> All(nf),
                                        docs |-> [lo |-> nf, hi |-> nf + nd]]]]
    /\ Goto(r, "page")
    /\ UNCHANGED <<store, lost, loaded, answers>>

\* GetFolderByWorkID finds the WorkID of an answer in the cache.
WorkFound(r) ==
    /\ pc[r] = "idle"
    /\ IdsLeft
    /\ \E a \in answers, max \in 0 .. MaxItems :
          LET i == a.next IN
          /\ i # NoId
          /\ cache[i] # Nothing
          /\ req' = [req EXCEPT ![r] = [Idle EXCEPT !.asked = i, !.work = cache[i], !.max = max]]
          /\ taken' = taken \cup {i}
          /\ doubled' = IF i \in taken THEN doubled \cup {i} ELSE doubled
    /\ Goto(r, "found")
    /\ UNCHANGED <<cache, made, lost, size, loaded, answers>>

\* It does not: "WorkID expired or unknown".
WorkUnknown(r) ==
    /\ pc[r] = "idle"
    /\ \E i \in WorkIds : cache[i] = Nothing
    /\ UNCHANGED vars

\* The object leaves the cache, a step after it was found.
Remove(i) == cache' = [cache EXCEPT ![i] = Nothing]

WorkDelete(r) ==
    /\ pc[r] = "found"
    /\ Remove(req[r].asked)
    /\ Goto(r, "page")
    /\ UNCHANGED <<made, taken, doubled, lost, size, loaded, req, answers>>

\* generateWorkID: random, and different from all before; which one it is does not
\* matter to anybody.
NewId == CHOOSE i \in WorkIds : i \notin made

\* paginateSubElements, and storeWorkObject when something remains.
Paginate(r) ==
    /\ pc[r] = "page"
    /\ LET w == req[r].work
           max == req[r].max
       IN  IF Fits(w, max)
           THEN UNCHANGED <<cache, made, req>>
           ELSE /\ WorkIds \ made # {}
                /\ made' = made \cup {NewId}
                /\ cache' = [cache EXCEPT ![NewId] = Rest(w, max)]
                /\ req' = [req EXCEPT ![r] = [@ EXCEPT !.work = Page(w, max), !.next = NewId]]
    /\ Goto(r, "load")
    /\ UNCHANGED <<taken, doubled, lost, size, loaded, answers>>

\* SubElementsLoaded is written into the FolderInfo map all pages share.  The
\* form before it counts the folders only.
LoadedFolders(w) == Count(w.folders)
Loaded(w) == Total(w)

SetLoaded(r) ==
    /\ pc[r] = "load"
    /\ loaded' = [loaded EXCEPT ![req[r].work.listing] = Loaded(req[r].work)]
    /\ Goto(r, "encode")
    /\ UNCHANGED <<store, lost, size, req, answers>>

\* The answer is encoded, from the shared map, and reaches the client ...
AnswerOf(r) == [asked |-> req[r].asked, page |-> req[r].work, max |-> req[r].max,
                next |-> req[r].next, loaded |-> loaded[req[r].work.listing]]

Finish(r) == Goto(r, "idle") /\ req' = [req EXCEPT ![r] = Idle]

Answer(r) ==
    /\ pc[r] = "encode"
    /\ answers' = answers \cup {AnswerOf(r)}
    /\ Finish(r)
    /\ UNCHANGED <<store, lost, size, loaded>>

\* ... or is lost with the client's connection.
AnswerLost(r) ==
    /\ pc[r] = "encode"
    /\ lost' = lost \cup {req[r].work.listing}
    /\ Finish(r)
    /\ UNCHANGED <<store, size, loaded, answers>>

-----------------------------------------------------------------------------
\* go-cache: ten minutes after it was stored, an object is not found any more.
Expire(i) ==
    /\ cache[i] # Nothing
    /\ cache' = [cache EXCEPT ![i] = Nothing]
    /\ lost' = lost \cup {cache[i].listing}
    /\ UNCHANGED <<made, taken, doubled, size, loaded, pc, req, answers>>

\* The process dies, of its own (two requests that write one FolderInfo map at
\* the same moment are fatal to a Go program) or not, and starts again.
Restart ==
    /\ lost' = lost \cup {req[r].work.listing : r \in Busy}
                    \cup {cache[i].listing : i \in {j \in WorkIds : cache[j] # Nothing}}
    /\ cache' = [i \in WorkIds |-> Nothing]
    /\ pc' = [r \in Requests |-> "idle"]
    /\ req' = [r \in Requests |-> Idle]
    /\ UNCHANGED <<made, taken, doubled, size, loaded, answers>>

Step(r) ==
    \/ WorkDelete(r)
    \/ Paginate(r)
    \/ SetLoaded(r)
    \/ Answer(r)
    \/ AnswerLost(r)

Next ==
    \/ \E r \in Requests :
          \/ GetFolder(r)
          \/ WorkFound(r)
          \/ WorkUnknown(r)
          \/ Step(r)
    \/ \E i \in WorkIds : Expire(i)
    \/ Restart

Spec == Init /\ [][Next]_vars

\* A request that was begun goes on, and a client that got a NextWorkId asks for it.
FairSpec == Spec /\ \A r \in Requests : WF_vars(Step(r)) /\ WF_vars(WorkFound(r))

-----------------------------------------------------------------------------
Start(w) == IF Count(w.folders) > 0 THEN w.folders.lo ELSE w.docs.lo
End(w) == IF Count(w.docs) > 0 THEN w.docs.hi ELSE w.folders.hi
Elements(w) == Items(w.folders) \cup Items(w.docs)

\* "Returns the next batch of sub-elements": the answer to a WorkID begins right
\* behind the last element of the answer that carried it, folders before documents,
\* whatever page sizes were asked for and whoever asked; a first page begins with
\* the first element.
SuccessorContinues ==
    /\ \A a, b \in answers :
          a.next # NoId /\ b.asked = a.next =>
              /\ b.page.listing = a.page.listing
              /\ Start(b.page) = End(a.page)
    /\ \A a \in answers : a.asked = NoId => Start(a.page) = 0

\* A page is full unless it is the last, which is the one without a NextWorkId
\* and which ends the listing.
PagesAreFull ==
    \A a \in answers :
        IF a.next = NoId
        THEN /\ End(a.page) = size[a.page.listing].f + size[a.page.listing].d
             /\ a.max > 0 => Total(a.page) <= a.max
        ELSE Total(a.page) = a.max

\* As long as no WorkID was found by two requests, no element of a listing is
\* answered twice, nor answered and kept for later.
NoElementTwice ==
    doubled = {} =>
        /\ \A a, b \in answers :
              a # b /\ a.page.listing = b.page.listing => Elements(a.page) \cap Elements(b.page) = {}
        /\ \A a \in answers, i \in WorkIds :
              cache[i] # Nothing /\ cache[i].listing = a.page.listing
                  => Elements(a.page) \cap Elements(cache[i]) = {}

\* A NextWorkId that reached a client is good until somebody uses it: its rest is
\* in the cache unless a request found it there, or something of the listing was lost.
NextIsThere ==
    \A a \in answers :
        a.next # NoId => cache[a.next] # Nothing \/ a.next \in taken \/ a.page.listing \in lost

\* A WorkID that was answered is not answered again.
AnsweredIsGone == \A a \in answers : a.asked # NoId => cache[a.asked] = Nothing

\* The FolderInfo an answer carries counts that answer's elements, although the
\* pages share the map: as long as no WorkID was found by two requests.
LoadedIsOfPage == doubled = {} => \A a \in answers : a.loaded = Total(a.page)

\* A client that follows its NextWorkIds comes to the end of the listing, unless
\* an answer is lost on the way, an object expires or the process dies.
Ended(l) == \E a \in answers : a.page.listing = l /\ a.next = NoId
ListingEnds ==
    \A l \in Listings : l \in Listed ~> (Ended(l) \/ l \in lost)
=============================================================================
