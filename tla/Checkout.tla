------------------------------ MODULE Checkout ------------------------------
(***************************************************************************)
(* CMIS check-out, cancelCheckOut and checkIn of one document              *)
(* (openyard-service/pkg/http/cmis/versioning.go).                         *)
(*                                                                         *)
(* The service keeps no state of its own: a document is checked out when   *)
(* the storage holds a lock on it, and the handlers mark it so in its      *)
(* arbitrary metadata (oy.checkedOut, oy.checkedOutDate, oy.lockId, always *)
(* written and removed together).  Each handler is a series of calls to    *)
(* the storage, and requests interleave between the calls.                 *)
(*                                                                         *)
(* The storage is external: SetLock refuses a locked document, Unlock      *)
(* refuses any lock but the one that is set.  A call may fail, before or   *)
(* after its effect, if Faults.                                            *)
(***************************************************************************)
CONSTANTS Requests,  \* the requests that can be served at once
          LockIds,   \* the lock ids that can be generated
          None,      \* no lock, no mark, no lock id
          Faults     \* whether calls may fail and the service may crash

ASSUME CheckoutAssumption ==
    /\ None \notin LockIds
    /\ Faults \in BOOLEAN

VARIABLES
    lock,      \* storage: the lock on the document, or None
    mark,      \* storage: oy.lockId of the document, or None
    pc,        \* where each request is
    op,        \* what each request does
    id,        \* the lock id a request made or, for a release, the one it read
    atStart,   \* history: the lock when the request began
    failed,    \* history: a call of the request failed for a fault
    alone,     \* history: no other request was served meanwhile
    out,       \* history: the lock ids of check-outs that were answered with 200
    released   \* history: the lock ids that were unlocked

storage == <<lock, mark>>
locals == <<pc, op, id, atStart, failed, alone>>
vars == <<storage, locals, out, released>>

Ops == {"checkOut", "cancel", "checkIn"}
PCs == {"idle", "setlock", "mark", "upload", "getlock", "unlock", "clear", "ok", "error"}

TypeOK ==
    /\ lock \in LockIds \cup {None}
    /\ mark \in LockIds \cup {None}
    /\ pc \in [Requests -> PCs]
    /\ op \in [Requests -> Ops]
    /\ id \in [Requests -> LockIds \cup {None}]
    /\ \A r \in Requests : pc[r] \in {"setlock", "mark", "unlock"} => id[r] \in LockIds
    /\ atStart \in [Requests -> LockIds \cup {None}]
    /\ failed \in [Requests -> BOOLEAN]
    /\ alone \in [Requests -> BOOLEAN]
    /\ out \subseteq LockIds
    /\ released \subseteq LockIds

Init ==
    /\ lock = None
    /\ mark = None
    /\ pc = [r \in Requests |-> "idle"]
    /\ op = [r \in Requests |-> "cancel"]
    /\ id = [r \in Requests |-> None]
    /\ atStart = [r \in Requests |-> None]
    /\ failed = [r \in Requests |-> FALSE]
    /\ alone = [r \in Requests |-> FALSE]
    /\ out = {}
    /\ released = {}

Served == {r \in Requests : pc[r] \notin {"idle", "ok", "error"}}
Goto(r, label) == pc' = [pc EXCEPT ![r] = label]
Fail(r) == failed' = [failed EXCEPT ![r] = TRUE]

\* A request begins.
Begin(r, o) ==
    /\ pc[r] = "idle"
    /\ op' = [op EXCEPT ![r] = o]
    /\ atStart' = [atStart EXCEPT ![r] = lock]
    /\ alone' = [q \in Requests |-> q = r /\ Served = {}]

\* generateLockID: an id that nothing refers to any more stands for a new one.
FreshIds == LockIds \ ({lock, mark} \cup {id[r] : r \in Requests}
                          \cup {atStart[r] : r \in Requests} \cup (out \ released))

-----------------------------------------------------------------------------
\* CheckOut: Stat, then GetLock, which finds a lock: "Document is already checked
\* out".  (A Stat that fails or finds a folder changes nothing.)
CheckOutLocked(r) ==
    /\ Begin(r, "checkOut")
    /\ lock # None
    /\ Goto(r, "error")
    /\ UNCHANGED <<storage, id, failed, out, released>>

\* ... or finds none.  A GetLock that fails counts as none.
CheckOut(r) ==
    /\ Begin(r, "checkOut")
    /\ \/ lock = None /\ UNCHANGED failed
       \/ Faults /\ Fail(r)
    /\ \E i \in FreshIds :
          /\ id' = [id EXCEPT ![r] = i]
          /\ out' = out \ {i}
          /\ released' = released \ {i}
    /\ Goto(r, "setlock")
    /\ UNCHANGED storage

\* The storage's SetLock keeps the lock it has, and its status says so.  The form
\* before the status is that of a handler that only looks at the error.
SetInStorage(i) == lock' = IF lock = None THEN i ELSE lock
AnyStatus == TRUE
StatusOK == lock = None

\* SetLock: taken, or refused because somebody else was faster, or failed.
SetLock(r) ==
    /\ pc[r] = "setlock"
    /\ StatusOK
    /\ SetInStorage(id[r])
    /\ Goto(r, "mark")
    /\ UNCHANGED <<mark, op, id, atStart, failed, alone, out, released>>

SetLockRefused(r) ==
    /\ pc[r] = "setlock"
    /\ \/ lock # None /\ UNCHANGED <<lock, failed>>
       \/ Faults /\ lock = None /\ lock' \in {None, id[r]} /\ Fail(r)
    /\ Goto(r, "error")
    /\ UNCHANGED <<mark, op, id, atStart, alone, out, released>>

\* Mark as checked out in metadata, whose result is dropped, and answer 200.  The
\* form before it skips the call.
NoMark(r) == UNCHANGED mark
SetMark(r) == mark' = id[r]

MarkCheckedOut(r) ==
    /\ pc[r] = "mark"
    /\ \/ SetMark(r) /\ UNCHANGED failed
       \/ Faults /\ mark' \in {mark, id[r]} /\ Fail(r)
    /\ out' = out \cup {id[r]}
    /\ Goto(r, "ok")
    /\ UNCHANGED <<lock, op, id, atStart, alone, released>>

-----------------------------------------------------------------------------
CancelCheckOut(r) ==
    /\ Begin(r, "cancel")
    /\ Goto(r, "getlock")
    /\ id' = [id EXCEPT ![r] = None]
    /\ UNCHANGED <<storage, failed, out, released>>

\* CheckIn without content goes straight on.
CheckIn(r) ==
    /\ Begin(r, "checkIn")
    /\ \E next \in {"upload", "getlock"} : Goto(r, next)
    /\ id' = [id EXCEPT ![r] = None]
    /\ UNCHANGED <<storage, failed, out, released>>

\* The new version is uploaded, and its comment and properties are set (neither
\* touches lock or mark) ...
Upload(r) ==
    /\ pc[r] = "upload"
    /\ Goto(r, "getlock")
    /\ UNCHANGED <<storage, op, id, atStart, failed, alone, out, released>>

\* ... or the upload fails, and the document stays checked out.
UploadFailed(r) ==
    /\ Faults
    /\ pc[r] = "upload"
    /\ Fail(r)
    /\ Goto(r, "error")
    /\ UNCHANGED <<storage, op, id, atStart, alone, out, released>>

\* unlockDocument: GetLock; no lock, or no answer, leaves the metadata to clear.
LockFound == lock # None

ReadLock(r) ==
    /\ pc[r] = "getlock"
    /\ \/ /\ LockFound
          /\ id' = [id EXCEPT ![r] = lock]
          /\ Goto(r, "unlock")
          /\ UNCHANGED failed
       \/ /\ lock = None
          /\ Goto(r, "clear")
          /\ UNCHANGED <<id, failed>>
       \/ /\ Faults
          /\ Goto(r, "clear")
          /\ Fail(r)
          /\ UNCHANGED id
    /\ UNCHANGED <<storage, op, atStart, alone, out, released>>

\* Unlock, with the lock that was read; the form before it does not make the call.
NoUnlock(r) == UNCHANGED <<lock, released>>
Release(r) == lock' = None /\ released' = released \cup {lock}

Unlock(r) ==
    /\ pc[r] = "unlock"
    /\ lock = id[r]
    /\ Release(r)
    /\ Goto(r, "clear")
    /\ UNCHANGED <<mark, op, id, atStart, failed, alone, out>>

\* Unlock is refused (the lock read is gone) or fails.  A cancel answers 500; a
\* check-in logs it and answers with the object.
UnlockRefused(r) ==
    /\ pc[r] = "unlock"
    /\ \/ lock # id[r] /\ UNCHANGED <<lock, failed, released>>
       \/ /\ Faults /\ lock = id[r] /\ Fail(r)
          /\ \/ UNCHANGED <<lock, released>>
             \/ lock' = None /\ released' = released \cup {lock}
    /\ Goto(r, IF op[r] = "checkIn" THEN "ok" ELSE "error")
    /\ UNCHANGED <<mark, op, id, atStart, alone, out>>

\* clearCheckoutMetadata, whose result is dropped; the document is checked in.
ClearMark(r) ==
    /\ pc[r] = "clear"
    /\ \/ mark' = None /\ UNCHANGED failed
       \/ Faults /\ mark' \in {mark, None} /\ Fail(r)
    /\ Goto(r, "ok")
    /\ UNCHANGED <<lock, op, id, atStart, alone, out, released>>

-----------------------------------------------------------------------------
\* The answer is sent and the request forgotten.
Forget(r) ==
    /\ pc' = [pc EXCEPT ![r] = "idle"]
    /\ id' = [id EXCEPT ![r] = None]
    /\ atStart' = [atStart EXCEPT ![r] = None]
    /\ op' = [op EXCEPT ![r] = "cancel"]
    /\ failed' = [failed EXCEPT ![r] = FALSE]
    /\ alone' = [alone EXCEPT ![r] = FALSE]
    /\ UNCHANGED <<storage, out, released>>

Answered(r) == pc[r] \in {"ok", "error"} /\ Forget(r)

\* The service dies while it serves a request, or the client goes away and takes
\* the calls still to come with it: they are not made.
Abandon(r) == Faults /\ r \in Served /\ Forget(r)

Next ==
    \E r \in Requests :
        \/ CheckOutLocked(r)
        \/ CheckOut(r)
        \/ SetLock(r)
        \/ SetLockRefused(r)
        \/ MarkCheckedOut(r)
        \/ CancelCheckOut(r)
        \/ CheckIn(r)
        \/ Upload(r)
        \/ UploadFailed(r)
        \/ ReadLock(r)
        \/ Unlock(r)
        \/ UnlockRefused(r)
        \/ ClearMark(r)
        \/ Answered(r)
        \/ Abandon(r)

Spec == Init /\ [][Next]_vars

-----------------------------------------------------------------------------
\* "Set exclusive lock": two check-outs are never both answered with 200 unless the
\* first was released in between; in other words a check-out that was granted and
\* not released is the lock on the document.
ExclusiveCheckOut == \A i \in out \ released : lock = i

\* A request that runs alone and whose calls succeed leaves lock and metadata exact,
\* whatever earlier requests, overlaps and failures left behind.
AloneIsExact ==
    \A r \in Requests :
        pc[r] = "ok" /\ alone[r] /\ ~failed[r] =>
            IF op[r] = "checkOut" THEN lock = id[r] /\ mark = id[r]
                                  ELSE lock = None /\ mark = None

\* A cancel or check-in answered with success, and none of whose calls failed, has
\* not left the lock it began with, whatever other requests did meanwhile.
ReleasedUnlessFailed ==
    \A r \in Requests :
        pc[r] = "ok" /\ op[r] # "checkOut" /\ ~failed[r] /\ atStart[r] # None => lock # atStart[r]

\* "releases the lock": the same with calls that fail.
SuccessMeansReleased ==
    \A r \in Requests :
        pc[r] = "ok" /\ op[r] # "checkOut" /\ atStart[r] # None => lock # atStart[r]
=============================================================================
