--------------------------- MODULE CheckoutProofs ---------------------------
(***************************************************************************)
(* What holds of Checkout for any number of requests and lock ids, with    *)
(* and without failing calls.                                              *)
(*                                                                         *)
(* Everything rests on the ids: one that is on its way to SetLock is that  *)
(* of nobody else, so a lock that is gone never comes back (FreshInv).     *)
(* Then a check-out between SetLock and its answer is the lock or has been *)
(* released (GrantInv), and a release that came past GetLock cannot find   *)
(* the lock it began with again (GoneInv).  A request that is alone can    *)
(* count on what it read (AloneInv).                                       *)
(***************************************************************************)
EXTENDS Checkout, TLAPS

OpInv == \A r \in Requests : pc[r] \in {"setlock", "mark"} => op[r] = "checkOut"

FreshInv ==
    \A r \in Requests : pc[r] = "setlock" =>
        /\ id[r] # lock
        /\ \A q \in Requests : id[r] # atStart[q] /\ (q # r => id[r] # id[q])

GrantInv ==
    \A r \in Requests : pc[r] = "mark" => id[r] = lock \/ id[r] \in released

GoneInv ==
    \A r \in Requests : atStart[r] # None /\ ~failed[r] =>
        /\ pc[r] = "unlock" => id[r] = atStart[r] \/ lock # atStart[r]
        /\ pc[r] = "clear" => lock # atStart[r]

AloneInv ==
    \A r \in Requests : alone[r] =>
        /\ pc[r] # "idle" => \A q \in Requests : q # r => q \notin Served
        /\ ~failed[r] =>
              /\ pc[r] = "setlock" => lock = None
              /\ pc[r] \in {"mark", "unlock"} => lock = id[r]
              /\ pc[r] = "clear" => lock = None
              /\ pc[r] \in {"unlock", "clear", "getlock", "upload"} => op[r] # "checkOut"

IInv == /\ TypeOK /\ OpInv /\ FreshInv /\ GrantInv /\ GoneInv /\ AloneInv
        /\ ExclusiveCheckOut /\ ReleasedUnlessFailed /\ AloneIsExact

LEMMA InitIInv == Init => IInv
  BY CheckoutAssumption
     DEF Init, IInv, TypeOK, Ops, PCs, OpInv, FreshInv, GrantInv, GoneInv, AloneInv,
         ExclusiveCheckOut, ReleasedUnlessFailed, AloneIsExact

\* Every action keeps the types.
LEMMA StepTypeOK == TypeOK /\ [Next]_vars => TypeOK'
  <1> SUFFICES ASSUME TypeOK, [Next]_vars PROVE TypeOK'
    OBVIOUS
  <1> USE CheckoutAssumption
      DEF TypeOK, Ops, PCs, Goto, Fail, Begin, storage, locals
  <1>1. ASSUME NEW r \in Requests, CheckOutLocked(r) PROVE TypeOK'
    BY <1>1 DEF CheckOutLocked
  <1>2. ASSUME NEW r \in Requests, CheckOut(r) PROVE TypeOK'
    <2>1. PICK i \in LockIds :
             /\ id' = [id EXCEPT ![r] = i]
             /\ out' = out \ {i}
             /\ released' = released \ {i}
      BY <1>2 DEF CheckOut, FreshIds
    <2>2. failed' \in [Requests -> BOOLEAN] /\ alone' \in [Requests -> BOOLEAN]
      BY <1>2 DEF CheckOut
    <2> QED
      BY <1>2, <2>1, <2>2 DEF CheckOut
  <1>3. ASSUME NEW r \in Requests, SetLock(r) PROVE TypeOK'
    BY <1>3 DEF SetLock, SetInStorage, StatusOK
  <1>4. ASSUME NEW r \in Requests, SetLockRefused(r) PROVE TypeOK'
    BY <1>4 DEF SetLockRefused
  <1>5. ASSUME NEW r \in Requests, MarkCheckedOut(r) PROVE TypeOK'
    BY <1>5 DEF MarkCheckedOut, SetMark
  <1>6. ASSUME NEW r \in Requests, CancelCheckOut(r) PROVE TypeOK'
    BY <1>6 DEF CancelCheckOut
  <1>7. ASSUME NEW r \in Requests, CheckIn(r) PROVE TypeOK'
    BY <1>7 DEF CheckIn
  <1>8. ASSUME NEW r \in Requests, Upload(r) \/ UploadFailed(r) PROVE TypeOK'
    BY <1>8 DEF Upload, UploadFailed
  <1>9. ASSUME NEW r \in Requests, ReadLock(r) PROVE TypeOK'
    BY <1>9 DEF ReadLock, LockFound
  <1>10. ASSUME NEW r \in Requests, Unlock(r) PROVE TypeOK'
    BY <1>10 DEF Unlock, Release
  <1>11. ASSUME NEW r \in Requests, UnlockRefused(r) PROVE TypeOK'
    <2>1. pc' = [pc EXCEPT ![r] = "ok"] \/ pc' = [pc EXCEPT ![r] = "error"]
      BY <1>11 DEF UnlockRefused
    <2>2. lock' \in {lock, None} /\ released' \in {released, released \cup {lock}} /\ lock = None => released' = released
      BY <1>11 DEF UnlockRefused
    <2> QED
      BY <1>11, <2>1, <2>2 DEF UnlockRefused
  <1>12. ASSUME NEW r \in Requests, ClearMark(r) PROVE TypeOK'
    BY <1>12 DEF ClearMark
  <1>13. ASSUME NEW r \in Requests, Answered(r) \/ Abandon(r) PROVE TypeOK'
    BY <1>13 DEF Answered, Abandon, Forget
  <1>14. CASE UNCHANGED vars
    BY <1>14 DEF vars
  <1> QED
    BY <1>1, <1>2, <1>3, <1>4, <1>5, <1>6, <1>7, <1>8, <1>9, <1>10, <1>11, <1>12, <1>13, <1>14
       DEF Next

\* One lemma per action: it keeps the invariant.
LEMMA CheckOutLockedStep ==
    ASSUME IInv, NEW r \in Requests, CheckOutLocked(r), TypeOK' PROVE IInv'
  <1> USE CheckoutAssumption DEF IInv, TypeOK, CheckOutLocked, Begin, Goto, storage
  <1>1. OpInv' /\ FreshInv'
    BY DEF OpInv, FreshInv
  <1>2. GrantInv' /\ ExclusiveCheckOut'
    BY DEF GrantInv, ExclusiveCheckOut, FreshInv
  <1>3. GoneInv' /\ ReleasedUnlessFailed'
    BY DEF GoneInv, ReleasedUnlessFailed, FreshInv, OpInv
  <1>4. AloneInv' /\ AloneIsExact'
    <2>1. \A q \in Requests : alone'[q] <=> (q = r /\ Served = {})
      OBVIOUS
    <2>2. pc'[r] = "error" /\ \A q \in Requests : q # r => pc'[q] = pc[q]
      OBVIOUS
    <2>3. AloneInv'
      BY <2>1, <2>2 DEF AloneInv, Served
    <2>4. AloneIsExact'
      BY <2>1, <2>2 DEF AloneIsExact
    <2> QED
      BY <2>3, <2>4
  <1> QED
    BY <1>1, <1>2, <1>3, <1>4

LEMMA CheckOutStep ==
    ASSUME IInv, NEW r \in Requests, CheckOut(r), TypeOK' PROVE IInv'
  <1> USE CheckoutAssumption DEF IInv, TypeOK, CheckOut, Begin, FreshIds, Goto, Fail, storage
  <1>1. OpInv' /\ FreshInv'
    BY DEF OpInv, FreshInv
  <1>2. GrantInv' /\ ExclusiveCheckOut'
    BY DEF GrantInv, ExclusiveCheckOut, FreshInv
  <1>3. GoneInv' /\ ReleasedUnlessFailed'
    BY DEF GoneInv, ReleasedUnlessFailed, FreshInv, OpInv
  <1>4. AloneInv' /\ AloneIsExact'
    BY DEF AloneInv, AloneIsExact, OpInv, Served
  <1> QED
    BY <1>1, <1>2, <1>3, <1>4

LEMMA SetLockStep ==
    ASSUME IInv, NEW r \in Requests, SetLock(r), TypeOK' PROVE IInv'
  <1> USE CheckoutAssumption DEF IInv, TypeOK, SetLock, SetInStorage, StatusOK, Goto
  <1>1. OpInv' /\ FreshInv'
    BY DEF OpInv, FreshInv
  <1>2. GrantInv' /\ ExclusiveCheckOut'
    BY DEF GrantInv, ExclusiveCheckOut, FreshInv
  <1>3. GoneInv' /\ ReleasedUnlessFailed'
    BY DEF GoneInv, ReleasedUnlessFailed, FreshInv, OpInv
  <1>4. AloneInv' /\ AloneIsExact'
    BY DEF AloneInv, AloneIsExact, OpInv, Served
  <1> QED
    BY <1>1, <1>2, <1>3, <1>4

LEMMA SetLockRefusedStep ==
    ASSUME IInv, NEW r \in Requests, SetLockRefused(r), TypeOK' PROVE IInv'
  <1> USE CheckoutAssumption DEF IInv, TypeOK, SetLockRefused, Goto, Fail
  <1>1. OpInv' /\ FreshInv'
    BY DEF OpInv, FreshInv
  <1>2. GrantInv' /\ ExclusiveCheckOut'
    BY DEF GrantInv, ExclusiveCheckOut, FreshInv
  <1>3. GoneInv' /\ ReleasedUnlessFailed'
    BY DEF GoneInv, ReleasedUnlessFailed, FreshInv, OpInv
  <1>4. AloneInv' /\ AloneIsExact'
    BY DEF AloneInv, AloneIsExact, OpInv, Served
  <1> QED
    BY <1>1, <1>2, <1>3, <1>4

LEMMA MarkCheckedOutStep ==
    ASSUME IInv, NEW r \in Requests, MarkCheckedOut(r), TypeOK' PROVE IInv'
  <1> USE CheckoutAssumption DEF IInv, TypeOK, MarkCheckedOut, SetMark, Goto, Fail
  <1>1. OpInv' /\ FreshInv'
    BY DEF OpInv, FreshInv
  <1>2. GrantInv' /\ ExclusiveCheckOut'
    BY DEF GrantInv, ExclusiveCheckOut, FreshInv
  <1>3. GoneInv' /\ ReleasedUnlessFailed'
    BY DEF GoneInv, ReleasedUnlessFailed, FreshInv, OpInv
  <1>4. AloneInv' /\ AloneIsExact'
    BY DEF AloneInv, AloneIsExact, OpInv, Served
  <1> QED
    BY <1>1, <1>2, <1>3, <1>4

LEMMA CancelCheckOutStep ==
    ASSUME IInv, NEW r \in Requests, CancelCheckOut(r), TypeOK' PROVE IInv'
  <1> USE CheckoutAssumption DEF IInv, TypeOK, CancelCheckOut, Begin, Goto, storage
  <1>1. OpInv' /\ FreshInv'
    BY DEF OpInv, FreshInv
  <1>2. GrantInv' /\ ExclusiveCheckOut'
    BY DEF GrantInv, ExclusiveCheckOut, FreshInv
  <1>3. GoneInv' /\ ReleasedUnlessFailed'
    BY DEF GoneInv, ReleasedUnlessFailed, FreshInv, OpInv
  <1>4. AloneInv' /\ AloneIsExact'
    BY DEF AloneInv, AloneIsExact, OpInv, Served
  <1> QED
    BY <1>1, <1>2, <1>3, <1>4

LEMMA CheckInStep ==
    ASSUME IInv, NEW r \in Requests, CheckIn(r), TypeOK' PROVE IInv'
  <1> USE CheckoutAssumption DEF IInv, TypeOK, CheckIn, Begin, Goto, storage
  <1>1. OpInv' /\ FreshInv'
    BY DEF OpInv, FreshInv
  <1>2. GrantInv' /\ ExclusiveCheckOut'
    BY DEF GrantInv, ExclusiveCheckOut, FreshInv
  <1>3. GoneInv' /\ ReleasedUnlessFailed'
    BY DEF GoneInv, ReleasedUnlessFailed, FreshInv, OpInv
  <1>4. AloneInv' /\ AloneIsExact'
    BY DEF AloneInv, AloneIsExact, OpInv, Served
  <1> QED
    BY <1>1, <1>2, <1>3, <1>4

LEMMA UploadStep ==
    ASSUME IInv, NEW r \in Requests, Upload(r), TypeOK' PROVE IInv'
  <1> USE CheckoutAssumption DEF IInv, TypeOK, Upload, Goto, storage
  <1>1. OpInv' /\ FreshInv'
    BY DEF OpInv, FreshInv
  <1>2. GrantInv' /\ ExclusiveCheckOut'
    BY DEF GrantInv, ExclusiveCheckOut, FreshInv
  <1>3. GoneInv' /\ ReleasedUnlessFailed'
    BY DEF GoneInv, ReleasedUnlessFailed, FreshInv, OpInv
  <1>4. AloneInv' /\ AloneIsExact'
    BY DEF AloneInv, AloneIsExact, OpInv, Served
  <1> QED
    BY <1>1, <1>2, <1>3, <1>4

LEMMA UploadFailedStep ==
    ASSUME IInv, NEW r \in Requests, UploadFailed(r), TypeOK' PROVE IInv'
  <1> USE CheckoutAssumption DEF IInv, TypeOK, UploadFailed, Goto, Fail, storage
  <1>1. OpInv' /\ FreshInv'
    BY DEF OpInv, FreshInv
  <1>2. GrantInv' /\ ExclusiveCheckOut'
    BY DEF GrantInv, ExclusiveCheckOut, FreshInv
  <1>3. GoneInv' /\ ReleasedUnlessFailed'
    BY DEF GoneInv, ReleasedUnlessFailed, FreshInv, OpInv
  <1>4. AloneInv' /\ AloneIsExact'
    BY DEF AloneInv, AloneIsExact, OpInv, Served
  <1> QED
    BY <1>1, <1>2, <1>3, <1>4

LEMMA ReadLockStep ==
    ASSUME IInv, NEW r \in Requests, ReadLock(r), TypeOK' PROVE IInv'
  <1> USE CheckoutAssumption DEF IInv, TypeOK, ReadLock, LockFound, Goto, Fail, storage
  <1>1. OpInv' /\ FreshInv'
    BY DEF OpInv, FreshInv
  <1>2. GrantInv' /\ ExclusiveCheckOut'
    BY DEF GrantInv, ExclusiveCheckOut, FreshInv
  <1>3. GoneInv' /\ ReleasedUnlessFailed'
    BY DEF GoneInv, ReleasedUnlessFailed, FreshInv, OpInv
  <1>4. AloneInv' /\ AloneIsExact'
    BY DEF AloneInv, AloneIsExact, OpInv, Served
  <1> QED
    BY <1>1, <1>2, <1>3, <1>4

LEMMA UnlockStep ==
    ASSUME IInv, NEW r \in Requests, Unlock(r), TypeOK' PROVE IInv'
  <1> USE CheckoutAssumption DEF IInv, TypeOK, Unlock, Release, Goto
  <1>1. OpInv' /\ FreshInv'
    BY DEF OpInv, FreshInv
  <1>2. GrantInv' /\ ExclusiveCheckOut'
    BY DEF GrantInv, ExclusiveCheckOut, FreshInv
  <1>3. GoneInv' /\ ReleasedUnlessFailed'
    BY DEF GoneInv, ReleasedUnlessFailed, FreshInv, OpInv
  <1>4. AloneInv' /\ AloneIsExact'
    BY DEF AloneInv, AloneIsExact, OpInv, Served
  <1> QED
    BY <1>1, <1>2, <1>3, <1>4

LEMMA UnlockRefusedStep ==
    ASSUME IInv, NEW r \in Requests, UnlockRefused(r), TypeOK' PROVE IInv'
  <1> USE CheckoutAssumption DEF IInv, TypeOK, UnlockRefused, Goto, Fail
  <1>1. OpInv' /\ FreshInv'
    BY DEF OpInv, FreshInv
  <1>2. GrantInv' /\ ExclusiveCheckOut'
    BY DEF GrantInv, ExclusiveCheckOut, FreshInv
  <1>3. GoneInv' /\ ReleasedUnlessFailed'
    BY DEF GoneInv, ReleasedUnlessFailed, FreshInv, OpInv
  <1>4. AloneInv' /\ AloneIsExact'
    BY DEF AloneInv, AloneIsExact, OpInv, Served
  <1> QED
    BY <1>1, <1>2, <1>3, <1>4

LEMMA ClearMarkStep ==
    ASSUME IInv, NEW r \in Requests, ClearMark(r), TypeOK' PROVE IInv'
  <1> USE CheckoutAssumption DEF IInv, TypeOK, ClearMark, Goto, Fail
  <1>1. OpInv' /\ FreshInv'
    BY DEF OpInv, FreshInv
  <1>2. GrantInv' /\ ExclusiveCheckOut'
    BY DEF GrantInv, ExclusiveCheckOut, FreshInv
  <1>3. GoneInv' /\ ReleasedUnlessFailed'
    BY DEF GoneInv, ReleasedUnlessFailed, FreshInv, OpInv
  <1>4. AloneInv' /\ AloneIsExact'
    BY DEF AloneInv, AloneIsExact, OpInv, Served
  <1> QED
    BY <1>1, <1>2, <1>3, <1>4

LEMMA ForgetStep ==
    ASSUME IInv, NEW r \in Requests, Forget(r), TypeOK' PROVE IInv'
  <1> USE CheckoutAssumption DEF IInv, TypeOK, Forget, storage
  <1>1. OpInv' /\ FreshInv'
    BY DEF OpInv, FreshInv
  <1>2. GrantInv' /\ ExclusiveCheckOut'
    BY DEF GrantInv, ExclusiveCheckOut, FreshInv
  <1>3. GoneInv' /\ ReleasedUnlessFailed'
    BY DEF GoneInv, ReleasedUnlessFailed, FreshInv, OpInv
  <1>4. AloneInv' /\ AloneIsExact'
    BY DEF AloneInv, AloneIsExact, OpInv, Served
  <1> QED
    BY <1>1, <1>2, <1>3, <1>4

LEMMA StepIInv == IInv /\ [Next]_vars => IInv'
  <1> SUFFICES ASSUME IInv, [Next]_vars PROVE IInv'
    OBVIOUS
  <1>1. TypeOK'
    BY StepTypeOK DEF IInv
  <1>2. CASE UNCHANGED vars
    BY <1>1, <1>2
       DEF vars, storage, locals, IInv, OpInv, FreshInv, GrantInv, GoneInv, AloneInv, Served,
           ExclusiveCheckOut, ReleasedUnlessFailed, AloneIsExact
  <1>3. CASE Next
    BY <1>1, <1>3, CheckOutLockedStep, CheckOutStep, SetLockStep, SetLockRefusedStep,
       MarkCheckedOutStep, CancelCheckOutStep, CheckInStep, UploadStep, UploadFailedStep,
       ReadLockStep, UnlockStep, UnlockRefusedStep, ClearMarkStep, ForgetStep
       DEF Next, Answered, Abandon
  <1> QED
    BY <1>2, <1>3

THEOREM Invariance == Spec => []IInv
  BY InitIInv, StepIInv, PTL DEF Spec

\* A granted check-out that was not released is the lock on the document.
THEOREM Exclusive == Spec => []ExclusiveCheckOut
  <1>1. IInv => ExclusiveCheckOut
    BY DEF IInv
  <1> QED
    BY <1>1, Invariance, PTL

\* A release whose calls succeed leaves the lock it began with behind for good.
THEOREM ReleasesHold == Spec => []ReleasedUnlessFailed
  <1>1. IInv => ReleasedUnlessFailed
    BY DEF IInv
  <1> QED
    BY <1>1, Invariance, PTL

\* A request that is alone and whose calls succeed leaves lock and metadata exact,
\* whatever was left behind before.
THEOREM AloneExact == Spec => []AloneIsExact
  <1>1. IInv => AloneIsExact
    BY DEF IInv
  <1> QED
    BY <1>1, Invariance, PTL

\* The state of the check-outs is well typed.
THEOREM Typing == Spec => []TypeOK
  <1>1. IInv => TypeOK
    BY DEF IInv
  <1> QED
    BY Invariance, <1>1, PTL
=============================================================================
