-------------------------- MODULE CS3ClientProofs ---------------------------
(***************************************************************************)
(* What holds of CS3Client for any number of callers and connections.      *)
(*                                                                         *)
(* OneOpen alone is not inductive: that the connection dialed is the only  *)
(* open one needs every connection to be closed while somebody dials,      *)
(* which needs the lock and the program counters to agree.  A retry is     *)
(* elsewhere because the new connection is none that anybody refers to,    *)
(* and the caller still refers to the one it failed on.                    *)
(***************************************************************************)
EXTENDS CS3Client, TLAPS

\* The goroutine that dials holds the lock, and nobody else does.
LockInv ==
    /\ mu # NoOne => pc[mu] = "dial"
    /\ \A p \in Procs : pc[p] = "dial" => mu = p

\* While somebody dials, everything is closed.
DialInv == mu # NoOne => \A c \in Conns : state[c] = "shut"

\* Between its reconnect and its retry a caller's broken connection is not the
\* current one, whoever reconnects in between.
BrokenInv ==
    \A p \in Callers : pc[p] = "again" => failedOn[p] # conn

IInv == /\ TypeOK /\ LockInv /\ DialInv /\ BrokenInv
        /\ OneOpen /\ StubIsCurrent /\ RetryIsElsewhere

LEMMA InitIInv == Init => IInv
  <1> SUFFICES ASSUME Init PROVE IInv
    OBVIOUS
  <1> USE CS3Assumption DEF Init, Procs, CallerPCs, WatcherPCs
  <1>1. /\ pc \in [Procs -> CallerPCs \cup WatcherPCs]
        /\ held \in [Procs -> Conns \cup {NoConn}]
        /\ failedOn \in [Callers -> Conns \cup {NoConn}]
        /\ state \in [Conns -> {"up", "down", "shut"}]
    OBVIOUS
  <1>2. TypeOK
    BY <1>1 DEF TypeOK
  <1>3. LockInv /\ DialInv /\ BrokenInv /\ OneOpen /\ StubIsCurrent /\ RetryIsElsewhere
    BY DEF LockInv, DialInv, BrokenInv, OneOpen, StubIsCurrent, RetryIsElsewhere
  <1> QED
    BY <1>2, <1>3 DEF IInv

\* Every action keeps the types.
LEMMA StepTypeOK == TypeOK /\ [Next]_vars => TypeOK'
  <1> SUFFICES ASSUME TypeOK, [Next]_vars PROVE TypeOK'
    OBVIOUS
  <1> USE CS3Assumption
      DEF TypeOK, Procs, CallerPCs, WatcherPCs, Goto, client, locals
  <1>1. ASSUME NEW p \in Callers, CallStart(p) PROVE TypeOK'
    BY <1>1 DEF CallStart
  <1>2. ASSUME NEW p \in Callers, CallEnd(p) PROVE TypeOK'
    BY <1>2 DEF CallEnd
  <1>3. ASSUME NEW p \in Callers, CallBroken(p) PROVE TypeOK'
    BY <1>3 DEF CallBroken
  <1>4. ASSUME NEW p \in Callers, Retry(p) PROVE TypeOK'
    BY <1>4 DEF Retry, FreshStub
  <1>5. ASSUME NEW p \in Procs, ReconnectLock(p) PROVE TypeOK'
    BY <1>5 DEF ReconnectLock, LockAndClose
  <1>6. ASSUME NEW p \in Procs, ReconnectDial(p) PROVE TypeOK'
    <2>1. conn' \in Conns /\ stub' \in Conns /\ state' \in [Conns -> {"up", "down", "shut"}]
      BY <1>6 DEF ReconnectDial, Install
    <2>2. /\ pc' \in [Procs -> CallerPCs \cup WatcherPCs]
          /\ pc'[Watcher] \in WatcherPCs
          /\ \A q \in Callers : pc'[q] \in CallerPCs
      BY <1>6 DEF ReconnectDial, AfterDial
    <2>3. /\ held' \in [Procs -> Conns \cup {NoConn}]
          /\ pc'[Watcher] \in {"observe", "wait", "test"} => held'[Watcher] \in Conns
      BY <1>6 DEF ReconnectDial, AfterDial
    <2> QED
      BY <2>1, <2>2, <2>3, <1>6 DEF ReconnectDial, Unlock
  <1>7. CASE WatchRead \/ WatchObserve \/ WatchWake \/ WatchTest
    <2>1. CASE WatchRead
      BY <2>1 DEF WatchRead
    <2>2. CASE WatchObserve
      BY <2>2 DEF WatchObserve
    <2>3. CASE WatchWake
      BY <2>3 DEF WatchWake
    <2>4. CASE WatchTest
      BY <2>4 DEF WatchTest
    <2> QED
      BY <2>1, <2>2, <2>3, <2>4, <1>7
  <1>8. CASE Close
    <2>1. state' \in [Conns -> {"up", "down", "shut"}] /\ closed' \in BOOLEAN
      BY <1>8 DEF Close
    <2> QED
      BY <2>1, <1>8 DEF Close
  <1>9. ASSUME NEW c \in Conns, Break(c) \/ Recover(c) PROVE TypeOK'
    BY <1>9 DEF Break, Recover
  <1>10. CASE UNCHANGED vars
    BY <1>10 DEF vars
  <1> QED
    BY <1>1, <1>2, <1>3, <1>4, <1>5, <1>6, <1>7, <1>8, <1>9, <1>10 DEF Next

\* Every action keeps the invariant.
LEMMA StepIInv == IInv /\ [Next]_vars => IInv'
  <1> SUFFICES ASSUME IInv, [Next]_vars PROVE IInv'
    OBVIOUS
  <1>0. TypeOK /\ TypeOK'
    BY StepTypeOK DEF IInv
  <1> DEFINE Rest == /\ LockInv /\ DialInv /\ BrokenInv
                     /\ OneOpen /\ StubIsCurrent /\ RetryIsElsewhere
  <1> SUFFICES Rest'
    BY <1>0 DEF IInv
  <1> USE <1>0, CS3Assumption
      DEF IInv, TypeOK, LockInv, DialInv, BrokenInv, OneOpen, StubIsCurrent,
          RetryIsElsewhere, Procs, CallerPCs, WatcherPCs, Goto, client, locals
  <1>1. ASSUME NEW p \in Callers, CallStart(p) PROVE Rest'
    BY <1>1 DEF CallStart
  <1>2. ASSUME NEW p \in Callers, CallEnd(p) PROVE Rest'
    BY <1>2 DEF CallEnd
  <1>3. ASSUME NEW p \in Callers, CallBroken(p) PROVE Rest'
    BY <1>3 DEF CallBroken
  <1>4. ASSUME NEW p \in Callers, Retry(p) PROVE Rest'
    BY <1>4 DEF Retry, FreshStub
  <1>5. ASSUME NEW p \in Procs, ReconnectLock(p) PROVE Rest'
    BY <1>5 DEF ReconnectLock, LockAndClose
  <1>6. ASSUME NEW p \in Procs, ReconnectDial(p) PROVE Rest'
    BY <1>6 DEF ReconnectDial, Install, Unlock, AfterDial, Referenced
  <1>7. CASE WatchRead \/ WatchObserve \/ WatchWake \/ WatchTest
    BY <1>7 DEF WatchRead, WatchObserve, WatchWake, WatchTest
  <1>8. CASE Close
    BY <1>8 DEF Close
  <1>9. ASSUME NEW c \in Conns, Break(c) \/ Recover(c) PROVE Rest'
    BY <1>9 DEF Break, Recover
  <1>10. CASE UNCHANGED vars
    BY <1>10 DEF vars
  <1> QED
    BY <1>1, <1>2, <1>3, <1>4, <1>5, <1>6, <1>7, <1>8, <1>9, <1>10 DEF Next

THEOREM Invariance == Spec => []IInv
  BY InitIInv, StepIInv, PTL DEF Spec

\* However many goroutines reconnect over each other, no connection is leaked
\* and the current one is open as soon as the lock is free.
THEOREM NoConnectionLeaks == Spec => []OneOpen
  <1>1. IInv => OneOpen
    BY DEF IInv
  <1> QED
    BY <1>1, Invariance, PTL

\* A caller's stub is always made from the current connection.
THEOREM StubsAreCurrent == Spec => []StubIsCurrent
  <1>1. IInv => StubIsCurrent
    BY DEF IInv
  <1> QED
    BY <1>1, Invariance, PTL

\* A retry never goes over the connection that broke the first attempt.
THEOREM RetriesGoElsewhere == Spec => []RetryIsElsewhere
  <1>1. IInv => RetryIsElsewhere
    BY DEF IInv
  <1> QED
    BY <1>1, Invariance, PTL

\* The state of the gateway client is well typed.
THEOREM Typing == Spec => []TypeOK
  <1>1. IInv => TypeOK
    BY DEF IInv
  <1> QED
    BY Invariance, <1>1, PTL
=============================================================================
