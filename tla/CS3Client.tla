----------------------------- MODULE CS3Client ------------------------------
(***************************************************************************)
(* The gateway client and its reconnects                                   *)
(* (openyard-service/pkg/cs3client/client.go) with the callers that retry  *)
(* (GetFile, SetFile, RevaUploader.Upload) and the watcher goroutine.      *)
(*                                                                         *)
(* One RWMutex guards the connection and the stub made from it.  reconnect *)
(* closes whatever connection is current, then dials, all under the write  *)
(* lock; a caller takes the stub under the read lock and uses it after.    *)
(*                                                                         *)
(* A connection is a member of Conns.  One that is closed and that nobody  *)
(* refers to any more may stand for a new one, so that a finite set serves *)
(* an endless run.                                                         *)
(***************************************************************************)
CONSTANTS Callers,  \* the goroutines that call the gateway
          Watcher,  \* the goroutine of watchConnection
          NoOne,    \* the lock is free
          Conns,    \* the connection objects
          NoConn    \* a local that holds no connection

ASSUME CS3Assumption ==
    /\ Watcher \notin Callers
    /\ NoOne \notin Callers \cup {Watcher}
    /\ NoConn \notin Conns

Procs == Callers \cup {Watcher}

VARIABLES
    conn,      \* the current connection
    stub,      \* the connection the current Gateway stub is made from
    state,     \* "up", "down" (TransientFailure) or "shut", per connection
    mu,        \* the goroutine inside reconnect, or NoOne
    closed,    \* Close has been called
    pc,        \* where each goroutine is
    held,      \* the connection each goroutine works on
    seen,      \* the watcher's local: the state it waits to see change
    failedOn   \* the connection on which a caller's first attempt broke

client == <<conn, stub, mu, closed>>
locals == <<pc, held, seen, failedOn>>
vars == <<client, state, locals>>

CallerPCs == {"idle", "call", "lock", "dial", "again", "retry"}
WatcherPCs == {"read", "observe", "wait", "test", "lock", "dial"}

TypeOK ==
    /\ conn \in Conns
    /\ stub \in Conns
    /\ state \in [Conns -> {"up", "down", "shut"}]
    /\ mu \in Procs \cup {NoOne}
    /\ closed \in BOOLEAN
    /\ pc \in [Procs -> CallerPCs \cup WatcherPCs]
    /\ pc[Watcher] \in WatcherPCs
    /\ \A p \in Callers : pc[p] \in CallerPCs
    /\ held \in [Procs -> Conns \cup {NoConn}]
    /\ pc[Watcher] \in {"observe", "wait", "test"} => held[Watcher] \in Conns
    /\ seen \in {"up", "down", "shut"}
    /\ failedOn \in [Callers -> Conns \cup {NoConn}]

\* New: the first dial, and the watcher started on it.
Init ==
    /\ conn \in Conns
    /\ stub = conn
    /\ state = [c \in Conns |-> IF c = conn THEN "up" ELSE "shut"]
    /\ mu = NoOne
    /\ closed = FALSE
    /\ pc = [p \in Procs |-> IF p = Watcher THEN "read" ELSE "idle"]
    /\ held = [p \in Procs |-> NoConn]
    /\ seen = "up"
    /\ failedOn = [p \in Callers |-> NoConn]

Goto(p, label) == pc' = [pc EXCEPT ![p] = label]

-----------------------------------------------------------------------------
\* reconnect takes the write lock and closes the current connection.  The form
\* before it closes nothing, the slip of dropping the Close call.
LockAndForget(p) == mu' = p /\ UNCHANGED state
LockAndClose(p) == mu' = p /\ state' = [state EXCEPT ![conn] = "shut"]

ReconnectLock(p) ==
    /\ pc[p] = "lock"
    /\ mu = NoOne
    /\ LockAndClose(p)
    /\ Goto(p, "dial")
    /\ UNCHANGED <<conn, stub, closed, held, seen, failedOn>>

Referenced == {conn, stub} \cup {held[p] : p \in Procs} \cup {failedOn[p] : p \in Callers}

\* Three parts of reconnect's way out: the stub replaced with the connection, the
\* deferred Unlock after a form that gets it wrong, and the return to the code
\* that called it.
Install(c) == conn' = c /\ stub' = c

KeepLock == UNCHANGED mu
Unlock == mu' = NoOne

AfterDial(p) == IF p = Watcher THEN "read" ELSE "again"

\* dial succeeds: connection and stub are replaced and the lock is released.
\* A failed dial sleeps and tries again, the lock held: no step.
ReconnectDial(p) ==
    /\ pc[p] = "dial"
    /\ \E c \in Conns \ Referenced :
          /\ Install(c)
          /\ state' = [state EXCEPT ![c] = "up"]
    /\ Unlock
    /\ held' = [held EXCEPT ![p] = NoConn]
    /\ Goto(p, AfterDial(p))
    /\ UNCHANGED <<closed, seen, failedOn>>

-----------------------------------------------------------------------------
\* A handler takes the stub (GetGateway) and sends its call over it.
CallStart(p) ==
    /\ pc[p] = "idle"
    /\ mu = NoOne
    /\ held' = [held EXCEPT ![p] = stub]
    /\ Goto(p, "call")
    /\ UNCHANGED <<client, state, seen, failedOn>>

\* The request is over: the call was answered, or it failed in a way the handler
\* reports.  There is no third attempt, and some handlers do not even retry.
CallEnd(p) ==
    /\ pc[p] \in {"call", "retry"}
    /\ held' = [held EXCEPT ![p] = NoConn]
    /\ failedOn' = [failedOn EXCEPT ![p] = NoConn]
    /\ Goto(p, "idle")
    /\ UNCHANGED <<client, state, seen>>

\* A first attempt comes back with "connection is closing" (it is shut) or with
\* "transport is closing" (a lost transport breaks the calls on it before the
\* channel's state tells): CheckError reconnects, whatever is current by now.
CallBroken(p) ==
    /\ pc[p] = "call"
    /\ failedOn' = [failedOn EXCEPT ![p] = held[p]]
    /\ held' = [held EXCEPT ![p] = NoConn]
    /\ Goto(p, "lock")
    /\ UNCHANGED <<client, state, seen>>

\* After the reconnect the caller takes the stub again and retries, once.  The
\* form before it retries over the stub of the first attempt.
OldStub(p) == failedOn[p]
FreshStub(p) == stub

Retry(p) ==
    /\ pc[p] = "again"
    /\ mu = NoOne
    /\ held' = [held EXCEPT ![p] = FreshStub(p)]
    /\ Goto(p, "retry")
    /\ UNCHANGED <<client, state, seen, failedOn>>

-----------------------------------------------------------------------------
\* watchConnection: the current connection, under the read lock.
WatchRead ==
    /\ pc[Watcher] = "read"
    /\ mu = NoOne
    /\ held' = [held EXCEPT ![Watcher] = conn]
    /\ Goto(Watcher, "observe")
    /\ UNCHANGED <<client, state, seen, failedOn>>

\* The state it starts from, read without the lock.
WatchObserve ==
    /\ pc[Watcher] = "observe"
    /\ seen' = state[held[Watcher]]
    /\ Goto(Watcher, "wait")
    /\ UNCHANGED <<client, state, held, failedOn>>

\* WaitForStateChange returns when that connection has left that state; a
\* connection that is shut never does.
WatchWake ==
    /\ pc[Watcher] = "wait"
    /\ state[held[Watcher]] # seen
    /\ Goto(Watcher, "test")
    /\ UNCHANGED <<client, state, held, seen, failedOn>>

\* The new state decides; a reconnect closes whatever is current, not held.
WatchTest ==
    /\ pc[Watcher] = "test"
    /\ Goto(Watcher, IF state[held[Watcher]] \in {"down", "shut"} THEN "lock" ELSE "read")
    /\ held' = [held EXCEPT ![Watcher] = NoConn]
    /\ UNCHANGED <<client, state, seen, failedOn>>

-----------------------------------------------------------------------------
\* Close, on the way out of runServer.
Close ==
    /\ mu = NoOne
    /\ ~closed
    /\ closed' = TRUE
    /\ state' = [state EXCEPT ![conn] = "shut"]
    /\ UNCHANGED <<conn, stub, mu, locals>>

\* The gateway goes away, and comes back: gRPC follows by itself.
Break(c) ==
    /\ state[c] = "up"
    /\ state' = [state EXCEPT ![c] = "down"]
    /\ UNCHANGED <<client, locals>>

Recover(c) ==
    /\ state[c] = "down"
    /\ state' = [state EXCEPT ![c] = "up"]
    /\ UNCHANGED <<client, locals>>

CallStep(p) == CallEnd(p) \/ CallBroken(p) \/ Retry(p)
WatchStep == WatchRead \/ WatchObserve \/ WatchWake \/ WatchTest

Next ==
    \/ \E p \in Callers :
          \/ CallStart(p)
          \/ CallEnd(p)
          \/ CallBroken(p)
          \/ Retry(p)
    \/ \E p \in Procs : ReconnectLock(p) \/ ReconnectDial(p)
    \/ WatchRead
    \/ WatchObserve
    \/ WatchWake
    \/ WatchTest
    \/ Close
    \/ \E c \in Conns : Break(c) \/ Recover(c)

Spec == Init /\ [][Next]_vars

\* Every goroutine runs; the RWMutex starves neither side; gRPC answers every
\* call; a dial to a well-formed address succeeds.
FairSpec ==
    /\ Spec
    /\ \A p \in Callers : SF_vars(CallStep(p))
    /\ \A p \in Procs : SF_vars(ReconnectLock(p)) /\ WF_vars(ReconnectDial(p))
    /\ SF_vars(WatchStep)

-----------------------------------------------------------------------------
\* A connection is open only while it is the current one: every reconnect closes
\* what it replaces, however many goroutines reconnect over each other, and
\* none is ever leaked.  While nobody is inside reconnect and the client is not
\* closed, the current one is open.
OneOpen ==
    /\ \A c \in Conns : state[c] # "shut" => c = conn
    /\ mu = NoOne /\ ~closed => state[conn] # "shut"

\* The stub a caller can take belongs to the current connection.
StubIsCurrent == stub = conn

\* A retry never goes over the connection its first attempt broke on.
RetryIsElsewhere ==
    \A p \in Callers : pc[p] = "retry" => held[p] # failedOn[p]

\* Every call ends, the reconnects of its own and of others included.
CallsEnd == \A p \in Callers : pc[p] # "idle" ~> pc[p] = "idle"

\* "watchConnection monitors the gRPC connection state": it comes to the current
\* connection again after every reconnect, as long as the client is not closed.
WatcherFollows ==
    (pc[Watcher] = "wait" /\ held[Watcher] # conn) ~> (held[Watcher] = conn \/ closed)
=============================================================================
