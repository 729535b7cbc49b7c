----------------------------- MODULE Migration ------------------------------
(***************************************************************************)
(* The migration map and its file                                          *)
(* (openyard-service/pkg/migration/migration.go, reached from the handlers *)
(* MapMigrationID, PersistMigration and ImportDocumentDynamic).            *)
(*                                                                         *)
(* Every request is a goroutine of Threads.  MapID updates the map in one  *)
(* lock section and, when the counter has reached the limit, calls Persist *)
(* AFTER the unlock; Persist takes the lock again, snapshots the map and   *)
(* writes the file in place, still under the lock.  The process may die    *)
(* between any two steps: nothing is saved on the way down, a graceful     *)
(* shutdown included (pkg/command/root.go never calls Persist).            *)
(***************************************************************************)
EXTENDS LegacyKeys, Naturals, FiniteSets

CONSTANTS Threads,    \* the goroutines that serve requests
          NoThread,   \* the lock is free
          PersistAt,  \* new mappings before MapID saves (100 in the code)
          MaxCount,   \* bound on dirtyCount
          FirstMaps   \* the maps the file may hold when it is deployed

ASSUME MigrationAssumption ==
    /\ IsFiniteSet(Threads)
    /\ NoThread \notin Threads
    /\ PersistAt \in Nat \ {0}
    /\ MaxCount \in Nat
    /\ FirstMaps \subseteq Maps

VARIABLES
    up,          \* the process runs
    idMap,       \* the map in memory
    dirty,       \* it has unsaved changes
    dirtyCount,  \* how many were made since the last save
    mu,          \* who holds the lock for writing across steps, or NoThread
    pc,          \* what each goroutine is about to do
    data,        \* the snapshot the lock holder writes
    fileState,   \* "none", "torn" (truncated or half written) or "whole"
    fileMap,     \* the map a whole file holds
    saved,       \* history: what a restart loads, writes in progress ignored
    failed,      \* history: a write failed since the last save
    blind        \* history: the file could not be read at start, no save since

memory == <<up, idMap, dirty, dirtyCount>>
file == <<fileState, fileMap>>
history == <<saved, failed, blind>>
vars == <<memory, mu, pc, data, file, history>>

\* What Init makes of the file: unreadable JSON counts as an empty map.
Loaded == IF fileState = "whole" THEN fileMap ELSE EmptyMap

TypeOK ==
    /\ up \in BOOLEAN
    /\ idMap \in Maps
    /\ dirty \in BOOLEAN
    /\ dirtyCount \in 0..MaxCount
    /\ mu \in Threads \cup {NoThread}
    /\ pc \in [Threads -> {"idle", "persist", "open", "write"}]
    /\ data \in Maps
    /\ fileState \in {"none", "torn", "whole"}
    /\ fileMap \in Maps
    /\ saved \in Maps
    /\ failed \in BOOLEAN
    /\ blind \in BOOLEAN

Init ==
    /\ up = TRUE
    /\ \/ fileState = "none" /\ fileMap = EmptyMap
       \/ fileState = "whole" /\ fileMap \in FirstMaps
    /\ idMap = Loaded
    /\ saved = Loaded
    /\ dirty = FALSE
    /\ dirtyCount = 0
    /\ mu = NoThread
    /\ pc = [t \in Threads |-> "idle"]
    /\ data = EmptyMap
    /\ failed = FALSE
    /\ blind = FALSE

-----------------------------------------------------------------------------
\* A form a slip could have given one of these operators stands right before it;
\* PROJECT.json names the property that form violates.

\* The key MapID writes under.
Normalized(k) == ToLower(k)

CountPutLate == dirty' = (dirtyCount + 1 >= PersistAt) /\ dirtyCount' = dirtyCount + 1
CountPut == dirty' = TRUE /\ dirtyCount' = dirtyCount + 1

NeedsPersistLate(n) == n > PersistAt
NeedsPersist(n) == n >= PersistAt

ResetCounters == dirty' = FALSE /\ dirtyCount' = 0

\* Persist locks before it marshals and unlocks when it returns.
TakeLockForMarshalOnly(t) == mu' = mu
TakeLock(t) == mu' = t

\* MapID: one lock section; whether to save is decided inside it, done later.
MapID(t, k, v) ==
    /\ up
    /\ pc[t] = "idle"
    /\ mu = NoThread
    /\ dirtyCount < MaxCount
    /\ idMap' = [idMap EXCEPT ![Normalized(k)] = v]
    /\ CountPut
    /\ pc' = [pc EXCEPT ![t] = IF NeedsPersist(dirtyCount') THEN "persist" ELSE "idle"]
    /\ UNCHANGED <<up, mu, data, file, history>>

\* The PersistMigration handler calls Persist.
PersistMigration(t) ==
    /\ up
    /\ pc[t] = "idle"
    /\ pc' = [pc EXCEPT ![t] = "persist"]
    /\ UNCHANGED <<memory, mu, data, file, history>>

\* Persist finds nothing to save.
PersistClean(t) ==
    /\ pc[t] = "persist"
    /\ mu = NoThread
    /\ ~dirty
    /\ pc' = [pc EXCEPT ![t] = "idle"]
    /\ UNCHANGED <<memory, mu, data, file, history>>

\* Persist takes the lock and marshals the map.
PersistBegin(t) ==
    /\ pc[t] = "persist"
    /\ mu = NoThread
    /\ dirty
    /\ TakeLock(t)
    /\ data' = idMap
    /\ pc' = [pc EXCEPT ![t] = "open"]
    /\ UNCHANGED <<memory, file, history>>

\* os.WriteFile opens the file with O_TRUNC.
WriteOpen(t) ==
    /\ pc[t] = "open"
    /\ fileState' = "torn"
    /\ fileMap' = EmptyMap
    /\ pc' = [pc EXCEPT ![t] = "write"]
    /\ UNCHANGED <<memory, mu, data, history>>

\* os.WriteFile fails, before or after it truncated the file: Persist returns
\* the error with the lock released, and dirty and dirtyCount as they were.
WriteFail(t) ==
    /\ pc[t] \in {"open", "write"}
    /\ mu' = NoThread
    /\ data' = EmptyMap
    /\ pc' = [pc EXCEPT ![t] = "idle"]
    /\ saved' = Loaded
    /\ failed' = TRUE
    /\ UNCHANGED <<memory, file, blind>>

\* The snapshot is in the file; the counters are reset and the lock released.
WriteDone(t) ==
    /\ pc[t] = "write"
    /\ fileState' = "whole"
    /\ fileMap' = data
    /\ ResetCounters
    /\ mu' = NoThread
    /\ data' = EmptyMap
    /\ pc' = [pc EXCEPT ![t] = "idle"]
    /\ saved' = data
    /\ failed' = FALSE
    /\ blind' = FALSE
    /\ UNCHANGED <<up, idMap>>

\* The process dies, or is shut down: what is in memory is gone.
Crash ==
    /\ up
    /\ up' = FALSE
    /\ idMap' = EmptyMap
    /\ dirty' = FALSE
    /\ dirtyCount' = 0
    /\ mu' = NoThread
    /\ pc' = [t \in Threads |-> "idle"]
    /\ data' = EmptyMap
    /\ saved' = Loaded
    /\ failed' = FALSE
    /\ blind' = FALSE
    /\ UNCHANGED file

\* Init at process start: a missing or unparsable file gives an empty map.
Start ==
    /\ ~up
    /\ up' = TRUE
    /\ idMap' = Loaded
    /\ UNCHANGED <<dirty, dirtyCount, mu, pc, data, file, history>>

\* Init when reading an existing file fails: logged, and the map is empty.
StartBlind ==
    /\ ~up
    /\ fileState # "none"
    /\ up' = TRUE
    /\ idMap' = EmptyMap
    /\ blind' = TRUE
    /\ UNCHANGED <<dirty, dirtyCount, mu, pc, data, file, saved, failed>>

Next ==
    \/ \E t \in Threads :
          \/ \E k \in Keys, v \in OyIds : MapID(t, k, v)
          \/ PersistMigration(t)
          \/ PersistClean(t)
          \/ PersistBegin(t)
          \/ WriteOpen(t)
          \/ WriteFail(t)
          \/ WriteDone(t)
    \/ Crash
    \/ Start
    \/ StartBlind

Spec == Init /\ [][Next]_vars

\* sync.RWMutex hands the lock to a waiting writer, so a goroutine that asks
\* for it again and again is strongly fair; a file write returns.
FairSpec ==
    /\ Spec
    /\ \A t \in Threads :
          /\ SF_vars(PersistClean(t) \/ PersistBegin(t))
          /\ WF_vars(WriteOpen(t))
          /\ WF_vars(WriteDone(t) \/ WriteFail(t))

-----------------------------------------------------------------------------
\* The holder of the lock is the one goroutine inside Persist's write, and
\* what it writes is the map as it still stands: no mapping is put between the
\* snapshot and the reset of the counters.
SnapshotIsCurrent ==
    \A t \in Threads : pc[t] \in {"open", "write"} => mu = t /\ data = idMap

\* When IsDirty answers false, a restart would bring back the map in memory:
\* no acknowledged mapping is waiting for a save nobody will ask for.  The one
\* exception is a process that could not read its file at start.
CleanMeansSaved ==
    up /\ ~dirty /\ ~blind => Loaded = idMap

\* While no write fails, fewer than PersistAt mappings are unsaved except for
\* one per goroutine that is on its way to save them: the loss a crash can
\* cause is bounded by the batch size plus the number of concurrent requests.
LossBound ==
    \/ failed
    \/ dirtyCount < PersistAt
          + Cardinality({t \in Threads : pc[t] # "idle"})

\* A lookup does not depend on whether the GUID is written in upper or in lower
\* case ("Case-insensitive: GUIDs may be upper or lowercase").
CaseInsensitiveLookup ==
    \A k \in Keys :
        LookupOpenYardID(idMap, ToLower(k)) = LookupOpenYardID(idMap, ToUpper(k))

\* A mapping is found, from its own request on, under the very id it was put
\* under ("the old legacy DMS ID is mapped to the new OpenYard ID so that
\* subsequent lookups with the old ID still work"), and that id no longer counts
\* as missing, whatever case it is written in and whatever the file held before.
PutIsFound ==
    [][\A t \in Threads, k \in Keys, v \in OyIds :
          MapID(t, k, v) => /\ LookupOpenYardID(idMap', k) = v
                            /\ FilterMissing(idMap', {k}) = {}]_vars

\* A crash loses nothing that an earlier Persist had on disk ("Persist writes
\* the current map to disk (atomic via temp file)").
CrashKeepsSaved == [][Crash => Loaded' = saved]_vars

\* Once the counter is at the limit a save follows, unless a write fails or
\* the process dies first.
LimitLeadsToSave ==
    (up /\ dirtyCount >= PersistAt) ~> (~up \/ failed \/ dirtyCount = 0)

\* The map a dead process stands for is the one its successor loads, and the
\* durable map during a write is the one before it.
AbstractMem == IF up THEN idMap ELSE Loaded
AbstractDurable == IF mu = NoThread THEN Loaded ELSE saved

Durable == INSTANCE DurableMap WITH
    Key <- Keys, Value <- OyIds, Empty <- EmptyMap,
    mem <- AbstractMem, durable <- AbstractDurable

\* Written in place, under concurrent MapIDs, with failing writes and crashes,
\* the file still only ever holds the whole map of one instant, or nothing.
SavesAreWhole == Durable!Spec
=============================================================================
