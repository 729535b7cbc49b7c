-------------------------- MODULE MigrationProofs ---------------------------
(***************************************************************************)
(* What holds of Migration for any number of goroutines, any GUIDs, any    *)
(* batch size and any deployed file.                                       *)
(*                                                                         *)
(* CleanMeansSaved is not inductive: that the file equals the map when the *)
(* write ends needs the snapshot to be current, which needs the writer to  *)
(* be alone, which needs the lock and the program counters to agree.       *)
(***************************************************************************)
EXTENDS Migration, FiniteSetTheorems, TLAPS

\* The lock is held exactly by the goroutine inside the write, which only runs
\* with something to save, in a live process.
LockInv ==
    /\ mu # NoThread => pc[mu] \in {"open", "write"} /\ dirty /\ up
    /\ ~up => (\A t \in Threads : pc[t] = "idle") /\ ~dirty

\* The flag and the counter change together.
DirtyInv == dirty <=> dirtyCount > 0

\* Outside the time the file is truncated, a restart loads what was saved.
SavedInv ==
    /\ mu = NoThread => saved = Loaded
    /\ mu # NoThread /\ pc[mu] = "open" => saved = Loaded
    /\ mu # NoThread /\ pc[mu] = "write" => fileState = "torn"

IInv == TypeOK /\ LockInv /\ DirtyInv /\ SavedInv /\ SnapshotIsCurrent /\ CleanMeansSaved

-----------------------------------------------------------------------------
\* The map is well typed, whichever file the process starts from.
LEMMA InitIInv == Init => IInv
  <1> SUFFICES ASSUME Init PROVE IInv
    OBVIOUS
  <1> USE MigrationAssumption DEF Init, Loaded
  <1>0. EmptyMap \in Maps /\ fileMap \in Maps
    BY DEF EmptyMap, Maps
  <1>1. TypeOK
    <2>1. Loaded \in Maps
      BY <1>0
    <2>2. idMap \in Maps /\ saved \in Maps
      BY <2>1
    <2>3. pc \in [Threads -> {"idle", "persist", "open", "write"}]
      OBVIOUS
    <2>4. mu \in Threads \cup {NoThread} /\ dirtyCount \in 0..MaxCount
      OBVIOUS
    <2> QED
      BY <1>0, <2>2, <2>3, <2>4 DEF TypeOK
  <1>2. LockInv /\ DirtyInv /\ SavedInv /\ SnapshotIsCurrent /\ CleanMeansSaved
    BY DEF LockInv, DirtyInv, SavedInv, SnapshotIsCurrent, CleanMeansSaved
  <1> QED
    BY <1>1, <1>2 DEF IInv

LEMMA LoadedType == TypeOK => Loaded \in Maps
  BY DEF TypeOK, Loaded, EmptyMap, Maps

LEMMA LowerIsKey == ASSUME NEW k \in Keys PROVE ToLower(k) \in Keys
  BY DEF Keys, ToLower, Cases

\* Every action keeps the types.
LEMMA StepTypeOK == TypeOK /\ [Next]_vars => TypeOK'
  <1> SUFFICES ASSUME TypeOK, [Next]_vars PROVE TypeOK'
    OBVIOUS
  <1> USE MigrationAssumption DEF Normalized, CountPut, NeedsPersist, ResetCounters, TakeLock
  <1> USE DEF TypeOK, memory, file, history
  <1>0. EmptyMap \in Maps /\ Loaded \in Maps /\ 0 \in 0..MaxCount
    BY LoadedType DEF EmptyMap, Maps
  <1>1. ASSUME NEW t \in Threads, NEW k \in Keys, NEW v \in OyIds, MapID(t, k, v)
        PROVE  TypeOK'
    <2>1. idMap' \in Maps
      BY <1>1, LowerIsKey DEF MapID, Maps
    <2> QED
      BY <1>1, <2>1 DEF MapID
  <1>2. ASSUME NEW t \in Threads, PersistMigration(t) PROVE TypeOK'
    BY <1>2 DEF PersistMigration
  <1>3. ASSUME NEW t \in Threads, PersistClean(t) PROVE TypeOK'
    BY <1>3 DEF PersistClean
  <1>4. ASSUME NEW t \in Threads, PersistBegin(t) PROVE TypeOK'
    BY <1>4 DEF PersistBegin
  <1>5. ASSUME NEW t \in Threads, WriteOpen(t) PROVE TypeOK'
    BY <1>0, <1>5 DEF WriteOpen
  <1>6. ASSUME NEW t \in Threads, WriteFail(t) PROVE TypeOK'
    BY <1>0, <1>6 DEF WriteFail
  <1>7. ASSUME NEW t \in Threads, WriteDone(t) PROVE TypeOK'
    <2>1. fileMap' \in Maps /\ saved' \in Maps /\ data' \in Maps /\ idMap' \in Maps
      BY <1>0, <1>7 DEF WriteDone
    <2>2. pc' \in [Threads -> {"idle", "persist", "open", "write"}]
      BY <1>7 DEF WriteDone
    <2>3. dirty' \in BOOLEAN /\ failed' \in BOOLEAN /\ blind' \in BOOLEAN
      BY <1>7 DEF WriteDone
    <2>4. dirtyCount' \in 0..MaxCount
      BY <1>0, <1>7 DEF WriteDone
    <2> QED
      BY <2>1, <2>2, <2>3, <2>4, <1>7 DEF WriteDone
  <1>8. CASE Crash
    <2>1. saved' \in Maps /\ data' \in Maps /\ idMap' \in Maps
      BY <1>0, <1>8 DEF Crash
    <2>2. pc' \in [Threads -> {"idle", "persist", "open", "write"}]
      BY <1>8 DEF Crash
    <2>3. up' \in BOOLEAN /\ dirty' \in BOOLEAN /\ failed' \in BOOLEAN /\ blind' \in BOOLEAN
      BY <1>8 DEF Crash
    <2>4. dirtyCount' \in 0..MaxCount
      BY <1>8, <1>0 DEF Crash
    <2> QED
      BY <2>1, <2>2, <2>3, <2>4, <1>8 DEF Crash
  <1>9. CASE Start
    BY <1>0, <1>9 DEF Start
  <1>10. CASE StartBlind
    BY <1>0, <1>10 DEF StartBlind
  <1>11. CASE UNCHANGED vars
    BY <1>11 DEF vars
  <1> QED
    BY <1>1, <1>2, <1>3, <1>4, <1>5, <1>6, <1>7, <1>8, <1>9, <1>10, <1>11 DEF Next

\* Every action keeps the invariant.
LEMMA StepIInv == IInv /\ [Next]_vars => IInv'
  <1> SUFFICES ASSUME IInv, [Next]_vars PROVE IInv'
    OBVIOUS
  <1>0. TypeOK /\ TypeOK'
    BY StepTypeOK DEF IInv
  <1> DEFINE Rest == LockInv /\ DirtyInv /\ SavedInv /\ SnapshotIsCurrent /\ CleanMeansSaved
  <1> SUFFICES Rest'
    BY <1>0 DEF IInv
  <1> USE <1>0, MigrationAssumption
      DEF Normalized, CountPut, NeedsPersist, ResetCounters, TakeLock, IInv, TypeOK, LockInv, DirtyInv, SavedInv, SnapshotIsCurrent,
          CleanMeansSaved, memory, file, history
  <1>1. ASSUME NEW t \in Threads, NEW k \in Keys, NEW v \in OyIds, MapID(t, k, v)
        PROVE  Rest'
    BY <1>1 DEF MapID, Loaded
  <1>2. ASSUME NEW t \in Threads, PersistMigration(t) PROVE Rest'
    BY <1>2 DEF PersistMigration, Loaded
  <1>3. ASSUME NEW t \in Threads, PersistClean(t) PROVE Rest'
    BY <1>3 DEF PersistClean, Loaded
  <1>4. ASSUME NEW t \in Threads, PersistBegin(t) PROVE Rest'
    BY <1>4 DEF PersistBegin, Loaded
  <1>5. ASSUME NEW t \in Threads, WriteOpen(t) PROVE Rest'
    BY <1>5 DEF WriteOpen, Loaded
  <1>6. ASSUME NEW t \in Threads, WriteFail(t) PROVE Rest'
    BY <1>6 DEF WriteFail, Loaded
  <1>7. ASSUME NEW t \in Threads, WriteDone(t) PROVE Rest'
    BY <1>7 DEF WriteDone, Loaded
  <1>8. CASE Crash
    BY <1>8 DEF Crash, Loaded
  <1>9. CASE Start
    BY <1>9 DEF Start, Loaded
  <1>10. CASE StartBlind
    BY <1>10 DEF StartBlind, Loaded
  <1>11. CASE UNCHANGED vars
    BY <1>11 DEF vars, Loaded
  <1> QED
    BY <1>1, <1>2, <1>3, <1>4, <1>5, <1>6, <1>7, <1>8, <1>9, <1>10, <1>11 DEF Next

THEOREM Invariance == Spec => []IInv
  BY InitIInv, StepIInv, PTL DEF Spec

\* The state is always well typed.
THEOREM Typing == Spec => []TypeOK
  <1>1. IInv => TypeOK
    BY DEF IInv
  <1> QED
    BY <1>1, Invariance, PTL

\* A clean process has nothing to lose: a restart brings back its map.
THEOREM CleanMapIsSaved == Spec => []CleanMeansSaved
  <1>1. IInv => CleanMeansSaved
    BY DEF IInv
  <1> QED
    BY <1>1, Invariance, PTL
-----------------------------------------------------------------------------
Busy == {t \in Threads : pc[t] # "idle"}

\* A goroutine that takes the counter to the limit is busy from that step on,
\* and it stays busy until the counter is reset or a write has failed.
LEMMA StepLossBound == IInv /\ LossBound /\ [Next]_vars => LossBound'
  <1> SUFFICES ASSUME IInv, LossBound, [Next]_vars PROVE LossBound'
    OBVIOUS
  <1>0. /\ TypeOK /\ DirtyInv /\ IsFiniteSet(Threads) /\ PersistAt \in Nat \ {0}
        /\ dirtyCount \in Nat
    BY MigrationAssumption DEF IInv, TypeOK
  <1>1. IsFiniteSet(Busy) /\ IsFiniteSet(Busy')
    BY <1>0, FS_Subset DEF Busy
  <1>2. Cardinality(Busy) \in Nat /\ Cardinality(Busy') \in Nat
    BY <1>1, FS_CardinalityType
  <1>3. LossBound <=> failed \/ dirtyCount < PersistAt + Cardinality(Busy)
    BY DEF LossBound, Busy
  <1>4. LossBound' <=> failed' \/ dirtyCount' < PersistAt + Cardinality(Busy')
    BY DEF LossBound, Busy
  <1>5. ASSUME dirtyCount' = 0 PROVE LossBound'
    BY <1>5, <1>0, <1>2, <1>4
  <1>6. ASSUME Busy \subseteq Busy', dirtyCount' = dirtyCount, failed' = failed
        PROVE  LossBound'
    <2>1. Cardinality(Busy) <= Cardinality(Busy')
      BY <1>1, <1>6, FS_Subset
    <2> QED
      BY <2>1, <1>0, <1>2, <1>3, <1>4, <1>6
  <1> USE DEF Normalized, CountPut, NeedsPersist, ResetCounters, TakeLock,
              memory, file, history
  <1>7. ASSUME NEW t \in Threads, NEW k \in Keys, NEW v \in OyIds, MapID(t, k, v)
        PROVE  LossBound'
    <2>1. CASE dirtyCount' < PersistAt
      BY <2>1, <1>0, <1>2, <1>4, <1>7 DEF MapID
    <2>2. CASE dirtyCount' >= PersistAt
      <3>1. Busy' = Busy \cup {t} /\ t \notin Busy
        BY <2>2, <1>0, <1>7 DEF MapID, Busy, TypeOK
      <3>2. Cardinality(Busy') = Cardinality(Busy) + 1
        BY <3>1, <1>1, FS_AddElement
      <3> QED
        BY <3>2, <1>0, <1>2, <1>3, <1>4, <1>7 DEF MapID
    <2>3. dirtyCount' \in Nat
      BY <1>0, <1>7 DEF MapID
    <2> QED
      BY <2>1, <2>2, <2>3, <1>0
  <1>8. ASSUME NEW t \in Threads,
               PersistMigration(t) \/ PersistBegin(t) \/ WriteOpen(t)
        PROVE  LossBound'
    <2>1. Busy \subseteq Busy'
      BY <1>8, <1>0 DEF PersistMigration, PersistBegin, WriteOpen, Busy, TypeOK
    <2> QED
      BY <2>1, <1>6, <1>8 DEF PersistMigration, PersistBegin, WriteOpen
  <1>9. ASSUME NEW t \in Threads, PersistClean(t) PROVE LossBound'
    BY <1>9, <1>5, <1>0 DEF PersistClean, DirtyInv
  <1>10. ASSUME NEW t \in Threads, WriteFail(t) PROVE LossBound'
    BY <1>10, <1>4 DEF WriteFail
  <1>11. ASSUME NEW t \in Threads, WriteDone(t) PROVE LossBound'
    BY <1>11, <1>5 DEF WriteDone
  <1>12. CASE Crash
    BY <1>12, <1>5 DEF Crash
  <1>13. CASE Start \/ StartBlind \/ UNCHANGED vars
    <2>1. Busy' = Busy
      BY <1>13 DEF Start, StartBlind, vars, Busy
    <2> QED
      BY <2>1, <1>6, <1>13 DEF Start, StartBlind, vars
  <1> QED
    BY <1>7, <1>8, <1>9, <1>10, <1>11, <1>12, <1>13 DEF Next

\* While writes succeed, a crash loses fewer mappings than one batch plus one
\* per goroutine on its way to save.
THEOREM BoundedLoss == Spec => []LossBound
  <1>1. Init => LossBound
    <2> SUFFICES ASSUME Init PROVE LossBound
      OBVIOUS
    <2>1. IsFiniteSet(Busy)
      BY MigrationAssumption, FS_Subset DEF Busy
    <2>2. Cardinality(Busy) \in Nat
      BY <2>1, FS_CardinalityType
    <2> QED
      BY <2>2, MigrationAssumption DEF Init, LossBound, Busy
  <1> QED
    BY <1>1, StepLossBound, Invariance, PTL DEF Spec

-----------------------------------------------------------------------------
\* Every step of the code is one step, or none, of the all-or-nothing map.
LEMMA StepRefines ==
    IInv /\ [Next]_vars => [Durable!Next]_<<AbstractMem, AbstractDurable>>
  <1> SUFFICES ASSUME IInv, [Next]_vars
               PROVE  Durable!Next \/ UNCHANGED <<AbstractMem, AbstractDurable>>
    OBVIOUS
  <1>0. TypeOK /\ LockInv /\ SavedInv /\ SnapshotIsCurrent
    BY DEF IInv
  <1> USE MigrationAssumption
      DEF Normalized, CountPut, NeedsPersist, ResetCounters, TakeLock, AbstractMem, AbstractDurable, Loaded, memory, file, history
  <1>1. ASSUME NEW t \in Threads, NEW k \in Keys, NEW v \in OyIds, MapID(t, k, v)
        PROVE  Durable!Put
    BY <1>1, LowerIsKey DEF MapID, Durable!Put
  <1>2. ASSUME NEW t \in Threads,
               PersistMigration(t) \/ PersistClean(t)
        PROVE  UNCHANGED <<AbstractMem, AbstractDurable>>
    BY <1>2 DEF PersistMigration, PersistClean
  <1>3. ASSUME NEW t \in Threads, PersistBegin(t) \/ WriteOpen(t)
        PROVE  UNCHANGED <<AbstractMem, AbstractDurable>>
    BY <1>3, <1>0
       DEF PersistBegin, WriteOpen, TypeOK, LockInv, SavedInv, SnapshotIsCurrent
  <1>4. ASSUME NEW t \in Threads, WriteFail(t)
        PROVE  Durable!Wipe \/ UNCHANGED <<AbstractMem, AbstractDurable>>
    <2>1. mu = t /\ up /\ mu' = NoThread /\ UNCHANGED <<up, idMap, fileState, fileMap>>
      BY <1>4, <1>0 DEF WriteFail, SnapshotIsCurrent, LockInv
    <2>2. CASE pc[t] = "open"
      BY <2>1, <2>2, <1>0 DEF SavedInv
    <2>3. CASE pc[t] = "write"
      BY <2>1, <2>3, <1>0 DEF SavedInv, Durable!Wipe
    <2> QED
      BY <2>2, <2>3, <1>4 DEF WriteFail
  <1>5. ASSUME NEW t \in Threads, WriteDone(t) PROVE Durable!Save
    BY <1>5, <1>0 DEF WriteDone, SnapshotIsCurrent, LockInv, Durable!Save
  <1>6. CASE Crash
    <2>1. UNCHANGED Loaded /\ AbstractMem' = Loaded /\ AbstractDurable' = Loaded
      BY <1>6 DEF Crash
    <2>2. CASE AbstractDurable = Loaded
      BY <2>1, <2>2 DEF Durable!Restart, Durable!Next
    <2>3. CASE AbstractDurable # Loaded
      BY <2>1, <2>3, <1>0 DEF SavedInv, LockInv, Durable!Wipe, Durable!Next
    <2> QED
      BY <2>2, <2>3
  <1>7. CASE Start
    BY <1>7, <1>0 DEF Start, LockInv
  <1>8. CASE StartBlind
    BY <1>8, <1>0 DEF StartBlind, LockInv, Durable!Blind, Durable!Next
  <1>9. CASE UNCHANGED vars
    BY <1>9 DEF vars
  <1> QED
    BY <1>1, <1>2, <1>3, <1>4, <1>5, <1>6, <1>7, <1>8, <1>9
       DEF Next, Durable!Next

\* The file implements the all-or-nothing map.
THEOREM Refinement == Spec => SavesAreWhole
  <1>1. Init => Durable!Init
    BY DEF Init, Durable!Init, AbstractMem, AbstractDurable
  <1> QED
    BY <1>1, StepRefines, Invariance, PTL DEF Spec, SavesAreWhole, Durable!Spec

-----------------------------------------------------------------------------
\* Every map the process can hold or write is keyed in lowercase only.
LowercaseInv ==
    /\ LowercaseOnly(idMap)
    /\ LowercaseOnly(data)
    /\ LowercaseOnly(fileMap)

\* In such a map the two spellings of a GUID find the same entry.
LEMMA LowercaseIsCaseBlind ==
  ASSUME NEW m \in Maps, LowercaseOnly(m), NEW k \in Keys
  PROVE  Find(m, k) = m[ToLower(k)]
  BY LowerIsKey DEF Find, OtherCase, LowercaseOnly, ToLower, ToUpper, Keys, Cases

\* If the deployed file is keyed in lowercase, so is everything after it.
LEMMA StepLowercase == TypeOK /\ LowercaseInv /\ [Next]_vars => LowercaseInv'
  <1> USE DEF Normalized, CountPut, NeedsPersist, ResetCounters, TakeLock,
              LowercaseInv, LowercaseOnly, memory, file, history
  <1> SUFFICES ASSUME TypeOK, LowercaseInv, [Next]_vars PROVE LowercaseInv'
    OBVIOUS
  <1>1. ASSUME NEW t \in Threads, NEW k \in Keys, NEW v \in OyIds, MapID(t, k, v)
        PROVE  LowercaseInv'
    BY <1>1 DEF MapID, ToLower, TypeOK, Maps
  <1>2. CASE Crash \/ Start \/ StartBlind \/ UNCHANGED vars
    BY <1>2 DEF Crash, Start, StartBlind, Loaded, EmptyMap, vars
  <1>3. ASSUME NEW t \in Threads,
               \/ PersistMigration(t) \/ PersistClean(t) \/ PersistBegin(t)
               \/ WriteOpen(t) \/ WriteFail(t) \/ WriteDone(t)
        PROVE  LowercaseInv'
    BY <1>3 DEF PersistMigration, PersistClean, PersistBegin, WriteOpen,
                WriteFail, WriteDone, EmptyMap
  <1> QED
    BY <1>1, <1>2, <1>3 DEF Next

\* With a file keyed in lowercase, lookups are case-insensitive as documented.
THEOREM CaseInsensitive ==
  ASSUME \A m \in FirstMaps : LowercaseOnly(m)
  PROVE  Spec => []CaseInsensitiveLookup
  <1>1. Init => LowercaseInv
    BY DEF Init, Loaded, LowercaseInv, LowercaseOnly, EmptyMap
  <1>2. TypeOK /\ LowercaseInv => CaseInsensitiveLookup
    <2> SUFFICES ASSUME TypeOK, LowercaseInv, NEW k \in Keys
                 PROVE  LookupOpenYardID(idMap, ToLower(k)) = LookupOpenYardID(idMap, ToUpper(k))
      BY DEF CaseInsensitiveLookup
    <2>1. ToLower(k) \in Keys /\ ToUpper(k) \in Keys
      BY DEF ToLower, ToUpper, Keys, Cases
    <2>2. ToLower(ToLower(k)) = ToLower(ToUpper(k))
      BY DEF ToLower, ToUpper
    <2> QED
      BY <2>1, <2>2, LowercaseIsCaseBlind DEF LookupOpenYardID, TypeOK, LowercaseInv
  <1> QED
    BY <1>1, <1>2, StepLowercase, Typing, PTL DEF Spec

\* With such a file a mapping is found under the id it was put under, at once.
THEOREM PutFound ==
  ASSUME \A m \in FirstMaps : LowercaseOnly(m)
  PROVE  Spec => PutIsFound
  <1>1. Init => LowercaseInv
    BY DEF Init, Loaded, LowercaseInv, LowercaseOnly, EmptyMap
  <1>2. TypeOK /\ TypeOK' /\ LowercaseInv'
        => \A t \in Threads, k \in Keys, v \in OyIds :
              MapID(t, k, v) => /\ LookupOpenYardID(idMap', k) = v
                                /\ FilterMissing(idMap', {k}) = {}
    <2> SUFFICES ASSUME TypeOK, TypeOK', LowercaseInv', NEW t \in Threads,
                        NEW k \in Keys, NEW v \in OyIds, MapID(t, k, v)
                 PROVE  /\ LookupOpenYardID(idMap', k) = v
                        /\ FilterMissing(idMap', {k}) = {}
      OBVIOUS
    <2>1. idMap' \in Maps /\ LowercaseOnly(idMap')
      BY DEF TypeOK, LowercaseInv
    <2>2. idMap'[ToLower(k)] = v
      BY LowerIsKey DEF MapID, Normalized, TypeOK, Maps
    <2>3. Find(idMap', k) = v
      BY <2>1, <2>2, LowercaseIsCaseBlind
    <2>4. v # Absent /\ v # NoId
      BY KeyAssumption
    <2> QED
      BY <2>3, <2>4 DEF LookupOpenYardID, FilterMissing
  <1> QED
    BY <1>1, <1>2, StepLowercase, Typing, PTL DEF Spec, PutIsFound

\* What is being written to the file is the map in memory: writers hold the lock.
THEOREM CurrentSnapshot == Spec => []SnapshotIsCurrent
  <1>1. IInv => SnapshotIsCurrent
    BY DEF IInv
  <1> QED
    BY Invariance, <1>1, PTL
=============================================================================
