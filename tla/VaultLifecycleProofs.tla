------------------------ MODULE VaultLifecycleProofs ------------------------
(***************************************************************************)
(* Proofs about VaultLifecycle, for every set of providers, of mutations   *)
(* and of edits and every number of sessions: its type invariant; that     *)
(* DurabilityInv is inductive, so that an acknowledged mutation survives   *)
(* every order of saves, failures, locks, crashes and unlocks; that what   *)
(* is not saved is scheduled; that a save takes no row of the tab away;    *)
(* that an acknowledged edit is in the manifest of the primary.            *)
(***************************************************************************)
EXTENDS VaultLifecycle, TLAPS

USE DEF cloud, idb, lockVars, handles, memory, dirtyVars, userVars, saveVars,
        recVars, rowGhosts, editGhosts, ghosts

ExposedType == [Causes -> SUBSET (Mutations \X Providers)]

\* Expose() adds its pairs to the mutations at risk and takes none away.
LEMMA ExposeRisk ==
  ASSUME NEW c \in Causes, NEW ts \in SUBSET (Mutations \X Providers),
         exposed \in ExposedType,
         Expose(c, ts)
  PROVE  /\ exposed' \in ExposedType
         /\ ts \subseteq exposed'[c]
         /\ \A d \in Causes : exposed[d] \subseteq exposed'[d]
         /\ \A m, p : AtRisk(m, p)' <=> (AtRisk(m, p) \/ <<m, p>> \in ts)
  BY DEF Expose, ExposedType, AtRisk

\* A mutation in progress that a save overlaps is at risk.
LEMMA OverlapRisk ==
  ASSUME TypeOK, pending \subseteq exposed["overlap"]
  PROVE  \A t \in pending : AtRisk(t[1], t[2])
<1>1. \A t \in pending : t = <<t[1], t[2]>>
  BY DEF TypeOK
<1>2. "overlap" \in Causes
  BY DEF Causes
<1>. QED
  BY <1>1, <1>2 DEF AtRisk
-----------------------------------------------------------------------------
\* The initial state of a new vault is well typed.
LEMMA InitType == Init => TypeOK
<1>. SUFFICES ASSUME Init PROVE TypeOK
  OBVIOUS
<1>1. 0 \in 0..MaxSessions
  BY SessionAssumption
<1>2. NoRows \in Rows
  BY DEF NoRows, Rows
<1>3. manifestCloud \in [Providers -> SUBSET Edits]
  BY DEF Init
<1>4. exposed \in [Causes -> SUBSET (Mutations \X Providers)]
  BY DEF Init
<1>. QED
  BY <1>1, <1>2, <1>3, <1>4, PrimaryAssumption DEF Init, TypeOK

\* The history of exposures is well typed after any step that only adds to it.
LEMMA ExposeType ==
  ASSUME TypeOK, NEW c \in Causes, NEW ts \in SUBSET (Mutations \X Providers),
         Expose(c, ts)
  PROVE  exposed' \in [Causes -> SUBSET (Mutations \X Providers)]
  BY ExposeRisk DEF ExposedType, TypeOK

\* Every step of the tab, of the save coroutine and of the other device keeps
\* every variable in its type.
LEMMA TypeStep == TypeOK /\ [Next]_vars => TypeOK'
<1>. SUFFICES ASSUME TypeOK, [Next]_vars PROVE TypeOK'
  OBVIOUS
<1>. USE PrimaryAssumption, SessionAssumption DEF TypeOK, Rows
<1>1. CASE UnlockContended
  BY <1>1 DEF UnlockContended
<1>2. CASE UnlockFail
  BY <1>2 DEF UnlockFail, UnlockThrows
<1>3. ASSUME NEW online \in SUBSET Providers, NEW insts \in SUBSET Providers,
             NEW got \in SUBSET Providers, UnlockNoKeys(online, insts, got)
      PROVE  TypeOK'
  BY <1>3 DEF UnlockNoKeys, UnlockThrows
<1>4. ASSUME NEW online \in SUBSET Providers, NEW insts \in SUBSET Providers,
             NEW got \in SUBSET Providers, NEW stored \in SUBSET got,
             UnlockLoad(online, insts, got, stored) PROVE TypeOK'
  BY <1>4 DEF UnlockLoad, LoadedRows, PlanUnlock, CachedProviderIds,
     JournalProviders, Reachable
<1>5. ASSUME NEW p \in Providers, RecoverReplayWal(p) PROVE TypeOK'
  <2>. DEFINE ts == {<<m, p>> : m \in {n \in wal[p] : p \in dirtyFlag /\ n \notin body[p] \cap db'[p]}}
  <2>1. ts \in SUBSET (Mutations \X Providers)
    OBVIOUS
  <2>2. exposed' \in [Causes -> SUBSET (Mutations \X Providers)]
    BY <1>5, <2>1, ExposeType DEF RecoverReplayWal, Causes
  <2>3. db' \in [Providers -> SUBSET Mutations]
    BY <1>5 DEF RecoverReplayWal
  <2>. QED
    BY <1>5, <2>2, <2>3 DEF RecoverReplayWal
<1>6. CASE RecoverClearWal
  BY <1>6 DEF RecoverClearWal
<1>7. CASE RecoverClearFlag
  BY <1>7 DEF RecoverClearFlag
<1>8. CASE RecoverReplayJournal
  BY <1>8 DEF RecoverReplayJournal, Expose, Replayable
<1>9. CASE UnlockDone
  BY <1>9 DEF UnlockDone
<1>10. ASSUME NEW p \in Providers, Reconnect(p) PROVE TypeOK'
  BY <1>10 DEF Reconnect
<1>11. ASSUME NEW p \in Providers, SetActiveProviderId(p) PROVE TypeOK'
  BY <1>11 DEF SetActiveProviderId
<1>12. ASSUME NEW p \in Providers, FlagLands(p) PROVE TypeOK'
  BY <1>12 DEF FlagLands
<1>13. ASSUME NEW m \in Mutations, OnMutate(m) PROVE TypeOK'
  <2>1. exposed' \in [Causes -> SUBSET (Mutations \X Providers)]
    BY <1>13 DEF OnMutate, Causes
  <2>. QED
    BY <1>13, <2>1 DEF OnMutate
<1>14. ASSUME NEW m \in Mutations, MutateDirect(m) PROVE TypeOK'
  BY <1>14 DEF MutateDirect, MarkDirty
<1>15. ASSUME NEW m \in Mutations, NEW p \in Providers, MutateLogged(m, p)
       PROVE  TypeOK'
  <2>. DEFINE ts == IF p = activeProviderId THEN {} ELSE {<<m, p>>}
  <2>1. ts \in SUBSET (Mutations \X Providers)
    OBVIOUS
  <2>2. exposed' \in [Causes -> SUBSET (Mutations \X Providers)]
    BY <1>15, <2>1, ExposeType DEF MutateLogged, Causes
  <2>. QED
    BY <1>15, <2>2 DEF MutateLogged, Execute, MarkDirty
<1>16. ASSUME NEW m \in Mutations, NEW p \in Providers, MutateTrash(m, p)
       PROVE  TypeOK'
  BY <1>16 DEF MutateTrash, Execute
<1>17. ASSUME NEW m \in Mutations, NEW p \in Providers, MutateFail(m, p)
       PROVE  TypeOK'
  BY <1>17 DEF MutateFail
<1>18. CASE TimerFires
  <2>1. exposed' \in [Causes -> SUBSET (Mutations \X Providers)]
    BY <1>18, ExposeType DEF TimerFires, StartSave, Causes
  <2>. QED
    BY <1>18, <2>1 DEF TimerFires, StartSave
<1>19. ASSUME NEW e \in Edits, EditBegin(e) PROVE TypeOK'
  BY <1>19 DEF EditBegin
<1>20. ASSUME NEW t \in editing, EditManifest(t[1], t[2]) PROVE TypeOK'
  <2>1. exposed' \in [Causes -> SUBSET (Mutations \X Providers)]
    BY <1>20, ExposeType DEF EditManifest, StartSave, Causes
  <2>2. t[1] \in Edits /\ t[2] \in SUBSET Edits
    OBVIOUS
  <2>3. CASE saving
    BY <1>20, <2>2, <2>3 DEF EditManifest
  <2>4. CASE ~saving
    BY <1>20, <2>1, <2>2, <2>4 DEF EditManifest, StartSave
  <2>. QED
    BY <2>3, <2>4
<1>21. ASSUME NEW p \in Providers, SaveFlush(p) PROVE TypeOK'
  BY <1>21 DEF SaveFlush
<1>22. ASSUME NEW p \in Providers, SaveCopyRows(p) PROVE TypeOK'
  BY <1>22 DEF SaveCopyRows, ProviderRows
<1>23. ASSUME NEW p \in Providers, CommitClearWal(p) PROVE TypeOK'
  BY <1>23 DEF CommitClearWal
<1>24. CASE SavePlan
  BY <1>24 DEF SavePlan
<1>25. CASE SaveBuildManifest
  BY <1>25 DEF SaveBuildManifest
<1>26. CASE CommitClearFlag
  BY <1>26 DEF CommitClearFlag
<1>27. CASE CommitJournal
  BY <1>27 DEF CommitJournal
<1>28. ASSUME NEW stored \in BOOLEAN, SaveUploadBody(stored) PROVE TypeOK'
  BY <1>28 DEF SaveUploadBody, BodyLands
<1>29. ASSUME NEW uploaded \in SUBSET Providers, SaveUploadManifest(uploaded)
       PROVE  TypeOK'
  BY <1>29 DEF SaveUploadManifest, ManifestLands
<1>30. ASSUME NEW landed \in SUBSET Providers, NEW uploaded \in SUBSET landed,
              SaveManifestFails(uploaded, landed) PROVE TypeOK'
  BY <1>30 DEF SaveManifestFails, ManifestLands, SaveFinally, DirtyAfterSave
<1>31. CASE SaveDone
  BY <1>31 DEF SaveDone, SaveFinally, DirtyAfterSave
<1>32. CASE SaveThrow
  BY <1>32 DEF SaveThrow, SaveFinally, DirtyAfterSave
<1>33. CASE SaveUploadUnconfirmed
  BY <1>33 DEF SaveUploadUnconfirmed, BodyLands, SaveFinally, DirtyAfterSave
<1>34. CASE LockVault
  BY <1>34 DEF LockVault, ForgetSession, NoRows
<1>35. CASE BeforeUnload
  BY <1>35 DEF BeforeUnload
<1>36. CASE Crash
  BY <1>36 DEF Crash, ForgetSession, Expose, NoRows
<1>37. ASSUME NEW p \in Providers, RemoteUnlock(p) PROVE TypeOK'
  BY <1>37 DEF RemoteUnlock
<1>38. ASSUME NEW m \in Mutations, NEW p \in Providers, RemoteSave(m, p)
       PROVE  TypeOK'
  <2>. DEFINE ts == (body[p] \ body'[p]) \X {p}
  <2>1. ts \in SUBSET (Mutations \X Providers)
    OBVIOUS
  <2>2. exposed' \in [Causes -> SUBSET (Mutations \X Providers)]
    BY <1>38, <2>1, ExposeType DEF RemoteSave, Causes
  <2>. QED
    BY <1>38, <2>2 DEF RemoteSave
<1>39. ASSUME NEW m \in Mutations, NEW p \in Providers, RemoteFlush(m, p)
       PROVE  TypeOK'
  BY <1>39 DEF RemoteFlush
<1>40. CASE UNCHANGED vars
  BY <1>40 DEF vars
<1>. QED
  BY <1>1, <1>2, <1>3, <1>4, <1>5, <1>6, <1>7, <1>8, <1>9, <1>10, <1>11,
     <1>12, <1>13, <1>14, <1>15, <1>16, <1>17, <1>18, <1>19, <1>20, <1>21,
     <1>22, <1>23, <1>24, <1>25, <1>26, <1>27, <1>28, <1>29, <1>30, <1>31,
     <1>32, <1>33, <1>34, <1>35, <1>36, <1>37, <1>38, <1>39, <1>40
  DEF Next, OpenNext, StartNext, RunNext
-----------------------------------------------------------------------------
\* The parts of DurabilityInv other than TypeOK.
Core ==
    /\ DurableAcked /\ FreshInv /\ PendingInv
    /\ LoadedInv /\ RecoveryInv /\ SaveInv

\* DurabilityInv holds of a new vault, where nothing was acknowledged yet.
LEMMA InitDurability == Init => DurabilityInv
<1>. SUFFICES ASSUME Init PROVE DurabilityInv
  OBVIOUS
<1>1. TypeOK
  BY InitType
<1>2. \A p \in Providers : acked[p] = {} /\ Kept(p) = {}
  BY DEF Init, NoRows, Kept
<1>. QED
  BY <1>1, <1>2 DEF Init, DurabilityInv, DurableAcked, FreshInv, PendingInv,
                    LoadedInv, RecoveryInv, SaveInv, saving

\* A step that changes nothing the invariant reads, and may only start a
\* mutation, an edit or a flag write, preserves it.
LEMMA FrameCore ==
  ASSUME DurabilityInv,
         UNCHANGED <<body, wal, dirtyFlag, status, db, pending, savePc, saveQ,
                     saveProviderId, snapshot, successfulBodyUploads, recVars,
                     acked, exposed, torn>>,
         issued \subseteq issued', flagWrites \subseteq flagWrites'
  PROVE  Core'
<1>1. \A m, p : AtRisk(m, p)' <=> AtRisk(m, p)
  BY DEF AtRisk
<1>2. \A p : Kept(p)' = Kept(p)
  BY <1>1 DEF Kept
<1>3. DurableAcked'
  BY <1>1 DEF DurabilityInv, DurableAcked, Recoverable
<1>4. FreshInv' /\ PendingInv'
  BY <1>1 DEF DurabilityInv, FreshInv, PendingInv, saving
<1>5. LoadedInv'
  BY <1>2 DEF DurabilityInv, LoadedInv
<1>6. RecoveryInv' /\ SaveInv'
  BY <1>2 DEF DurabilityInv, RecoveryInv, SaveInv, saving
<1>. QED
  BY <1>3, <1>4, <1>5, <1>6 DEF Core

\* Starting a save puts the mutations in progress at risk and nothing else.
LEMMA StartSaveCore ==
  ASSUME DurabilityInv, StartSave,
         UNCHANGED <<body, wal, dirtyFlag, status, recVars, pending, db, issued,
                     acked, torn>>,
         flagWrites \subseteq flagWrites'
  PROVE  Core'
<1>. USE DEF DurabilityInv
<1>1. /\ pending \in SUBSET (Mutations \X Providers)
      /\ "overlap" \in Causes /\ exposed \in ExposedType
  BY DEF TypeOK, Causes, ExposedType
<1>2. /\ pending \subseteq exposed'["overlap"]
      /\ \A m, p : AtRisk(m, p)' <=> (AtRisk(m, p) \/ <<m, p>> \in pending)
  BY <1>1, ExposeRisk DEF StartSave
<1>3. \A m, p : AtRisk(m, p) => AtRisk(m, p)'
  BY <1>2
<1>4. \A p \in Providers : Kept(p)' \subseteq Kept(p)
  BY <1>3 DEF Kept
<1>5. PendingInv'
  BY <1>2, <1>3 DEF PendingInv
<1>6. DurableAcked'
  BY <1>3 DEF DurableAcked, Recoverable
<1>7. FreshInv' /\ LoadedInv' /\ RecoveryInv'
  BY <1>1, <1>4 DEF FreshInv, LoadedInv, RecoveryInv, TypeOK
<1>8. SaveInv'
  BY DEF StartSave, SaveInv
<1>. QED
  BY <1>5, <1>6, <1>7, <1>8 DEF Core

\* Unlocking: the database is loaded, the WAL of a flagged provider is replayed
\* before it is cleared, and what only the replay holds counts as at risk.
LEMMA UnlockCore ==
  ASSUME DurabilityInv, TypeOK'
  PROVE  /\ \A online, insts, got \in SUBSET Providers :
               \A stored \in SUBSET got :
                  UnlockLoad(online, insts, got, stored) => Core'
         /\ \A p \in Providers : RecoverReplayWal(p) => Core'
         /\ RecoverClearWal => Core'
         /\ RecoverClearFlag => Core'
         /\ RecoverReplayJournal => Core'
         /\ UnlockDone => Core'
<1>. USE DEF DurabilityInv, Core, TypeOK, Rows, saving, DurableAcked, FreshInv,
             PendingInv, LoadedInv, RecoveryInv, SaveInv, Kept, Recoverable
<1>1. ASSUME NEW online \in SUBSET Providers, NEW insts \in SUBSET Providers,
             NEW got \in SUBSET Providers, NEW stored \in SUBSET got,
             UnlockLoad(online, insts, got, stored)
      PROVE  Core'
  <2>1. DurableAcked' /\ FreshInv' /\ PendingInv' /\ RecoveryInv' /\ SaveInv'
    BY <1>1 DEF UnlockLoad, AtRisk
  <2>2. LoadedInv'
    BY <1>1 DEF UnlockLoad, LoadedRows, PlanUnlock, CachedProviderIds,
                Reachable, AtRisk
  <2>. QED
    BY <2>1, <2>2
<1>2. ASSUME NEW p \in Providers, RecoverReplayWal(p) PROVE Core'
  <2>. DEFINE ts == {<<m, p>> : m \in {n \in wal[p] : p \in dirtyFlag /\ n \notin body[p] \cap db'[p]}}
  <2>1. ts \in SUBSET (Mutations \X Providers)
    OBVIOUS
  <2>2. Expose("recovered", ts)
    BY <1>2 DEF RecoverReplayWal
  <2>3. "recovered" \in Causes /\ exposed \in ExposedType
    BY DEF Causes, ExposedType
  <2>4. \A m, q : AtRisk(m, q)' <=> (AtRisk(m, q) \/ <<m, q>> \in ts)
    <3>. HIDE DEF ts
    <3>. QED
      BY <2>1, <2>2, <2>3, ExposeRisk
  <2>5. p \in dirtyFlag => \A m \in wal[p] : m \in body[p] \cap db'[p] \/ AtRisk(m, p)'
    BY <2>4
  <2>6. \A m, q : AtRisk(m, q) => AtRisk(m, q)'
    BY <2>4
  <2>. HIDE DEF ts
  <2>7. CASE p \in dirtyFlag
    <3>1. p \notin torn => Kept(p)' \subseteq body[p] \/ recPc' = "journal"
      BY <1>2, <2>5, <2>6, <2>7 DEF RecoverReplayWal
    <3>2. LoadedInv'
      BY <1>2, <2>5, <2>6, <2>7 DEF RecoverReplayWal
    <3>. QED
      BY <1>2, <2>6, <2>7, <3>1, <3>2 DEF RecoverReplayWal
  <2>8. CASE p \notin dirtyFlag
    BY <1>2, <2>6, <2>8 DEF RecoverReplayWal
  <2>. QED
    BY <2>7, <2>8
<1>3. ASSUME RecoverClearWal PROVE Core'
  BY <1>3 DEF RecoverClearWal, AtRisk
<1>4. ASSUME RecoverClearFlag PROVE Core'
  BY <1>4 DEF RecoverClearFlag, AtRisk
<1>5. ASSUME RecoverReplayJournal PROVE Core'
  BY <1>5 DEF RecoverReplayJournal, Expose, AtRisk
<1>6. ASSUME UnlockDone PROVE Core'
  BY <1>6 DEF UnlockDone, AtRisk
<1>. QED
  BY <1>1, <1>2, <1>3, <1>4, <1>5, <1>6

\* Mutations: the WAL entry of an acknowledged mutation is there and its
\* provider is flagged, or another provider was active, or a save runs.
LEMMA MutateCore ==
  ASSUME DurabilityInv, TypeOK', NEW m \in Mutations
  PROVE  /\ OnMutate(m) => Core'
         /\ MutateDirect(m) => Core'
         /\ \A p \in Providers : MutateLogged(m, p) => Core'
         /\ \A p \in Providers : MutateTrash(m, p) => Core'
         /\ \A p \in Providers : MutateFail(m, p) => Core'
<1>. USE DEF DurabilityInv, Core, TypeOK, Rows, saving, DurableAcked, FreshInv,
             PendingInv, LoadedInv, RecoveryInv, SaveInv, Kept, Recoverable
<1>1. ASSUME OnMutate(m) PROVE Core'
  <2>. PICK p \in Providers : p = activeProviderId
    OBVIOUS
  <2>. DEFINE t == <<m, p>>
  <2>1. /\ \A d \in Causes : exposed[d] \subseteq exposed'[d]
        /\ \A d \in Causes : exposed'[d] \subseteq exposed[d] \cup {t}
        /\ saving => t \in exposed'["overlap"]
        /\ p \notin walKeys => t \in exposed'["unlogged"]
    BY <1>1 DEF OnMutate, Causes
  <2>2. /\ \A n, q : AtRisk(n, q) => AtRisk(n, q)'
        /\ \A n, q : AtRisk(n, q)' => AtRisk(n, q) \/ <<n, q>> = t
        /\ saving \/ p \notin walKeys => AtRisk(m, p)'
    <3>. HIDE DEF t
    <3>1. {"overlap", "unlogged"} \subseteq Causes
      BY DEF Causes
    <3>2. \A n, q : AtRisk(n, q) => AtRisk(n, q)'
      BY <2>1 DEF AtRisk
    <3>3. \A n, q : AtRisk(n, q)' => AtRisk(n, q) \/ <<n, q>> = t
      BY <2>1 DEF AtRisk
    <3>4. (\E d \in Causes : t \in exposed'[d]) => AtRisk(m, p)'
      BY DEF AtRisk, t
    <3>. QED
      BY <2>1, <3>1, <3>2, <3>3, <3>4
  <2>3. /\ pending' = pending \cup {t}
        /\ m \notin acked[p] /\ m \in issued'
    BY <1>1 DEF OnMutate
  <2>4. FreshInv'
    BY <1>1, <2>3 DEF OnMutate
  <2>5. PendingInv'
    <3>1. t[1] = m /\ t[2] = p
      OBVIOUS
    <3>2. m \in wal'[p] \/ AtRisk(m, p)'
      BY <1>1, <2>2 DEF OnMutate
    <3>3. \A q \in Providers : wal[q] \subseteq wal'[q]
      BY <1>1 DEF OnMutate
    <3>4. \A u \in pending : u[1] \in wal'[u[2]] \/ AtRisk(u[1], u[2])'
      BY <3>3, <2>2
    <3>5. saving => pending' \subseteq exposed'["overlap"]
      BY <1>1, <2>1, <2>3 DEF OnMutate, Causes
    <3>. HIDE DEF t
    <3>. QED
      BY <1>1, <3>1, <3>2, <3>4, <3>5, <2>3 DEF OnMutate
  <2>6. DurableAcked' /\ LoadedInv' /\ RecoveryInv' /\ SaveInv'
    BY <1>1, <2>2, <2>3 DEF OnMutate
  <2>. QED
    BY <2>4, <2>5, <2>6
<1>2. ASSUME MutateDirect(m) PROVE Core'
  BY <1>2, KindAssumption, PrimaryAssumption DEF MutateDirect, MarkDirty, AtRisk
<1>3. ASSUME NEW p \in Providers, MutateLogged(m, p) PROVE Core'
  <2>. DEFINE ts == IF p = activeProviderId THEN {} ELSE {<<m, p>>}
  <2>1. ts \in SUBSET (Mutations \X Providers)
    OBVIOUS
  <2>2. /\ \A n, q : AtRisk(n, q)' <=> (AtRisk(n, q) \/ <<n, q>> \in ts)
        /\ \A d \in Causes : exposed[d] \subseteq exposed'[d]
    BY <1>3, <2>1, ExposeRisk DEF MutateLogged, Causes, ExposedType
  <2>3. /\ \A n, q : AtRisk(n, q) => AtRisk(n, q)'
        /\ p # activeProviderId => AtRisk(m, p)'
    BY <2>2
  <2>4. saving => AtRisk(m, p)
    BY <1>3 DEF MutateLogged, Execute, AtRisk, Causes
  <2>5. m \in wal[p] \/ AtRisk(m, p)
    BY <1>3 DEF MutateLogged, Execute
  <2>6. \A q \in Providers :
           Kept(q)' \subseteq Kept(q) \cup (IF q = p THEN {m} ELSE {})
    BY <1>3, <2>3 DEF MutateLogged, Execute
  <2>7. saving => \A q \in Providers : Kept(q)' \subseteq Kept(q)
    BY <2>6, <2>4, <2>3
  <2>8. DurableAcked'
    BY <1>3, <2>3, <2>5 DEF MutateLogged, Execute, MarkDirty
  <2>9. FreshInv'
    BY <1>3 DEF MutateLogged, Execute
  <2>10. PendingInv'
    BY <1>3, <2>2 DEF MutateLogged, Execute, Causes
  <2>11. LoadedInv' /\ RecoveryInv'
    BY <1>3, <2>6 DEF MutateLogged, Execute
  <2>12. SaveInv'
    <3>. HIDE DEF Kept
    <3>. QED
      BY <1>3, <2>7 DEF MutateLogged, Execute
  <2>. QED
    BY <2>8, <2>9, <2>10, <2>11, <2>12
<1>4. ASSUME NEW p \in Providers, MutateTrash(m, p) PROVE Core'
  BY <1>4, KindAssumption DEF MutateTrash, Execute, AtRisk
<1>5. ASSUME NEW p \in Providers, MutateFail(m, p) PROVE Core'
  BY <1>5 DEF MutateFail, AtRisk
<1>. QED
  BY <1>1, <1>2, <1>3, <1>4, <1>5

\* Saving: the copy holds what survives, so a confirmed body does, so its WAL
\* and its flag are not needed any more.
LEMMA SaveCore ==
  ASSUME DurabilityInv, TypeOK'
  PROVE  /\ \A p \in Providers : SaveFlush(p) => Core'
         /\ SavePlan => Core'
         /\ \A p \in Providers : SaveCopyRows(p) => Core'
         /\ \A stored \in BOOLEAN : SaveUploadBody(stored) => Core'
         /\ SaveBuildManifest => Core'
         /\ \A up \in SUBSET Providers : SaveUploadManifest(up) => Core'
         /\ \A p \in Providers : CommitClearWal(p) => Core'
         /\ CommitClearFlag => Core'
         /\ CommitJournal => Core'
         /\ SaveDone => Core'
         /\ SaveThrow => Core'
         /\ SaveUploadUnconfirmed => Core'
         /\ \A up, landed \in SUBSET Providers :
               SaveManifestFails(up, landed) => Core'
<1>. USE DEF DurabilityInv, Core, TypeOK, Rows, saving, DurableAcked, FreshInv,
             PendingInv, LoadedInv, RecoveryInv, SaveInv, Kept, Recoverable
<1>1. ASSUME NEW p \in Providers, SaveFlush(p) PROVE Core'
  BY <1>1 DEF SaveFlush, AtRisk
<1>2. ASSUME SavePlan PROVE Core'
  BY <1>2 DEF SavePlan, AtRisk
<1>3. ASSUME NEW p \in Providers, SaveCopyRows(p) PROVE Core'
  BY <1>3 DEF SaveCopyRows, ProviderRows, AtRisk
<1>4. ASSUME NEW stored \in BOOLEAN, SaveUploadBody(stored) PROVE Core'
  <2>1. \A n, q : /\ AtRisk(n, q)' => AtRisk(n, q)
                  /\ AtRisk(n, q) /\ ~AtRisk(n, q)' =>
                        q = saveProviderId /\ n \in snapshot \cap acked[q]
    BY <1>4 DEF SaveUploadBody, BodyLands, AtRisk
  <2>2. PendingInv'
    <3>1. \A u \in pending : u = <<u[1], u[2]>>
      OBVIOUS
    <3>2. \A u \in pending :
             u \notin (snapshot \cap acked[saveProviderId]) \X {saveProviderId}
      BY <3>1
    <3>3. pending \subseteq exposed'["overlap"]
      BY <1>4, <3>2 DEF SaveUploadBody, BodyLands, Causes
    <3>. QED
      BY <1>4, <2>1, <3>3 DEF SaveUploadBody, BodyLands
  <2>3. DurableAcked' /\ FreshInv' /\ LoadedInv' /\ RecoveryInv' /\ SaveInv'
    BY <1>4 DEF SaveUploadBody, BodyLands, AtRisk
  <2>. QED
    BY <2>2, <2>3
<1>5. ASSUME SaveBuildManifest PROVE Core'
  BY <1>5 DEF SaveBuildManifest, AtRisk
<1>6. ASSUME NEW up \in SUBSET Providers, SaveUploadManifest(up) PROVE Core'
  BY <1>6 DEF SaveUploadManifest, AtRisk
<1>7. ASSUME NEW p \in Providers, CommitClearWal(p) PROVE Core'
  <2>1. \A n, q : AtRisk(n, q)' <=> AtRisk(n, q)
    BY <1>7 DEF CommitClearWal, AtRisk
  <2>2. \A u \in pending : AtRisk(u[1], u[2])
    BY <1>7, OverlapRisk DEF CommitClearWal
  <2>3. PendingInv'
    BY <1>7, <2>1, <2>2 DEF CommitClearWal
  <2>4. DurableAcked' /\ FreshInv' /\ LoadedInv' /\ RecoveryInv' /\ SaveInv'
    BY <1>7, <2>1 DEF CommitClearWal
  <2>. QED
    BY <2>3, <2>4
<1>8. ASSUME CommitClearFlag PROVE Core'
  BY <1>8 DEF CommitClearFlag, AtRisk
<1>9. ASSUME CommitJournal PROVE Core'
  BY <1>9 DEF CommitJournal, AtRisk
<1>10. ASSUME SaveDone PROVE Core'
  BY <1>10 DEF SaveDone, SaveFinally, AtRisk
<1>11. ASSUME SaveThrow PROVE Core'
  BY <1>11 DEF SaveThrow, SaveFinally, AtRisk
<1>12. ASSUME SaveUploadUnconfirmed PROVE Core'
  BY <1>12 DEF SaveUploadUnconfirmed, BodyLands, SaveFinally, AtRisk
<1>13. ASSUME NEW up \in SUBSET Providers, NEW landed \in SUBSET Providers,
              SaveManifestFails(up, landed)
       PROVE  Core'
  BY <1>13 DEF SaveManifestFails, SaveFinally, AtRisk
<1>. QED
  BY <1>1, <1>2, <1>3, <1>4, <1>5, <1>6, <1>7, <1>8, <1>9, <1>10, <1>11,
     <1>12, <1>13

\* Locks, crashes and the other device: what they lose counts as at risk.
LEMMA CrashCore ==
  ASSUME DurabilityInv, TypeOK'
  PROVE  /\ LockVault => Core'
         /\ Crash => Core'
         /\ \A p \in Providers : FlagLands(p) => Core'
         /\ \A m \in Mutations, p \in Providers : RemoteSave(m, p) => Core'
<1>. USE DEF DurabilityInv, Core, TypeOK, Rows, saving, DurableAcked, FreshInv,
             PendingInv, LoadedInv, RecoveryInv, SaveInv, Kept, Recoverable
<1>1. ASSUME LockVault PROVE Core'
  BY <1>1 DEF LockVault, ForgetSession, AtRisk
<1>2. ASSUME Crash PROVE Core'
  BY <1>2 DEF Crash, ForgetSession, Expose, AtRisk
<1>3. ASSUME NEW p \in Providers, FlagLands(p) PROVE Core'
  BY <1>3 DEF FlagLands, AtRisk
<1>4. ASSUME NEW m \in Mutations, NEW p \in Providers, RemoteSave(m, p)
      PROVE  Core'
  BY <1>4 DEF RemoteSave, Expose, AtRisk
<1>. QED
  BY <1>1, <1>2, <1>3, <1>4

\* DurabilityInv is inductive: every action of every actor preserves it.
LEMMA DurabilityStep == DurabilityInv /\ [Next]_vars => DurabilityInv'
<1>. SUFFICES ASSUME DurabilityInv, [Next]_vars PROVE DurabilityInv'
  OBVIOUS
<1>1. TypeOK'
  BY TypeStep DEF DurabilityInv
<1>2. SUFFICES Core'
  BY <1>1, <1>2 DEF DurabilityInv, Core
<1>3. CASE UnlockContended \/ UnlockFail
  BY <1>3, FrameCore DEF UnlockContended, UnlockFail, UnlockThrows
<1>4. ASSUME NEW online \in SUBSET Providers, NEW insts \in SUBSET Providers,
             NEW got \in SUBSET Providers, UnlockNoKeys(online, insts, got)
      PROVE  Core'
  BY <1>4, FrameCore DEF UnlockNoKeys, UnlockThrows
<1>5. ASSUME NEW p \in Providers, Reconnect(p) \/ SetActiveProviderId(p)
      PROVE  Core'
  BY <1>5, FrameCore DEF Reconnect, SetActiveProviderId
<1>6. CASE TimerFires
  <2>1. CASE saving
    BY <1>6, <2>1, FrameCore DEF TimerFires
  <2>2. CASE ~saving
    BY <1>6, <2>2, StartSaveCore DEF TimerFires
  <2>. QED
    BY <2>1, <2>2
<1>7. ASSUME NEW e, EditBegin(e) PROVE Core'
  BY <1>7, FrameCore DEF EditBegin
<1>8. ASSUME NEW e, NEW base, EditManifest(e, base) PROVE Core'
  <2>1. CASE saving
    BY <1>8, <2>1, FrameCore DEF EditManifest
  <2>2. CASE ~saving
    BY <1>8, <2>2, StartSaveCore DEF EditManifest
  <2>. QED
    BY <2>1, <2>2
<1>9. CASE BeforeUnload
  BY <1>9, FrameCore DEF BeforeUnload
<1>10. ASSUME NEW p \in Providers, RemoteUnlock(p) PROVE Core'
  BY <1>10, FrameCore DEF RemoteUnlock
<1>11. ASSUME NEW m \in Mutations, NEW p \in Providers, RemoteFlush(m, p)
       PROVE  Core'
  BY <1>11, FrameCore DEF RemoteFlush
<1>12. CASE UNCHANGED vars
  BY <1>12, FrameCore DEF vars
<1>. QED
  BY <1>1, <1>3, <1>4, <1>5, <1>6, <1>7, <1>8, <1>9, <1>10, <1>11, <1>12,
     UnlockCore, MutateCore, SaveCore, CrashCore
  DEF Next, OpenNext, StartNext, RunNext
-----------------------------------------------------------------------------
\* Every reachable state of the tab, of IndexedDB and of the cloud is well
\* typed; in particular a VaultJournal exists only for a provider that has an
\* instance and a WAL key (the Cloud steps of unlockVault).
THEOREM TypeCorrect == Spec => []TypeOK
<1>1. Init => TypeOK
  BY InitType
<1>2. TypeOK /\ [Next]_vars => TypeOK'
  BY TypeStep
<1>. QED
  BY <1>1, <1>2, PTL DEF Spec

\* The inductive invariant holds in every reachable state.
THEOREM DurabilityInvariant == Spec => []DurabilityInv
<1>1. Init => DurabilityInv
  BY InitDurability
<1>2. DurabilityInv /\ [Next]_vars => DurabilityInv'
  BY DurabilityStep
<1>. QED
  BY <1>1, <1>2, PTL DEF Spec

\* Once a mutation's call has returned, the mutation is in the cloud body or in
\* a WAL that the next unlock replays, whatever saves, failures, locks, crashes
\* and unlocks follow, outside the six named windows and the providers opened
\* incompletely: WAL before statement, flag, two-phase commit of _doSave.
THEOREM AckedIsDurable == Spec => []DurableAcked
<1>1. DurabilityInv => DurableAcked
  BY DEF DurabilityInv
<1>. QED
  BY <1>1, DurabilityInvariant, PTL
-----------------------------------------------------------------------------
(***************************************************************************)
(* Rows that are scheduled to be saved, and rows a save may not take away. *)
(***************************************************************************)

\* A row the cloud has, or whose loss is accounted for.
Saved(m, p) == m \in body[p] \/ AtRisk(m, p)

\* The copies that an unlock or another device may bring back hold nothing of
\* this tab that the body does not; an open database holds the body.
CopiesAt(p) ==
    /\ \A m \in (cache[p] \cup remoteDb[p]) \cap Local : Saved(m, p)
    /\ status # "locked" => \A m \in body[p] \cap Local : m \in db[p] \/ AtRisk(m, p)
    /\ status = "unlocking" => \A m \in db[p] \cap Local : Saved(m, p)
    /\ savePc = "upload" /\ p = saveProviderId =>
          \A m \in body[p] \cap Local : m \in snapshot \/ AtRisk(m, p)

\* A row that the save under way missed has marked its provider meanwhile, and
\* what is not saved is scheduled.
ScheduledAt(p) ==
    status = "unlocked" =>
      \A m \in db[p] \cap (Logged \cup Direct) :
        /\ savePc = "upload" /\ p = saveProviderId =>
              m \in snapshot \/ AtRisk(m, p) \/ p \in dirtyDuringSave
        /\ saving /\ p \in successfulBodyUploads => Saved(m, p) \/ p \in dirtyDuringSave
        /\ \/ Saved(m, p)
           \/ p \in dirtyProviders \cup dirtyDuringSave /\ (debounceTimer \/ saving)

\* The inductive invariant of the rows.
RowsInv ==
    /\ ~saving => dirtyDuringSave = {}
    /\ \A p \in Providers \ torn : CopiesAt(p) /\ ScheduledAt(p)

\* The edits that are acknowledged or about to be, and met nothing.
Promised == (editAcked \cup waiting) \ contested

\* The inductive invariant of the edits: every copy of the manifest that can
\* still be written to the primary holds what is promised.
EditInv ==
    /\ EditDurable
    /\ status # "locked" => Promised \subseteq manifest
    /\ \A t \in editing : Promised \subseteq t[2]
    /\ \A t, u \in editing : t # u => t[1] \in contested
    /\ savePc = "manifest" => Promised \subseteq updatedManifest
    /\ savePc \in {"clearWal", "clearFlag", "commit"} => Promised \subseteq manifestCloud[Primary]
    /\ ~saving => waiting = {}
    /\ status # "unlocked" => waiting \subseteq contested /\ editing = {}
-----------------------------------------------------------------------------
Committing == {"clearWal", "clearFlag", "commit"}

\* A step that leaves the manifests and the edits alone, and does not enter the
\* phases of a save that write them, keeps the invariant of the edits.
LEMMA EditFrame ==
  ASSUME EditInv,
         UNCHANGED <<manifestCloud, manifest, editing, updatedManifest, editGhosts>>,
         status' = status \/ (status = "unlocking" /\ status' = "unlocked"),
         savePc' = "idle" => savePc = "idle",
         savePc' = "manifest" => savePc = "manifest",
         savePc' \in Committing => savePc \in Committing
  PROVE  EditInv'
<1>1. Promised' = Promised
  BY DEF Promised
<1>. QED
  BY <1>1 DEF EditInv, EditDurable, Committing, saving

\* A save ends: its callers are answered or see an error.
LEMMA EditFinally ==
  ASSUME EditInv, SaveFinally, UNCHANGED editing,
         editAcked' = editAcked \/ (editAcked' = editAcked \cup waiting /\ savePc \in Committing),
         \/ manifestCloud' = manifestCloud
         \/ savePc = "manifest" /\ manifestCloud'[Primary] \in {manifestCloud[Primary], updatedManifest}
  PROVE  EditInv'
<1>1. UNCHANGED <<contested, manifest, status>> /\ waiting' = {} /\ savePc' = "idle"
  BY DEF SaveFinally
<1>2. Promised' \subseteq Promised
  BY <1>1 DEF Promised
<1>3. EditDurable'
  BY <1>1, <1>2 DEF EditInv, EditDurable, Promised, Committing
<1>. QED
  BY <1>1, <1>2, <1>3 DEF EditInv, saving

\* Starting, installing and saving an edit.
LEMMA EditSteps ==
  ASSUME TypeOK, EditInv
  PROVE  /\ \A e : EditBegin(e) => EditInv'
         /\ \A t \in editing : EditManifest(t[1], t[2]) => EditInv'
         /\ SaveBuildManifest => EditInv'
         /\ \A up \in SUBSET Providers : SaveUploadManifest(up) => EditInv'
<1>1. ASSUME NEW e, EditBegin(e) PROVE EditInv'
  <2>1. /\ editing' = editing \cup {<<e, manifest>>} /\ status = "unlocked"
        /\ contested' = IF editing = {} THEN contested
                        ELSE contested \cup {e} \cup {t[1] : t \in editing}
        /\ UNCHANGED <<status, manifest, manifestCloud, waiting, editAcked, savePc, updatedManifest>>
    BY <1>1 DEF EditBegin
  <2>2. Promised' \subseteq Promised
    BY <2>1 DEF Promised
  <2>3. \A t, u \in editing' : t # u => t[1] \in contested'
    <3>1. CASE editing = {}
      BY <2>1, <3>1
    <3>2. CASE editing # {}
      <4>1. e \in contested' /\ \A t \in editing : t[1] \in contested'
        BY <2>1, <3>2
      <4>2. <<e, manifest>>[1] = e
        OBVIOUS
      <4>. QED BY <2>1, <4>1, <4>2
    <3>. QED BY <3>1, <3>2
  <2>4. \A t \in editing' : Promised' \subseteq t[2]
    <3>1. <<e, manifest>>[2] = manifest
      OBVIOUS
    <3>. QED BY <2>1, <2>2, <3>1 DEF EditInv
  <2>5. EditDurable'
    BY <2>1 DEF EditInv, EditDurable
  <2>. QED BY <2>1, <2>2, <2>3, <2>4, <2>5 DEF EditInv, saving
<1>2. ASSUME NEW t \in editing, EditManifest(t[1], t[2]) PROVE EditInv'
  <2>0. t = <<t[1], t[2]>> /\ status = "unlocked"
    BY DEF TypeOK, EditInv
  <2>1. /\ editing' = editing \ {t} /\ manifest' = t[2] \cup {t[1]}
        /\ waiting' = waiting \cup {t[1]}
        /\ UNCHANGED <<status, manifestCloud, editAcked, updatedManifest>>
        /\ saving => savePc' = savePc /\ contested' = contested \cup {t[1]}
        /\ ~saving => savePc' = "flush" /\ contested' = contested
    BY <1>2, <2>0 DEF EditManifest, StartSave
  <2>2. Promised' \subseteq Promised \cup {t[1]} /\ (saving => Promised' \subseteq Promised)
    BY <2>1 DEF Promised
  <2>3. \A u \in editing' : Promised' \subseteq u[2]
    <3>. SUFFICES ASSUME NEW u \in editing' PROVE Promised' \subseteq u[2]
      OBVIOUS
    <3>1. u \in editing /\ u # t /\ contested \subseteq contested'
      BY <2>1
    <3>2. t[1] \in contested /\ Promised \subseteq u[2]
      BY <3>1 DEF EditInv
    <3>. QED BY <2>2, <3>1, <3>2 DEF Promised
  <2>4. Promised' \subseteq manifest'
    BY <2>1, <2>2 DEF EditInv
  <2>5. EditDurable' /\ \A u, v \in editing' : u # v => u[1] \in contested'
    BY <2>1 DEF EditInv, EditDurable
  <2>6. CASE saving
    BY <2>0, <2>1, <2>2, <2>3, <2>4, <2>5, <2>6 DEF EditInv, saving
  <2>7. CASE ~saving
    BY <2>0, <2>1, <2>3, <2>4, <2>5, <2>7 DEF EditInv, saving
  <2>. QED BY <2>6, <2>7
<1>3. ASSUME SaveBuildManifest PROVE EditInv'
  <2>1. /\ savePc' = "manifest" /\ updatedManifest' = manifest /\ status = "unlocked"
        /\ saving /\ UNCHANGED <<manifestCloud, manifest, status, editing, editGhosts>>
    BY <1>3 DEF SaveBuildManifest, saving
  <2>2. Promised' = Promised
    BY <2>1 DEF Promised
  <2>. QED BY <2>1, <2>2 DEF EditInv, EditDurable, saving
<1>4. ASSUME NEW up \in SUBSET Providers, SaveUploadManifest(up) PROVE EditInv'
  <2>1. /\ savePc = "manifest" /\ savePc' = "clearWal"
        /\ manifestCloud'[Primary] = updatedManifest
        /\ manifest' \in {manifest, updatedManifest}
        /\ UNCHANGED <<status, editing, editGhosts>>
    BY <1>4, PrimaryAssumption DEF SaveUploadManifest, ManifestLands, ManifestConfirmed
  <2>2. Promised' = Promised /\ Promised \subseteq updatedManifest
    BY <2>1 DEF Promised, EditInv
  <2>. QED BY <2>1, <2>2 DEF EditInv, EditDurable, Promised, saving
<1>. QED BY <1>1, <1>2, <1>3, <1>4

\* Every step keeps the invariant of the edits.
LEMMA EditStep == TypeOK /\ EditInv /\ [Next]_vars => EditInv'
<1>. SUFFICES ASSUME TypeOK, EditInv, [Next]_vars PROVE EditInv'
  OBVIOUS
<1>1. CASE UnlockContended \/ UnlockFail
  BY <1>1, EditFrame DEF UnlockContended, UnlockFail, UnlockThrows
<1>2. ASSUME NEW online \in SUBSET Providers, NEW insts \in SUBSET Providers,
             NEW got \in SUBSET Providers, UnlockNoKeys(online, insts, got)
      PROVE  EditInv'
  BY <1>2, EditFrame DEF UnlockNoKeys, UnlockThrows
<1>3. ASSUME NEW online \in SUBSET Providers, NEW insts \in SUBSET Providers,
             NEW got \in SUBSET Providers, NEW stored \in SUBSET got,
             UnlockLoad(online, insts, got, stored)
      PROVE  EditInv'
  <2>1. Primary \in online
    BY <1>3 DEF UnlockLoad, Reachable, KeysLoaded, UsesCache, PlanUnlock, CachedProviderIds
  <2>2. manifestCloud[Primary] \subseteq manifest'
    BY <1>3, <2>1 DEF UnlockLoad
  <2>3. /\ status = "locked" /\ status' = "unlocking"
        /\ UNCHANGED <<manifestCloud, editing, editGhosts, savePc, updatedManifest>>
    BY <1>3 DEF UnlockLoad
  <2>4. Promised' = Promised /\ Promised \subseteq manifestCloud[Primary]
    BY <2>3 DEF Promised, EditInv, EditDurable
  <2>. QED BY <2>2, <2>3, <2>4 DEF EditInv, EditDurable, saving
<1>4. ASSUME NEW p \in Providers, RecoverReplayWal(p) \/ Reconnect(p) \/ SetActiveProviderId(p)
                                  \/ FlagLands(p) \/ RemoteUnlock(p) \/ SaveFlush(p)
      PROVE  EditInv'
  <2>1. UNCHANGED <<manifestCloud, manifest, editing, updatedManifest, editGhosts, status, savePc>>
    BY <1>4 DEF RecoverReplayWal, Reconnect, SetActiveProviderId, FlagLands, RemoteUnlock, SaveFlush
  <2>. QED BY <2>1, EditFrame
<1>5. CASE RecoverClearWal \/ RecoverClearFlag \/ RecoverReplayJournal \/ UnlockDone \/ BeforeUnload
  <2>1. /\ UNCHANGED <<manifestCloud, manifest, editing, updatedManifest, editGhosts, savePc>>
        /\ status' = status \/ (status = "unlocking" /\ status' = "unlocked")
    BY <1>5 DEF RecoverClearWal, RecoverClearFlag, RecoverReplayJournal, UnlockDone, BeforeUnload
  <2>. QED BY <2>1, EditFrame
<1>6. ASSUME NEW m \in Mutations, OnMutate(m) \/ MutateDirect(m) PROVE EditInv'
  <2>1. UNCHANGED <<manifestCloud, manifest, editing, updatedManifest, editGhosts, status, savePc>>
    BY <1>6 DEF OnMutate, MutateDirect
  <2>. QED BY <2>1, EditFrame
<1>7. ASSUME NEW m \in Mutations, NEW p \in Providers,
             \/ MutateLogged(m, p) \/ MutateTrash(m, p) \/ MutateFail(m, p)
             \/ RemoteSave(m, p) \/ RemoteFlush(m, p)
      PROVE  EditInv'
  <2>1. UNCHANGED <<manifestCloud, manifest, editing, updatedManifest, editGhosts, status, savePc>>
    BY <1>7 DEF MutateLogged, MutateTrash, MutateFail, RemoteSave, RemoteFlush, Execute
  <2>. QED BY <2>1, EditFrame
<1>8. CASE TimerFires
  <2>1. UNCHANGED <<manifestCloud, manifest, editing, updatedManifest, editGhosts, status>>
        /\ savePc' \in {savePc, "flush"}
    BY <1>8 DEF TimerFires, StartSave
  <2>. QED BY <2>1, EditFrame DEF Committing
<1>9. ASSUME NEW p \in Providers, SaveCopyRows(p) PROVE EditInv'
  <2>1. UNCHANGED <<manifestCloud, manifest, editing, updatedManifest, editGhosts, status>>
        /\ savePc' \in {"bodies", "upload"}
    BY <1>9 DEF SaveCopyRows
  <2>. QED BY <2>1, EditFrame DEF Committing
<1>10. CASE SavePlan \/ \E stored \in BOOLEAN : SaveUploadBody(stored)
  <2>1. UNCHANGED <<manifestCloud, manifest, editing, updatedManifest, editGhosts, status>>
        /\ savePc' = "bodies"
    BY <1>10 DEF SavePlan, SaveUploadBody
  <2>. QED BY <2>1, EditFrame DEF Committing
<1>11. CASE CommitClearFlag \/ CommitJournal \/ \E p \in Providers : CommitClearWal(p)
  <2>1. UNCHANGED <<manifestCloud, manifest, editing, updatedManifest, editGhosts, status>>
        /\ savePc \in Committing /\ savePc' \in Committing
    BY <1>11 DEF CommitClearFlag, CommitJournal, CommitClearWal, Committing
  <2>. QED BY <2>1, EditFrame DEF Committing
<1>12. CASE SaveDone \/ SaveThrow \/ SaveUploadUnconfirmed
  <2>1. SaveFinally /\ UNCHANGED <<editing, manifestCloud>>
        /\ \/ editAcked' = editAcked
           \/ editAcked' = editAcked \cup waiting /\ savePc \in Committing
    BY <1>12 DEF SaveDone, SaveThrow, SaveUploadUnconfirmed, SaveFinally, Committing
  <2>. QED BY <2>1, EditFinally
<1>13. ASSUME NEW landed \in SUBSET Providers, NEW up \in SUBSET landed,
              SaveManifestFails(up, landed)
       PROVE  EditInv'
  <2>1. SaveFinally /\ UNCHANGED <<editing, editAcked>> /\ savePc = "manifest"
        /\ manifestCloud'[Primary] \in {manifestCloud[Primary], updatedManifest}
    BY <1>13, PrimaryAssumption DEF SaveManifestFails, ManifestLands, SaveFinally
  <2>. QED BY <2>1, EditFinally
<1>14. CASE LockVault
  <2>1. /\ status' = "locked" /\ editing' = {} /\ contested' = contested \cup waiting
        /\ UNCHANGED <<manifestCloud, editAcked, waiting, savePc, updatedManifest>>
    BY <1>14 DEF LockVault, ForgetSession
  <2>2. Promised' \subseteq Promised
    BY <2>1 DEF Promised
  <2>. QED BY <2>1, <2>2 DEF EditInv, EditDurable, saving
<1>15. CASE Crash
  <2>1. /\ status' = "locked" /\ editing' = {} /\ waiting' = {} /\ savePc' = "idle"
        /\ UNCHANGED <<manifestCloud, editAcked, contested>>
    BY <1>15 DEF Crash, ForgetSession
  <2>. QED BY <2>1 DEF EditInv, EditDurable, saving
<1>16. CASE UNCHANGED vars
  BY <1>16, EditFrame DEF vars
<1>17. ASSUME NEW e \in Edits, EditBegin(e) PROVE EditInv'
  BY <1>17, EditSteps
<1>. QED
  BY <1>1, <1>2, <1>3, <1>4, <1>5, <1>6, <1>7, <1>8, <1>9, <1>10, <1>11, <1>12,
     <1>13, <1>14, <1>15, <1>16, <1>17, EditSteps
  DEF Next, OpenNext, StartNext, RunNext
-----------------------------------------------------------------------------
\* A step that leaves the rows and their copies alone, loses no mark and
\* enters no upload keeps the invariant of the rows.
LEMMA RowsFrame ==
  ASSUME RowsInv, UNCHANGED <<body, db, cache, remoteDb, status, torn>>,
         \A m, p : AtRisk(m, p) => AtRisk(m, p)',
         savePc' = "upload" => savePc = "upload" /\ UNCHANGED <<saveProviderId, snapshot>>,
         saving' => successfulBodyUploads' = {} \/ (saving /\ successfulBodyUploads' = successfulBodyUploads),
         saving' => dirtyDuringSave \subseteq dirtyDuringSave',
         ~saving' => dirtyDuringSave' = {},
         dirtyProviders \cup dirtyDuringSave \subseteq dirtyProviders' \cup dirtyDuringSave',
         dirtyProviders \cup dirtyDuringSave # {} /\ (debounceTimer \/ saving) =>
            debounceTimer' \/ saving'
  PROVE  RowsInv'
<1>. SUFFICES ASSUME NEW p \in Providers \ torn PROVE CopiesAt(p)' /\ ScheduledAt(p)'
  BY DEF RowsInv
<1>1. CopiesAt(p) /\ ScheduledAt(p)
  BY DEF RowsInv
<1>2. \A m : Saved(m, p) => Saved(m, p)'
  BY DEF Saved
<1>3. CopiesAt(p)'
  BY <1>1, <1>2 DEF CopiesAt
<1>4. ScheduledAt(p)'
  BY <1>1, <1>2 DEF ScheduledAt, saving
<1>. QED BY <1>3, <1>4

\* What ExposeRisk needs of the types.
LEMMA ExposeTypes ==
  ASSUME TypeOK
  PROVE  /\ exposed \in ExposedType /\ pending \in SUBSET (Mutations \X Providers)
         /\ "overlap" \in Causes /\ "recovered" \in Causes /\ "switched" \in Causes
         /\ "overwritten" \in Causes /\ "unflagged" \in Causes
  BY DEF TypeOK, ExposedType, Causes

\* Starting a save keeps it.
LEMMA RowsStart ==
  ASSUME TypeOK, RowsInv, StartSave, ~saving, UNCHANGED <<body, db, cache, remoteDb, status, torn>>,
         dirtyProviders \subseteq dirtyProviders'
  PROVE  RowsInv'
<1>1. \A m, p : AtRisk(m, p) => AtRisk(m, p)'
  BY ExposeRisk, ExposeTypes DEF StartSave
<1>2. /\ savePc' = "flush" /\ saving' /\ successfulBodyUploads' = {}
      /\ dirtyDuringSave = {} /\ dirtyDuringSave' = {}
  BY DEF StartSave, saving, RowsInv
<1>. QED BY <1>1, <1>2, RowsFrame

\* The end of a save keeps it: what was marked meanwhile is dirty again.
LEMMA RowsFinally ==
  ASSUME RowsInv, SaveFinally, UNCHANGED <<body, exposed, torn>>
  PROVE  RowsInv'
<1>1. \A m, p : AtRisk(m, p) => AtRisk(m, p)'
  BY DEF AtRisk
<1>2. /\ ~saving' /\ savePc' = "idle" /\ dirtyDuringSave' = {}
      /\ dirtyProviders' = dirtyProviders \cup dirtyDuringSave
      /\ dirtyProviders \cup dirtyDuringSave # {} => debounceTimer'
      /\ UNCHANGED <<db, cache, remoteDb, status>>
  BY DEF SaveFinally, DirtyAfterSave, saving
<1>. QED BY <1>1, <1>2, RowsFrame

\* A step of an unlock that reads nothing into the database keeps it.
LEMMA RowsUnlockFrame ==
  ASSUME RowsInv, status = "unlocking", \A m, p : AtRisk(m, p)' <=> AtRisk(m, p),
         UNCHANGED <<status, body, cache, remoteDb, torn, savePc, saveProviderId, snapshot, dirtyDuringSave, db>>
  PROVE  RowsInv'
BY DEF RowsInv, CopiesAt, ScheduledAt, Saved, saving

\* The steps of an unlock: what the cache, the WAL or a journal brings into the
\* database is in the body or counts as at risk.
LEMMA RowsUnlock ==
  ASSUME TypeOK, RowsInv
  PROVE  /\ \A online, insts, got \in SUBSET Providers : \A stored \in SUBSET got :
               UnlockLoad(online, insts, got, stored) => RowsInv'
         /\ \A p \in Providers : RecoverReplayWal(p) => RowsInv'
         /\ RecoverReplayJournal => RowsInv'
         /\ UnlockDone => RowsInv'
<1>1. ASSUME NEW online \in SUBSET Providers, NEW insts \in SUBSET Providers,
             NEW got \in SUBSET Providers, NEW stored \in SUBSET got,
             UnlockLoad(online, insts, got, stored)
      PROVE  RowsInv'
  <2>1. /\ status' = "unlocking" /\ torn \subseteq torn'
        /\ \A p \in Providers \ torn' : p \in got \/ body[p] \subseteq db'[p]
        /\ \A p \in Providers : db'[p] = body[p] \/ db'[p] = cache[p] \/ db'[p] = {}
        /\ \A p \in Providers : p \in got => db'[p] = body[p]
        /\ \A p \in Providers : cache'[p] = body[p] \/ cache'[p] = cache[p]
        /\ UNCHANGED <<body, remoteDb, savePc, saveProviderId, snapshot, dirtyDuringSave, exposed>>
    BY <1>1 DEF UnlockLoad, LoadedRows
  <2>2. \A m, p : AtRisk(m, p)' <=> AtRisk(m, p)
    BY <2>1 DEF AtRisk
  <2>3. \A m, p : Saved(m, p)' <=> Saved(m, p)
    BY <2>1, <2>2 DEF Saved
  <2>. SUFFICES ASSUME NEW p \in Providers \ torn' PROVE CopiesAt(p)' /\ ScheduledAt(p)'
    BY <2>1 DEF RowsInv, saving
  <2>4. CopiesAt(p)
    BY <2>1 DEF RowsInv
  <2>5. \A m \in body[p] : Saved(m, p)
    BY DEF Saved
  <2>6. \A m \in db'[p] \cap Local : Saved(m, p)
    BY <2>1, <2>4, <2>5 DEF CopiesAt
  <2>7. CopiesAt(p)'
    BY <2>1, <2>2, <2>3, <2>4, <2>5, <2>6 DEF CopiesAt
  <2>. QED BY <2>1, <2>7 DEF ScheduledAt
<1>2. ASSUME NEW q \in Providers, NEW rows \in SUBSET Mutations, status = "unlocking",
             UNCHANGED <<status, body, cache, remoteDb, torn, savePc, saveProviderId, snapshot, dirtyDuringSave>>,
             \A p \in Providers : db'[p] = IF p = q THEN db[p] \cup rows ELSE db[p],
             \A m, p : AtRisk(m, p) => AtRisk(m, p)',
             \A m \in rows \ body[q] : AtRisk(m, q)'
      PROVE  RowsInv'
  <2>. SUFFICES ASSUME NEW p \in Providers \ torn PROVE CopiesAt(p)' /\ ScheduledAt(p)'
    BY <1>2 DEF RowsInv, saving
  <2>1. CopiesAt(p)
    BY DEF RowsInv
  <2>2. \A m : Saved(m, p) => Saved(m, p)'
    BY <1>2 DEF Saved
  <2>3. \A m \in db'[p] : m \in db[p] \/ Saved(m, p)'
    BY <1>2 DEF Saved
  <2>4. CopiesAt(p)'
    BY <1>2, <2>1, <2>2, <2>3 DEF CopiesAt
  <2>. QED BY <1>2, <2>4 DEF ScheduledAt
<1>3. ASSUME NEW p \in Providers, RecoverReplayWal(p) PROVE RowsInv'
  <2>0. UNCHANGED <<status, body, cache, remoteDb, torn, savePc, saveProviderId, snapshot, dirtyDuringSave>>
        /\ status = "unlocking"
    BY <1>3 DEF RecoverReplayWal
  <2>1. wal[p] \in SUBSET Mutations /\ db \in Rows
    BY DEF TypeOK, Rows
  <2>2. PICK rows \in SUBSET wal[p] :
          (rows # {} => p \in dirtyFlag) /\ \A q \in Providers : db'[q] = IF q = p THEN db[q] \cup rows ELSE db[q]
    <3>1. CASE UNCHANGED db
      <4>1. {} \in SUBSET wal[p] /\ \A q \in Providers : db'[q] = IF q = p THEN db[q] \cup {} ELSE db[q]
        BY <3>1
      <4>. QED BY <4>1
    <3>2. CASE p \in dirtyFlag /\ \E read \in {wal[p], {}} : db' = [db EXCEPT ![p] = @ \cup read]
      BY <2>1, <3>2 DEF Rows
    <3>. QED BY <1>3, <3>1, <3>2 DEF RecoverReplayWal
  <2>3. PICK ts \in SUBSET (Mutations \X Providers) :
          ts = {<<m, p>> : m \in {n \in wal[p] : p \in dirtyFlag /\ n \notin body[p] \cap db'[p]}}
    <3>. DEFINE lost == {<<m, p>> : m \in {n \in wal[p] : p \in dirtyFlag /\ n \notin body[p] \cap db'[p]}}
    <3>1. lost \in SUBSET (Mutations \X Providers)
      BY <2>1
    <3>. HIDE DEF lost
    <3>2. \E ts \in SUBSET (Mutations \X Providers) : ts = lost
      BY <3>1
    <3>. QED BY <3>2 DEF lost
  <2>4. Expose("recovered", ts)
    BY <1>3, <2>3 DEF RecoverReplayWal
  <2>5. \A m, q : AtRisk(m, q)' <=> (AtRisk(m, q) \/ <<m, q>> \in ts)
    BY <2>3, <2>4, ExposeTypes DEF Expose, ExposedType, AtRisk
  <2>6. \A m \in rows \ body[p] : AtRisk(m, p)'
    BY <2>2, <2>3, <2>5
  <2>7. rows \in SUBSET Mutations
    BY <2>1, <2>2
  <2>. QED BY <1>2, <2>0, <2>2, <2>5, <2>6, <2>7
<1>4. ASSUME RecoverReplayJournal PROVE RowsInv'
  <2>0. UNCHANGED <<status, body, cache, remoteDb, torn, savePc, saveProviderId, snapshot, dirtyDuringSave>>
        /\ status = "unlocking" /\ recP \in Providers
    BY <1>4 DEF RecoverReplayJournal, TypeOK
  <2>1. PICK entries \in SUBSET Mutations : entries = Replayable(journal[recP])
    BY DEF TypeOK, Rows, Replayable
  <2>2. CASE UNCHANGED <<db, exposed>>
    <3>1. \A m, q : AtRisk(m, q)' <=> AtRisk(m, q)
      BY <2>2 DEF AtRisk
    <3>. QED BY <2>0, <2>2, <3>1, RowsUnlockFrame
  <2>3. CASE /\ db' = [db EXCEPT ![recP] = db[recP] \cup entries]
             /\ Expose("recovered", (entries \ body[recP]) \X {recP})
    <3>1. db \in Rows
      BY DEF TypeOK
    <3>2. PICK ts \in SUBSET (Mutations \X Providers) : ts = (entries \ body[recP]) \X {recP}
      BY <2>0
    <3>3. Expose("recovered", ts)
      BY <2>3, <3>2
    <3>4. \A m, q : AtRisk(m, q)' <=> (AtRisk(m, q) \/ <<m, q>> \in ts)
      BY <3>2, <3>3, ExposeTypes DEF Expose, ExposedType, AtRisk
    <3>5. \A m, q : AtRisk(m, q)' <=> AtRisk(m, q) \/ (q = recP /\ m \in entries \ body[recP])
      BY <3>2, <3>4
    <3>. QED BY <1>2, <2>0, <2>3, <3>1, <3>5 DEF Rows
  <2>. QED BY <1>4, <2>1, <2>2, <2>3 DEF RecoverReplayJournal
<1>5. ASSUME UnlockDone PROVE RowsInv'
  <2>0. /\ status = "unlocking" /\ status' = "unlocked"
        /\ UNCHANGED <<body, db, cache, remoteDb, torn, exposed, saveVars, dirtyDuringSave>>
    BY <1>5 DEF UnlockDone
  <2>. SUFFICES ASSUME NEW p \in Providers \ torn PROVE CopiesAt(p)' /\ ScheduledAt(p)'
    BY <2>0 DEF RowsInv, saving
  <2>1. CopiesAt(p)
    BY DEF RowsInv
  <2>2. \A m, q : AtRisk(m, q)' <=> AtRisk(m, q)
    BY <2>0 DEF AtRisk
  <2>3. CopiesAt(p)'
    BY <2>0, <2>1, <2>2 DEF CopiesAt, Saved
  <2>4. ScheduledAt(p)'
    BY <2>0, <2>1, <2>2 DEF CopiesAt, ScheduledAt, Saved, Local
  <2>. QED BY <2>3, <2>4
<1>. QED BY <1>1, <1>3, <1>4, <1>5

\* A mutation marks its provider, or counts as at risk.
LEMMA RowsMutate ==
  ASSUME TypeOK, FreshInv, RowsInv, NEW m \in Mutations
  PROVE  /\ MutateDirect(m) => RowsInv'
         /\ \A p \in Providers : MutateLogged(m, p) => RowsInv'
         /\ \A p \in Providers : MutateTrash(m, p) => RowsInv'
<1>1. ASSUME NEW q \in Providers, status = "unlocked",
             UNCHANGED <<status, body, cache, remoteDb, torn, savePc, saveProviderId, snapshot,
                         successfulBodyUploads>>,
             db' = [db EXCEPT ![q] = db[q] \cup {m}],
             \A n, p : AtRisk(n, p) => AtRisk(n, p)',
             dirtyProviders \subseteq dirtyProviders', dirtyDuringSave \subseteq dirtyDuringSave',
             debounceTimer => debounceTimer', ~saving => dirtyDuringSave' = dirtyDuringSave,
             \/ m \notin Logged \cup Direct
             \/ AtRisk(m, q)'
             \/ q \in dirtyProviders' /\ debounceTimer' /\ (saving => q \in dirtyDuringSave')
      PROVE  RowsInv'
  <2>. SUFFICES ASSUME NEW p \in Providers \ torn PROVE CopiesAt(p)' /\ ScheduledAt(p)'
    BY <1>1 DEF RowsInv, saving
  <2>1. CopiesAt(p) /\ ScheduledAt(p)
    BY DEF RowsInv
  <2>2. \A n : Saved(n, p) => Saved(n, p)'
    BY <1>1 DEF Saved
  <2>3. db'[p] = IF p = q THEN db[p] \cup {m} ELSE db[p]
    BY <1>1 DEF TypeOK, Rows
  <2>4. CopiesAt(p)'
    BY <1>1, <2>1, <2>2, <2>3 DEF CopiesAt
  <2>5. ScheduledAt(p)'
    <3>. SUFFICES ASSUME NEW n \in db'[p] \cap (Logged \cup Direct)
                  PROVE  /\ (savePc' = "upload" /\ p = saveProviderId') =>
                              n \in snapshot' \/ AtRisk(n, p)' \/ p \in dirtyDuringSave'
                         /\ saving' /\ p \in successfulBodyUploads' =>
                              Saved(n, p)' \/ p \in dirtyDuringSave'
                         /\ \/ Saved(n, p)'
                            \/ p \in dirtyProviders' \cup dirtyDuringSave' /\ (debounceTimer' \/ saving')
      BY DEF ScheduledAt
    <3>1. CASE n \in db[p]
      BY <1>1, <2>1, <2>2, <3>1 DEF ScheduledAt, saving
    <3>2. CASE n \notin db[p]
      <4>1. n = m /\ p = q
        BY <2>3, <3>2
      <4>2. CASE AtRisk(m, q)'
        BY <4>1, <4>2 DEF Saved
      <4>3. CASE ~AtRisk(m, q)'
        <5>1. q \in dirtyProviders' /\ debounceTimer' /\ (saving => q \in dirtyDuringSave')
          BY <1>1, <4>1, <4>3
        <5>. QED BY <1>1, <4>1, <5>1 DEF saving
      <4>. QED BY <4>2, <4>3
    <3>. QED BY <3>1, <3>2
  <2>. QED BY <2>4, <2>5
<1>2. ASSUME MutateDirect(m) PROVE RowsInv'
  <2>1. \A n, p : AtRisk(n, p) => AtRisk(n, p)'
    BY <1>2 DEF MutateDirect, AtRisk
  <2>. QED BY <1>1, <1>2, <2>1, PrimaryAssumption DEF MutateDirect, MarkDirty, saving
<1>3. ASSUME NEW p \in Providers, MutateLogged(m, p) PROVE RowsInv'
  <2>1. PICK ts \in SUBSET (Mutations \X Providers) : ts = IF p = activeProviderId THEN {} ELSE {<<m, p>>}
    <3>1. <<m, p>> \in Mutations \X Providers
      OBVIOUS
    <3>. QED BY <3>1
  <2>0. Expose("switched", ts)
    BY <1>3, <2>1 DEF MutateLogged
  <2>2. \A n, q : AtRisk(n, q)' <=> (AtRisk(n, q) \/ <<n, q>> \in ts)
    BY <2>0, <2>1, ExposeTypes DEF Expose, ExposedType, AtRisk
  <2>3. status = "unlocked"
    BY <1>3 DEF MutateLogged, Execute, FreshInv
  <2>4. /\ UNCHANGED <<status, body, cache, remoteDb, torn, saveVars>>
        /\ db' = [db EXCEPT ![p] = db[p] \cup {m}]
        /\ dirtyProviders' = dirtyProviders \cup {activeProviderId}
        /\ dirtyDuringSave' = dirtyDuringSave \cup (IF saving THEN {activeProviderId} ELSE {})
        /\ debounceTimer'
    BY <1>3 DEF MutateLogged, Execute, MarkDirty
  <2>5. p # activeProviderId => AtRisk(m, p)'
    BY <2>1, <2>2
  <2>. QED BY <1>1, <2>2, <2>3, <2>4, <2>5 DEF saving
<1>4. ASSUME NEW p \in Providers, MutateTrash(m, p) PROVE RowsInv'
  <2>1. \A n, q : AtRisk(n, q) => AtRisk(n, q)'
    BY <1>4 DEF MutateTrash, AtRisk
  <2>2. status = "unlocked" /\ m \notin Logged \cup Direct
    BY <1>4, KindAssumption DEF MutateTrash, Execute, FreshInv
  <2>3. /\ UNCHANGED <<status, body, cache, remoteDb, torn, saveVars, dirtyVars>>
        /\ db' = [db EXCEPT ![p] = db[p] \cup {m}]
    BY <1>4 DEF MutateTrash, Execute
  <2>. QED BY <1>1, <2>1, <2>2, <2>3 DEF saving
<1>. QED BY <1>2, <1>3, <1>4

\* A body upload lands, answered or not: the copy holds the rows of the body,
\* and what the database has beyond the copy was marked since it was made.
LEMMA RowsBodyLands ==
  ASSUME TypeOK, RowsInv, BodyLands,
         UNCHANGED <<db, remoteDb, status>>, savePc' \in {"idle", "bodies"},
         cache' = cache \/ cache' = [cache EXCEPT ![saveProviderId] = snapshot],
         dirtyProviders \cup dirtyDuringSave = dirtyProviders' \cup dirtyDuringSave',
         saving' => /\ dirtyDuringSave' = dirtyDuringSave
                    /\ successfulBodyUploads' = successfulBodyUploads \cup {saveProviderId},
         ~saving' => /\ dirtyDuringSave' = {}
                     /\ dirtyProviders \cup dirtyDuringSave # {} => debounceTimer'
  PROVE  RowsInv'
<1>0. /\ saving /\ savePc = "upload" /\ savePc' # "upload" /\ saveProviderId \in Providers
      /\ torn \subseteq torn'
      /\ status # "locked" /\ saveProviderId \notin torn' => snapshot \subseteq db[saveProviderId]
  BY DEF BodyLands, saving, TypeOK
<1>1. PICK q \in Providers : q = saveProviderId
  BY <1>0
<1>2. \A p \in Providers : body'[p] = IF p = q THEN snapshot ELSE body[p]
  BY <1>1 DEF BodyLands, TypeOK, Rows
<1>3. \A m, p : /\ AtRisk(m, p)' => AtRisk(m, p)
                /\ AtRisk(m, p) => AtRisk(m, p)' \/ (p = q /\ m \in snapshot)
  BY <1>1 DEF BodyLands, AtRisk
<1>. SUFFICES ASSUME NEW p \in Providers \ torn' PROVE CopiesAt(p)' /\ ScheduledAt(p)'
  BY <1>0 DEF RowsInv
<1>4. CopiesAt(p) /\ ScheduledAt(p)
  BY <1>0 DEF RowsInv
<1>5. \A m \in Local : Saved(m, p) => Saved(m, p)'
  <2>1. CASE p = q
    BY <1>0, <1>1, <1>2, <1>3, <1>4, <2>1 DEF CopiesAt, Saved
  <2>2. CASE p # q
    BY <1>2, <1>3, <2>2 DEF Saved
  <2>. QED BY <2>1, <2>2
<1>6. \A m \in snapshot : p = q => Saved(m, p)'
  BY <1>2 DEF Saved
<1>7. CopiesAt(p)'
  <2>1. cache'[p] = cache[p] \/ (p = q /\ cache'[p] = snapshot)
    BY <1>1 DEF TypeOK, Rows
  <2>2. \A m \in (cache'[p] \cup remoteDb'[p]) \cap Local : Saved(m, p)'
    BY <1>4, <1>5, <1>6, <2>1 DEF CopiesAt
  <2>3. status # "locked" => \A m \in body'[p] \cap Local : m \in db[p] \/ AtRisk(m, p)'
    <3>1. CASE p = q
      BY <1>0, <1>1, <1>2, <3>1
    <3>2. CASE p # q
      BY <1>2, <1>3, <1>4, <3>2 DEF CopiesAt
    <3>. QED BY <3>1, <3>2
  <2>4. status = "unlocking" => \A m \in db[p] \cap Local : Saved(m, p)'
    BY <1>4, <1>5 DEF CopiesAt
  <2>. QED BY <2>2, <2>3, <2>4 DEF CopiesAt
<1>8. ScheduledAt(p)'
  <2>. SUFFICES ASSUME status = "unlocked", NEW m \in db[p] \cap (Logged \cup Direct)
                PROVE  /\ p \in successfulBodyUploads \cup {q} =>
                            Saved(m, p)' \/ p \in dirtyDuringSave
                       /\ Saved(m, p)' \/ p \in dirtyProviders \cup dirtyDuringSave
    BY <1>0, <1>1 DEF ScheduledAt
  <2>1. m \in Local
    BY DEF Local
  <2>2. Saved(m, p)' \/ p \in dirtyProviders \cup dirtyDuringSave
    BY <1>4, <1>5, <2>1 DEF ScheduledAt
  <2>3. CASE p = q
    BY <1>0, <1>1, <1>3, <1>4, <1>6, <2>2, <2>3 DEF ScheduledAt, Saved
  <2>4. CASE p # q
    BY <1>0, <1>1, <1>4, <1>5, <2>1, <2>2, <2>4 DEF ScheduledAt
  <2>. QED BY <2>3, <2>4
<1>. QED BY <1>7, <1>8

\* The other device: what it overwrites counts as at risk, and what it brings
\* back was in the body when it opened the vault.
LEMMA RowsRemote ==
  ASSUME TypeOK, RowsInv, NEW q \in Providers
  PROVE  /\ RemoteUnlock(q) => RowsInv'
         /\ \A m \in Mutations : RemoteSave(m, q) => RowsInv'
<1>1. ASSUME RemoteUnlock(q) PROVE RowsInv'
  <2>1. /\ UNCHANGED <<body, cache, db, status, torn, exposed, saveVars, dirtyVars>>
        /\ \A p \in Providers : remoteDb'[p] = remoteDb[p] \/ remoteDb'[p] = body[p]
    BY <1>1 DEF RemoteUnlock, TypeOK, Rows
  <2>2. \A m, p : AtRisk(m, p)' <=> AtRisk(m, p)
    BY <2>1 DEF AtRisk
  <2>. SUFFICES ASSUME NEW p \in Providers \ torn PROVE CopiesAt(p)' /\ ScheduledAt(p)'
    BY <2>1 DEF RowsInv, saving
  <2>3. CopiesAt(p) /\ ScheduledAt(p)
    BY DEF RowsInv
  <2>. QED BY <2>1, <2>2, <2>3 DEF CopiesAt, ScheduledAt, Saved, saving
<1>2. ASSUME NEW m \in Mutations, RemoteSave(m, q) PROVE RowsInv'
  <2>1. /\ UNCHANGED <<cache, db, status, torn, saveVars, dirtyVars>>
        /\ \A p \in Providers : remoteDb'[p] = IF p = q THEN remoteDb[p] \cup {m} ELSE remoteDb[p]
        /\ \A p \in Providers : body'[p] = IF p = q THEN remoteDb'[p] ELSE body[p]
        /\ m \in Remote /\ m \notin Local
    BY <1>2, KindAssumption DEF RemoteSave, TypeOK, Rows
  <2>2. PICK ts \in SUBSET (Mutations \X Providers) : ts = (body[q] \ body'[q]) \X {q}
    BY DEF TypeOK, Rows
  <2>3. Expose("overwritten", ts)
    BY <1>2, <2>2 DEF RemoteSave
  <2>4. \A n, p : AtRisk(n, p)' <=> (AtRisk(n, p) \/ <<n, p>> \in ts)
    BY <2>2, <2>3, ExposeTypes DEF Expose, ExposedType, AtRisk
  <2>5. /\ \A n, p : AtRisk(n, p) => AtRisk(n, p)'
        /\ \A n \in body[q] : n \in body'[q] \/ AtRisk(n, q)'
    BY <2>2, <2>4
  <2>. SUFFICES ASSUME NEW p \in Providers \ torn PROVE CopiesAt(p)' /\ ScheduledAt(p)'
    BY <2>1 DEF RowsInv, saving
  <2>6. CopiesAt(p) /\ ScheduledAt(p)
    BY DEF RowsInv
  <2>7. \A n : Saved(n, p) => Saved(n, p)'
    BY <2>1, <2>5 DEF Saved
  <2>8. \A n \in body'[p] \cap Local : Saved(n, p)
    BY <2>1, <2>6 DEF CopiesAt, Saved
  <2>9. CopiesAt(p)'
    <3>1. \A n \in (cache'[p] \cup remoteDb'[p]) \cap Local : Saved(n, p)'
      BY <2>1, <2>6, <2>7 DEF CopiesAt
    <3>2. status # "locked" => \A n \in body'[p] \cap Local : n \in db[p] \/ AtRisk(n, p)'
      BY <2>5, <2>6, <2>8 DEF CopiesAt, Saved
    <3>3. savePc = "upload" /\ p = saveProviderId =>
            \A n \in body'[p] \cap Local : n \in snapshot \/ AtRisk(n, p)'
      BY <2>5, <2>6, <2>8 DEF CopiesAt, Saved
    <3>. QED BY <2>1, <2>6, <2>7, <3>1, <3>2, <3>3 DEF CopiesAt
  <2>10. ScheduledAt(p)'
    BY <2>1, <2>5, <2>6, <2>7 DEF ScheduledAt, saving
  <2>. QED BY <2>9, <2>10
<1>. QED BY <1>1, <1>2

\* Copying the rows, and dropping the mark of what was saved.
LEMMA RowsSave ==
  ASSUME TypeOK, SaveInv, RowsInv
  PROVE  /\ \A p \in Providers : SaveCopyRows(p) => RowsInv'
         /\ CommitJournal => RowsInv'
<1>1. ASSUME NEW q \in Providers, SaveCopyRows(q) PROVE RowsInv'
  <2>1. /\ UNCHANGED <<body, cache, remoteDb, db, status, torn, exposed, dirtyVars, successfulBodyUploads>>
        /\ saving /\ saving' /\ status = "unlocked"
        /\ savePc' = "upload" => saveProviderId' = q /\ snapshot' = db[q]
    BY <1>1 DEF SaveCopyRows, ProviderRows, saving
  <2>2. \A m, p : AtRisk(m, p)' <=> AtRisk(m, p)
    BY <2>1 DEF AtRisk
  <2>. SUFFICES ASSUME NEW p \in Providers \ torn PROVE CopiesAt(p)' /\ ScheduledAt(p)'
    BY <2>1 DEF RowsInv
  <2>3. CopiesAt(p) /\ ScheduledAt(p)
    BY DEF RowsInv
  <2>. QED BY <2>1, <2>2, <2>3 DEF CopiesAt, ScheduledAt, Saved
<1>2. ASSUME CommitJournal PROVE RowsInv'
  <2>1. /\ UNCHANGED <<body, cache, remoteDb, db, status, torn, exposed, dirtyDuringSave, debounceTimer,
                       successfulBodyUploads, saveProviderId, snapshot>>
        /\ saving /\ saving' /\ savePc' = "clearWal" /\ saveProviderId \in successfulBodyUploads
        /\ dirtyProviders' = dirtyProviders \ {saveProviderId}
    BY <1>2 DEF CommitJournal, saving, SaveInv
  <2>2. \A m, p : AtRisk(m, p)' <=> AtRisk(m, p)
    BY <2>1 DEF AtRisk
  <2>. SUFFICES ASSUME NEW p \in Providers \ torn PROVE CopiesAt(p)' /\ ScheduledAt(p)'
    BY <2>1 DEF RowsInv
  <2>3. CopiesAt(p) /\ ScheduledAt(p)
    BY DEF RowsInv
  <2>. QED BY <2>1, <2>2, <2>3 DEF CopiesAt, ScheduledAt, Saved
<1>. QED BY <1>1, <1>2

\* The end of a session.
LEMMA RowsForget ==
  ASSUME RowsInv, ForgetSession, \A m, p : AtRisk(m, p) => AtRisk(m, p)',
         savePc' = "idle" \/ UNCHANGED <<savePc, saveProviderId, snapshot>>
  PROVE  RowsInv'
<1>1. /\ status' = "locked" /\ dirtyDuringSave' = {}
      /\ UNCHANGED <<body, cache, remoteDb, torn>>
  BY DEF ForgetSession
<1>. SUFFICES ASSUME NEW p \in Providers \ torn PROVE CopiesAt(p)' /\ ScheduledAt(p)'
  BY <1>1 DEF RowsInv
<1>2. CopiesAt(p)
  BY DEF RowsInv
<1>3. CopiesAt(p)'
  BY <1>1, <1>2 DEF CopiesAt, Saved
<1>. QED BY <1>1, <1>3 DEF ScheduledAt

\* Every step keeps the invariant of the rows.
LEMMA RowsStep == DurabilityInv /\ RowsInv /\ [Next]_vars => RowsInv'
<1>. SUFFICES ASSUME DurabilityInv, RowsInv, [Next]_vars PROVE RowsInv'
  OBVIOUS
<1>0. TypeOK /\ FreshInv /\ SaveInv
  BY DEF DurabilityInv
<1>f. ASSUME UNCHANGED <<body, db, cache, remoteDb, status, torn, dirtyVars>>,
             exposed' = exposed,
             savePc' = "upload" => savePc = "upload" /\ UNCHANGED <<saveProviderId, snapshot>>,
             saving' <=> saving, successfulBodyUploads' = successfulBodyUploads
      PROVE  RowsInv'
  <2>1. \A m, p : AtRisk(m, p) => AtRisk(m, p)'
    BY <1>f DEF AtRisk
  <2>2. ~saving => dirtyDuringSave = {}
    BY DEF RowsInv
  <2>. QED BY <1>f, <2>1, <2>2, RowsFrame
<1>1. CASE UnlockContended \/ UnlockFail
  BY <1>1, <1>f DEF UnlockContended, UnlockFail, UnlockThrows, saving
<1>2. ASSUME NEW online \in SUBSET Providers, NEW insts \in SUBSET Providers,
             NEW got \in SUBSET Providers, UnlockNoKeys(online, insts, got)
      PROVE  RowsInv'
  BY <1>2, <1>f DEF UnlockNoKeys, UnlockThrows, saving
<1>3. ASSUME NEW p \in Providers, Reconnect(p) \/ SetActiveProviderId(p) \/ FlagLands(p)
                                  \/ SaveFlush(p) \/ CommitClearWal(p)
      PROVE  RowsInv'
  BY <1>3, <1>f DEF Reconnect, SetActiveProviderId, FlagLands, SaveFlush, CommitClearWal, saving
<1>4. CASE RecoverClearWal \/ RecoverClearFlag \/ BeforeUnload
  BY <1>4, <1>f DEF RecoverClearWal, RecoverClearFlag, BeforeUnload, saving
<1>5. CASE SavePlan \/ SaveBuildManifest \/ CommitClearFlag
  BY <1>5, <1>f DEF SavePlan, SaveBuildManifest, CommitClearFlag, saving
<1>6. ASSUME NEW up \in SUBSET Providers, SaveUploadManifest(up) PROVE RowsInv'
  BY <1>6, <1>f DEF SaveUploadManifest, saving
<1>7. ASSUME NEW m \in Mutations, NEW p \in Providers, MutateFail(m, p) \/ RemoteFlush(m, p)
      PROVE  RowsInv'
  BY <1>7, <1>f DEF MutateFail, RemoteFlush, saving
<1>8. ASSUME NEW e \in Edits, EditBegin(e) PROVE RowsInv'
  BY <1>8, <1>f DEF EditBegin, saving
<1>9. ASSUME NEW m \in Mutations, OnMutate(m) PROVE RowsInv'
  <2>1. /\ UNCHANGED <<body, db, cache, remoteDb, status, torn, dirtyVars, saveVars>>
        /\ \A d \in Causes : exposed[d] \subseteq exposed'[d]
    BY <1>0, <1>9 DEF OnMutate, TypeOK, Causes
  <2>2. \A n, p : AtRisk(n, p) => AtRisk(n, p)'
    BY <2>1 DEF AtRisk
  <2>3. ~saving => dirtyDuringSave = {}
    BY DEF RowsInv
  <2>. QED BY <2>1, <2>2, <2>3, RowsFrame DEF saving
<1>10. CASE TimerFires
  <2>1. CASE saving
    <3>1. /\ UNCHANGED <<body, db, cache, remoteDb, status, torn, dirtyProviders, dirtyDuringSave, saveVars>>
          /\ exposed' = exposed
      BY <1>10, <2>1 DEF TimerFires
    <3>2. \A n, p : AtRisk(n, p) => AtRisk(n, p)'
      BY <3>1 DEF AtRisk
    <3>. QED BY <2>1, <3>1, <3>2, RowsFrame DEF saving
  <2>2. CASE ~saving
    BY <1>0, <1>10, <2>2, RowsStart DEF TimerFires
  <2>. QED BY <2>1, <2>2
<1>11. ASSUME NEW e, NEW base, EditManifest(e, base) PROVE RowsInv'
  <2>1. CASE saving
    <3>1. /\ UNCHANGED <<body, db, cache, remoteDb, status, torn, saveVars>>
          /\ exposed' = exposed /\ dirtyProviders \subseteq dirtyProviders'
          /\ dirtyDuringSave \subseteq dirtyDuringSave'
      BY <1>11, <2>1 DEF EditManifest
    <3>2. \A n, p : AtRisk(n, p) => AtRisk(n, p)'
      BY <3>1 DEF AtRisk
    <3>. QED BY <2>1, <3>1, <3>2, RowsFrame DEF saving
  <2>2. CASE ~saving
    BY <1>0, <1>11, <2>2, RowsStart DEF EditManifest
  <2>. QED BY <2>1, <2>2
<1>12. ASSUME NEW stored \in BOOLEAN, SaveUploadBody(stored) PROVE RowsInv'
  BY <1>0, <1>12, RowsBodyLands DEF SaveUploadBody, saving
<1>13. CASE SaveUploadUnconfirmed
  BY <1>0, <1>13, RowsBodyLands DEF SaveUploadUnconfirmed, SaveFinally, DirtyAfterSave, saving
<1>14. CASE SaveDone \/ SaveThrow
  BY <1>14, RowsFinally DEF SaveDone, SaveThrow
<1>15. ASSUME NEW landed \in SUBSET Providers, NEW up \in SUBSET landed,
              SaveManifestFails(up, landed)
       PROVE  RowsInv'
  BY <1>15, RowsFinally DEF SaveManifestFails
<1>16. CASE LockVault
  <2>1. \A m, p : AtRisk(m, p) => AtRisk(m, p)'
    BY <1>16 DEF LockVault, AtRisk
  <2>. QED BY <1>16, <2>1, RowsForget DEF LockVault
<1>17. CASE Crash
  <2>1. \A d \in Causes : exposed[d] \subseteq exposed'[d]
    BY <1>0, <1>17 DEF Crash, Expose, TypeOK
  <2>2. \A m, p : AtRisk(m, p) => AtRisk(m, p)'
    BY <2>1 DEF AtRisk
  <2>. QED BY <1>17, <2>2, RowsForget DEF Crash
<1>18. CASE UNCHANGED vars
  BY <1>18, <1>f DEF vars, saving
<1>. QED
  BY <1>0, <1>1, <1>2, <1>3, <1>4, <1>5, <1>6, <1>7, <1>8, <1>9, <1>10, <1>11, <1>12,
     <1>13, <1>14, <1>15, <1>16, <1>17, <1>18, RowsUnlock, RowsMutate, RowsRemote, RowsSave
  DEF Next, OpenNext, StartNext, RunNext

\* The invariant of the rows holds in every reachable state.
LEMMA RowsInvariant == Spec => []RowsInv
<1>1. Init => RowsInv
  BY DEF Init, NoRows, RowsInv, CopiesAt, ScheduledAt, saving
<1>2. DurabilityInv /\ RowsInv /\ [Next]_vars => RowsInv'
  BY RowsStep
<1>. QED
  BY <1>1, <1>2, DurabilityInvariant, PTL DEF Spec
-----------------------------------------------------------------------------
\* A row the tab holds and the cloud does not is always about to be saved,
\* whatever saves fail, sessions end under a save or devices interfere: no
\* interleaving of markDirty with the finally block of saveVault loses a mark.
THEOREM UnsavedScheduled == Spec => []UnsavedIsScheduled
<1>1. RowsInv => UnsavedIsScheduled
  BY DEF RowsInv, ScheduledAt, Saved, UnsavedIsScheduled
<1>. QED
  BY <1>1, RowsInvariant, PTL

\* No save of this tab, not even one that lands under a later session, takes a
\* row of this tab out of a body (unlockVault loads what saveVault overwrites).
THEOREM BodiesKeepRows == Spec => BodyKeepsRows
<1>. DEFINE RowsKept == \A p \in Providers \ torn' : \A m \in body[p] \cap Local :
                        m \in body'[p] \/ AtRisk(m, p)'
<1>1. TypeOK /\ RowsInv /\ [Next]_vars => [RowsKept]_vars
  <2>. SUFFICES ASSUME TypeOK, RowsInv, Next PROVE RowsKept
    BY DEF RowsKept
  <2>1. CASE body' = body
    BY <2>1
  <2>2. CASE BodyLands
    <3>1. PICK q \in Providers : q = saveProviderId
      BY DEF TypeOK
    <3>2. /\ \A p \in Providers : body'[p] = IF p = q THEN snapshot ELSE body[p]
          /\ savePc = "upload" /\ torn \subseteq torn'
      BY <2>2, <3>1 DEF BodyLands, TypeOK, Rows
    <3>3. \A m, p : AtRisk(m, p) => AtRisk(m, p)' \/ (p = q /\ m \in snapshot)
      BY <2>2, <3>1 DEF BodyLands, AtRisk
    <3>. QED BY <3>1, <3>2, <3>3 DEF RowsInv, CopiesAt
  <2>3. ASSUME NEW m \in Mutations, NEW q \in Providers, RemoteSave(m, q) PROVE RowsKept
    <3>1. PICK ts \in SUBSET (Mutations \X Providers) : ts = (body[q] \ body'[q]) \X {q}
      BY DEF TypeOK, Rows
    <3>2. Expose("overwritten", ts) /\ \A p \in Providers : p # q => body'[p] = body[p]
      BY <2>3, <3>1 DEF RemoteSave, TypeOK, Rows
    <3>3. \A n, p : AtRisk(n, p)' <=> (AtRisk(n, p) \/ <<n, p>> \in ts)
      BY <3>1, <3>2, ExposeTypes DEF Expose, ExposedType, AtRisk
    <3>. QED BY <3>1, <3>2, <3>3
  <2>4. \/ body' = body \/ BodyLands
        \/ \E m \in Mutations, q \in Providers : RemoteSave(m, q)
    <3>1. OpenNext => body' = body
      BY DEF OpenNext, UnlockContended, UnlockFail, UnlockThrows, UnlockNoKeys, UnlockLoad
    <3>2. StartNext => \/ body' = body
                       \/ \E m \in Mutations, q \in Providers : RemoteSave(m, q)
      BY DEF StartNext, OnMutate, MutateDirect, EditBegin, RemoteUnlock, RemoteFlush
    <3>3. (\E p \in Providers : RecoverReplayWal(p)) \/ RecoverClearWal \/ RecoverClearFlag
          \/ RecoverReplayJournal \/ UnlockDone => body' = body
      BY DEF RecoverReplayWal, RecoverClearWal, RecoverClearFlag, RecoverReplayJournal, UnlockDone
    <3>4. ASSUME NEW p \in Providers, \/ Reconnect(p) \/ SetActiveProviderId(p) \/ FlagLands(p)
                                      \/ SaveFlush(p) \/ SaveCopyRows(p) \/ CommitClearWal(p)
          PROVE  body' = body
      BY <3>4 DEF Reconnect, SetActiveProviderId, FlagLands, SaveFlush, SaveCopyRows, CommitClearWal
    <3>5. ASSUME NEW m \in Mutations, NEW p \in Providers,
                 MutateLogged(m, p) \/ MutateTrash(m, p) \/ MutateFail(m, p)
          PROVE  body' = body
      BY <3>5 DEF MutateLogged, MutateTrash, MutateFail, Execute
    <3>6. ASSUME NEW e, NEW base, EditManifest(e, base) PROVE body' = body
      BY <3>6 DEF EditManifest
    <3>7. TimerFires \/ SavePlan \/ SaveBuildManifest \/ CommitClearFlag \/ CommitJournal
          \/ SaveDone \/ SaveThrow \/ LockVault \/ BeforeUnload \/ Crash => body' = body
      BY DEF TimerFires, SavePlan, SaveBuildManifest, CommitClearFlag, CommitJournal, SaveDone,
             SaveThrow, LockVault, BeforeUnload, Crash, ForgetSession
    <3>8. ASSUME NEW up, SaveUploadManifest(up) PROVE body' = body
      BY <3>8 DEF SaveUploadManifest
    <3>9. ASSUME NEW up, NEW landed, SaveManifestFails(up, landed) PROVE body' = body
      BY <3>9 DEF SaveManifestFails
    <3>10. SaveUploadUnconfirmed \/ (\E stored \in BOOLEAN : SaveUploadBody(stored)) => BodyLands
      BY DEF SaveUploadUnconfirmed, SaveUploadBody
    <3>. QED BY <3>1, <3>2, <3>3, <3>4, <3>5, <3>6, <3>7, <3>8, <3>9, <3>10 DEF Next, RunNext
  <2>. QED BY <2>1, <2>2, <2>3, <2>4
<1>. QED
  BY <1>1, TypeCorrect, RowsInvariant, PTL DEF Spec, BodyKeepsRows

\* A manifest edit whose call returned is in the primary's vault_manifest.sc:
\* every copy that a save, also one of an earlier session, can still upload
\* holds it (the copy of _manifest an edit starts from, phase 4 of _doSave).
THEOREM EditsDurable == Spec => []EditDurable
<1>1. Init => EditInv
  BY DEF Init, EditInv, EditDurable, Promised, saving
<1>2. TypeOK /\ EditInv /\ [Next]_vars => EditInv'
  BY EditStep
<1>3. EditInv => EditDurable
  BY DEF EditInv
<1>. QED
  BY <1>1, <1>2, <1>3, TypeCorrect, PTL DEF Spec
=============================================================================
