--------------------------- MODULE VaultLifecycle ---------------------------
(***************************************************************************)
(* The save, crash-recovery and lock engine of one browser tab             *)
(* (frontend/src/lib/byo/VaultLifecycle.ts) with the parts it is built on: *)
(* the IndexedDB write-ahead log (IndexedDBWal.ts, DeviceKeyStore.ts), the *)
(* cloud journal (VaultJournal.ts), the mutation helper of                 *)
(* ByoDataProvider.ts and the unlock and save plans (multi_vault.rs).      *)
(*                                                                         *)
(* A database, a vault body, a WAL and a journal are each the set of the   *)
(* mutations whose effect they hold; a manifest is the set of the edits it *)
(* holds.  JavaScript runs one callback at a time, so an action is the     *)
(* code between two awaits.  Calls to a storage provider may fail, and an  *)
(* upload may land although its answer is lost.  IndexedDB commits its     *)
(* transactions in the order they were issued; a write nobody awaits is    *)
(* lost when the tab dies first.                                           *)
(***************************************************************************)
EXTENDS Naturals, FiniteSets

CONSTANTS
    Providers,      \* active provider_ids of the manifest
    Primary,        \* the primary one
    Logged,         \* mutations made through onMutate() and markDirty()
    Trash,          \* mutations of TrashManager: onMutate(), no markDirty()
    Direct,         \* vault_meta writes: db.run() and markDirty() only
    Remote,         \* mutations that another device saves or journals
    Deletes,        \* the mutations whose journal entry is of type DELETE
    Edits,          \* manifest edits (rename, config change, ...)
    MaxSessions     \* bound on the number of unlock attempts

Local == Logged \cup Trash \cup Direct
Mutations == Local \cup Remote

ASSUME PrimaryAssumption == Primary \in Providers
ASSUME KindAssumption ==
    /\ Logged \cap Trash = {}
    /\ (Logged \cup Trash) \cap Direct = {}
    /\ Local \cap Remote = {}
    /\ Deletes \subseteq Mutations
ASSUME SessionAssumption == MaxSessions \in Nat

VARIABLES
    \* Cloud storage of each provider.
    body,             \* vault_<p>.sc
    journal,          \* vault_journal_<p>.j, {} when there is no such file
    manifestCloud,    \* the copy of vault_manifest.sc
    \* IndexedDB of this browser.
    wal,              \* WAL entries under vault_id:p
    dirtyFlag,        \* providers whose dirty flag is set
    flagWrites,       \* setDirtyFlag(p, true) issued, not yet committed
    cached, cache,    \* providers with a cached body, and the bodies
    \* Module state of the tab.
    vaultLock,        \* the navigator.locks lock is held by this tab
    status,           \* "locked", "unlocking", "unlocked"
    sessions,         \* unlock attempts so far
    lastUnlock,       \* how the last attempt ended
    db,               \* _db, the rows of each provider
    manifest,         \* the edits in _manifest
    providers, walKeys, journals,   \* keys of the maps of these names
    buffer,           \* in-memory entries of each VaultJournal
    activeProviderId, \* the provider tab the user looks at
    dirtyProviders, dirtyDuringSave,
    debounceTimer,    \* a debounced save is armed
    issued,           \* mutations that were started, edits included
    pending,          \* <<m, p>>: in onMutate(), the WAL entry committed
    editing,          \* <<e, base>>: an edit of the manifest base under way
    \* The save coroutine (_savePromise # null iff savePc # "idle").
    savePc, saveQ, saveProviderId, snapshot, successfulBodyUploads,
    updatedManifest,
    \* The per-provider loop of unlockVault().
    recPc, recQ, recP,
    \* Another device with the same vault.
    remoteDb,
    \* History: what the user was told, and what put a mutation at risk.
    acked,            \* mutations whose call returned, per provider
    exposed,          \* <<m, p>> at risk, by cause, until a body holds them
    torn,             \* providers opened without all they had stored
    waiting,          \* edits whose call awaits the save in flight
    editAcked,        \* edits whose call returned
    contested         \* edits that met another edit, a save or a lock

cloud == <<body, journal, manifestCloud>>
idb == <<wal, dirtyFlag, flagWrites, cached, cache>>
lockVars == <<vaultLock, status, sessions, lastUnlock>>
handles == <<providers, walKeys, journals>>
memory == <<db, manifest, handles, buffer, activeProviderId>>
dirtyVars == <<dirtyProviders, dirtyDuringSave, debounceTimer>>
userVars == <<issued, pending, editing>>
saveVars == <<savePc, saveQ, saveProviderId, snapshot, successfulBodyUploads,
              updatedManifest>>
recVars == <<recPc, recQ, recP>>
rowGhosts == <<acked, exposed, torn>>
editGhosts == <<waiting, editAcked, contested>>
ghosts == <<rowGhosts, editGhosts>>
vars == <<cloud, idb, lockVars, memory, dirtyVars, userVars, saveVars, recVars,
          remoteDb, ghosts>>

Rows == [Providers -> SUBSET Mutations]
NoRows == [p \in Providers |-> {}]
Causes == {"overlap", "recovered", "unlogged", "unflagged", "switched",
           "overwritten"}

TypeOK ==
    /\ body \in Rows /\ journal \in Rows
    /\ manifestCloud \in [Providers -> SUBSET Edits]
    /\ wal \in Rows /\ cache \in Rows
    /\ {dirtyFlag, flagWrites, cached} \subseteq SUBSET Providers
    /\ {vaultLock, debounceTimer} \subseteq BOOLEAN
    /\ status \in {"locked", "unlocking", "unlocked"}
    /\ sessions \in 0..MaxSessions
    /\ lastUnlock \in {"none", "ok", "failed", "noKeys", "contended"}
    /\ db \in Rows /\ buffer \in Rows /\ manifest \in SUBSET Edits
    /\ providers \in SUBSET Providers /\ walKeys \in SUBSET Providers
    /\ journals \in SUBSET (providers \cap walKeys)
    /\ activeProviderId \in Providers
    /\ dirtyProviders \in SUBSET Providers
    /\ dirtyDuringSave \in SUBSET Providers
    /\ issued \in SUBSET (Mutations \cup Edits)
    /\ pending \in SUBSET (Mutations \X Providers)
    /\ editing \in SUBSET (Edits \X SUBSET Edits)
    /\ savePc \in {"idle", "flush", "bodies", "upload", "manifest",
                   "clearWal", "clearFlag", "commit"}
    /\ saveQ \in SUBSET Providers /\ saveProviderId \in Providers
    /\ snapshot \in SUBSET Mutations /\ updatedManifest \in SUBSET Edits
    /\ successfulBodyUploads \in SUBSET Providers
    /\ recPc \in {"next", "clearWal", "clearFlag", "journal"}
    /\ recQ \in SUBSET Providers /\ recP \in Providers
    /\ remoteDb \in Rows
    /\ acked \in Rows /\ exposed \in [Causes -> SUBSET (Mutations \X Providers)]
    /\ torn \in SUBSET Providers
    /\ {waiting, editAcked, contested} \subseteq SUBSET Edits

\* A new vault: empty bodies, an empty IndexedDB, a locked tab.
Init ==
    /\ body = NoRows /\ journal = NoRows
    /\ manifestCloud = [p \in Providers |-> {}]
    /\ wal = NoRows /\ dirtyFlag = {} /\ flagWrites = {}
    /\ cached = {} /\ cache = NoRows
    /\ vaultLock = FALSE /\ status = "locked"
    /\ sessions = 0 /\ lastUnlock = "none"
    /\ db = NoRows /\ buffer = NoRows /\ manifest = {}
    /\ providers = {} /\ walKeys = {} /\ journals = {}
    /\ activeProviderId = Primary
    /\ dirtyProviders = {} /\ dirtyDuringSave = {} /\ debounceTimer = FALSE
    /\ issued = {} /\ pending = {} /\ editing = {}
    /\ savePc = "idle" /\ saveQ = {} /\ saveProviderId = Primary
    /\ snapshot = {} /\ successfulBodyUploads = {} /\ updatedManifest = {}
    /\ recPc = "next" /\ recQ = {} /\ recP = Primary
    /\ remoteDb = NoRows
    /\ acked = NoRows /\ exposed = [c \in Causes |-> {}] /\ torn = {}
    /\ waiting = {} /\ editAcked = {} /\ contested = {}

saving == savePc # "idle"

Expose(cause, ts) == exposed' = [exposed EXCEPT ![cause] = @ \cup ts]
-----------------------------------------------------------------------------
(***************************************************************************)
(* unlockVault().                                                          *)
(***************************************************************************)

\* The lock request is refused after its retries: someone holds the lock.
UnlockContended ==
    /\ status = "locked" /\ sessions < MaxSessions
    /\ vaultLock
    /\ sessions' = sessions + 1
    /\ lastUnlock' = "contended"
    /\ UNCHANGED <<vaultLock, status, cloud, idb, memory, dirtyVars, userVars,
                   saveVars, recVars, remoteDb, ghosts>>

\* The lock is granted and then a step throws.  Nothing releases the lock.
UnlockThrows(reason) ==
    /\ status = "locked" /\ sessions < MaxSessions
    /\ ~vaultLock
    /\ sessions' = sessions + 1
    /\ vaultLock' = TRUE
    /\ lastUnlock' = reason
    /\ UNCHANGED <<status, cloud, idb, memory, dirtyVars, userVars, saveVars,
                   recVars, remoteDb, ghosts>>

\* A wrong passphrase, a bad header HMAC, no device key or slot.
UnlockFail == UnlockThrows("failed")

\* The cached bodies that unlockVault() reports to the plan: secondaries only.
CachedProviderIds(online) == (cached \ {Primary}) \ online

\* UnlockPlan::build: a provider that is neither online nor cached has no step.
PlanUnlock(online) == online \cup CachedProviderIds(online)

\* The cached body stands in when a Cloud step has an instance whose download
\* fails, and in a Cache step.
UsesCache(p, online, insts, got) ==
    /\ p \in PlanUnlock(online) \ got
    /\ p \in cached
    /\ p \in online => p \in insts

\* Mutant: a cached body is preferred to a download.
LoadedRowsCacheFirst(online, insts, got) ==
    [p \in Providers |->
        IF p \in cached THEN cache[p] ELSE IF p \in got THEN body[p] ELSE {}]

\* Rows that mergeProviderDb() puts in the master database.
LoadedRows(online, insts, got) ==
    [p \in Providers |->
        IF p \in got THEN body[p]
        ELSE IF UsesCache(p, online, insts, got) THEN cache[p]
        ELSE {}]

\* key_versions comes from the primary's body.
KeysLoaded(online, insts, got) ==
    Primary \in got \/ UsesCache(Primary, online, insts, got)

\* online are the providers whose manifest was read, insts the ones that could
\* be initialised, got the bodies that were downloaded.  The caller's instance
\* of the primary is always there.
Reachable(online, insts, got) ==
    /\ Primary \in insts
    /\ got \subseteq online \cap insts

\* No key version is found in the merged database, or there is no plan step at
\* all (a vault whose primary was never read has no manifest to start from).
UnlockNoKeys(online, insts, got) ==
    /\ Reachable(online, insts, got)
    /\ Primary \in online \cup cached
    /\ ~KeysLoaded(online, insts, got)
    /\ UnlockThrows("noKeys")

\* Mutant: the test for an instance is missing.
JournalProvidersUntested(online, insts) == online

\* Journals are opened for the Cloud steps that have an instance.
JournalProviders(online, insts) == online \cap insts

\* Steps 1 to 12.  stored are the downloaded bodies that reached the cache.
UnlockLoad(online, insts, got, stored) ==
    /\ status = "locked" /\ sessions < MaxSessions
    /\ ~vaultLock
    /\ Reachable(online, insts, got) /\ stored \subseteq got
    /\ KeysLoaded(online, insts, got)
    /\ sessions' = sessions + 1
    /\ vaultLock' = TRUE
    /\ status' = "unlocking" /\ lastUnlock' = "none"
    /\ db' = LoadedRows(online, insts, got)
    /\ manifest' = UNION {manifestCloud[p] : p \in online}
    /\ cache' = [p \in Providers |-> IF p \in stored THEN body[p] ELSE cache[p]]
    /\ cached' = cached \cup stored
    /\ providers' = insts
    /\ walKeys' = PlanUnlock(online)
    /\ journals' = JournalProviders(online, insts)
    /\ recQ' = PlanUnlock(online)
    /\ recPc' = "next"
    /\ torn' = torn \cup
               {p \in Providers \ got : ~(body[p] \subseteq db'[p])} \cup
               {p \in Providers \ PlanUnlock(online) : wal[p] # {}}
    /\ UNCHANGED <<cloud, wal, dirtyFlag, flagWrites, buffer, activeProviderId,
                   dirtyVars, userVars, saveVars, recP, remoteDb, acked,
                   exposed, editGhosts>>

\* Step 13 for one provider: the WAL of a dirty provider is replayed.  The flag
\* is read after the writes already issued have committed.  A flag that cannot
\* be read counts as not set, a log that cannot be read as empty; the latter is
\* cleared all the same.
RecoverReplayWal(p) ==
    /\ status = "unlocking" /\ recPc = "next" /\ p \in recQ
    /\ p \notin flagWrites
    /\ recP' = p
    /\ recQ' = recQ \ {p}
    /\ \/ /\ p \in dirtyFlag /\ recPc' = "clearWal"
          /\ \E read \in {wal[p], {}} : db' = [db EXCEPT ![p] = @ \cup read]
       \/ recPc' = "journal" /\ UNCHANGED db
    /\ Expose("recovered",
              {<<m, p>> : m \in {n \in wal[p] : p \in dirtyFlag /\ n \notin body[p] \cap db'[p]}})
    /\ UNCHANGED <<cloud, idb, lockVars, manifest, handles, buffer,
                   activeProviderId, dirtyVars, userVars, saveVars, remoteDb,
                   acked, torn, editGhosts>>

RecoverClearWal ==
    /\ status = "unlocking" /\ recPc = "clearWal"
    /\ wal' = [wal EXCEPT ![recP] = {}]
    /\ recPc' = "clearFlag"
    /\ UNCHANGED <<cloud, dirtyFlag, flagWrites, cached, cache, lockVars,
                   memory, dirtyVars, userVars, saveVars, recQ, recP, remoteDb,
                   ghosts>>

RecoverClearFlag ==
    /\ status = "unlocking" /\ recPc = "clearFlag"
    /\ dirtyFlag' = dirtyFlag \ {recP}
    /\ recPc' = "journal"
    /\ UNCHANGED <<cloud, wal, flagWrites, cached, cache, lockVars, memory,
                   dirtyVars, userVars, saveVars, recQ, recP, remoteDb, ghosts>>

\* What VaultJournal.applyEntry() achieves: onMutate() stores {sql, params} as
\* the entry's data, so the column list of an INSERT or UPDATE entry names two
\* columns no table has and the statement fails; only DELETE entries apply.
Replayable(entries) == entries \cap Deletes

\* replayIfExists(): the journal is downloaded (or the call gives up), replayed
\* and deleted; the deletion may fail.
RecoverReplayJournal ==
    /\ status = "unlocking" /\ recPc = "journal"
    /\ recPc' = "next"
    /\ \/ UNCHANGED <<db, journal, exposed>>
       \/ LET entries == Replayable(journal[recP]) IN
          /\ recP \in journals /\ journal[recP] # {}
          /\ db' = [db EXCEPT ![recP] = @ \cup entries]
          /\ Expose("recovered", (entries \ body[recP]) \X {recP})
          /\ journal' \in {journal, [journal EXCEPT ![recP] = {}]}
    /\ UNCHANGED <<body, manifestCloud, idb, lockVars, manifest, handles,
                   buffer, activeProviderId, dirtyVars, userVars, saveVars,
                   recQ, recP, remoteDb, acked, torn, editGhosts>>

\* Step 15: the session is published and _dirtyProviders is cleared.
UnlockDone ==
    /\ status = "unlocking" /\ recPc = "next" /\ recQ = {}
    /\ status' = "unlocked"
    /\ lastUnlock' = "ok"
    /\ dirtyProviders' = {}
    /\ UNCHANGED <<cloud, idb, vaultLock, sessions, memory, dirtyDuringSave,
                   debounceTimer, userVars, saveVars, recVars, remoteDb, ghosts>>
-----------------------------------------------------------------------------
(***************************************************************************)
(* Mutations and markDirty().                                              *)
(***************************************************************************)

\* getOrInitProvider() and reconnectSftpProvider(): an instance only; no body,
\* WAL key or journal is added.
Reconnect(p) ==
    /\ status = "unlocked" /\ p \notin providers
    /\ providers' = providers \cup {p}
    /\ UNCHANGED <<cloud, idb, lockVars, db, manifest, walKeys, journals,
                   buffer, activeProviderId, dirtyVars, userVars, saveVars,
                   recVars, remoteDb, ghosts>>

\* The user selects another provider tab.
SetActiveProviderId(p) ==
    /\ status = "unlocked" /\ p # activeProviderId
    /\ activeProviderId' = p
    /\ UNCHANGED <<cloud, idb, lockVars, db, manifest, handles, buffer,
                   dirtyVars, userVars, saveVars, recVars, remoteDb, ghosts>>

\* Mutant: the dirty flag is kept in memory only.
MarkDirtyNoFlag(p) ==
    /\ dirtyProviders' = dirtyProviders \cup {p}
    /\ dirtyDuringSave' = dirtyDuringSave \cup (IF saving THEN {p} ELSE {})
    /\ debounceTimer' = TRUE
    /\ UNCHANGED flagWrites

\* The flag write is issued, not awaited.
MarkDirty(p) ==
    /\ dirtyProviders' = dirtyProviders \cup {p}
    /\ dirtyDuringSave' = dirtyDuringSave \cup (IF saving THEN {p} ELSE {})
    /\ flagWrites' = flagWrites \cup {p}
    /\ debounceTimer' = TRUE

\* A flag write that markDirty() or handleBeforeUnload() issued commits.
FlagLands(p) ==
    /\ p \in flagWrites
    /\ flagWrites' = flagWrites \ {p}
    /\ dirtyFlag' = dirtyFlag \cup {p}
    /\ UNCHANGED <<cloud, wal, cached, cache, lockVars, memory, dirtyVars,
                   userVars, saveVars, recVars, remoteDb, ghosts>>

\* onMutate() up to the commit of the WAL entry, before the statement runs.
OnMutate(m) ==
    LET p == activeProviderId IN
    /\ status = "unlocked"
    /\ m \in (Logged \cup Trash) \ issued
    /\ issued' = issued \cup {m}
    /\ pending' = pending \cup {<<m, p>>}
    /\ wal' = IF p \in walKeys THEN [wal EXCEPT ![p] = @ \cup {m}] ELSE wal
    /\ exposed' = [exposed EXCEPT
                     !["unlogged"] = IF p \in walKeys THEN @
                                                       ELSE @ \cup {<<m, p>>},
                     !["overlap"] = IF saving THEN @ \cup {<<m, p>>} ELSE @]
    /\ UNCHANGED <<cloud, dirtyFlag, flagWrites, cached, cache, lockVars,
                   memory, dirtyVars, editing, saveVars, recVars, remoteDb,
                   acked, torn, editGhosts>>

\* The rest of onMutate() and the statement.
Execute(m, p) ==
    /\ <<m, p>> \in pending
    /\ pending' = pending \ {<<m, p>>}
    /\ buffer' = IF p \in journals THEN [buffer EXCEPT ![p] = @ \cup {m}]
                                   ELSE buffer
    /\ db' = [db EXCEPT ![p] = @ \cup {m}]
    /\ acked' = [acked EXCEPT ![p] = @ \cup {m}]
    /\ UNCHANGED <<cloud, wal, dirtyFlag, cached, cache, lockVars, manifest,
                   handles, activeProviderId, issued, editing, saveVars,
                   recVars, remoteDb, torn, editGhosts>>

\* The caller marks the provider that is active by now.
MutateLogged(m, p) ==
    /\ m \in Logged
    /\ Execute(m, p)
    /\ MarkDirty(activeProviderId)
    /\ Expose("switched", IF p = activeProviderId THEN {} ELSE {<<m, p>>})

\* restoreItem() and permanentDelete() do not call markDirty().
MutateTrash(m, p) ==
    /\ m \in Trash
    /\ Execute(m, p)
    /\ UNCHANGED <<flagWrites, dirtyVars, exposed>>

\* The journal append rejects: the caller sees an error, the entry stays logged.
MutateFail(m, p) ==
    /\ <<m, p>> \in pending
    /\ pending' = pending \ {<<m, p>>}
    /\ UNCHANGED <<cloud, idb, lockVars, memory, dirtyVars, issued, editing,
                   saveVars, recVars, remoteDb, ghosts>>

\* refreshEnrolledDevicesFromRemote(): a vault_meta write with no WAL entry.
MutateDirect(m) ==
    /\ status = "unlocked"
    /\ m \in Direct \ issued
    /\ issued' = issued \cup {m}
    /\ db' = [db EXCEPT ![Primary] = @ \cup {m}]
    /\ acked' = [acked EXCEPT ![Primary] = @ \cup {m}]
    /\ MarkDirty(Primary)
    /\ UNCHANGED <<cloud, wal, dirtyFlag, cached, cache, lockVars, manifest,
                   handles, buffer, activeProviderId, pending, editing,
                   saveVars, recVars, remoteDb, exposed, torn, editGhosts>>
-----------------------------------------------------------------------------
(***************************************************************************)
(* saveVault() and _doSave().                                              *)
(***************************************************************************)

\* The synchronous part of saveVault() when no save is in flight.
StartSave ==
    /\ savePc' = "flush"
    /\ saveQ' = journals
    /\ saveProviderId' = Primary
    /\ successfulBodyUploads' = {}
    /\ dirtyDuringSave' = {}
    /\ debounceTimer' = FALSE
    /\ Expose("overlap", pending)
    /\ UNCHANGED <<snapshot, updatedManifest>>

\* The debounce timer fires; a save in flight is joined, not repeated.
TimerFires ==
    /\ status = "unlocked" /\ debounceTimer
    /\ IF saving
         THEN /\ debounceTimer' = FALSE
              /\ UNCHANGED <<saveVars, exposed, dirtyDuringSave>>
         ELSE StartSave
    /\ UNCHANGED <<cloud, idb, lockVars, memory, dirtyProviders, userVars,
                   recVars, remoteDb, acked, torn, editGhosts>>

\* renameProvider() and its like send a copy of _manifest to the worker ...
EditBegin(e) ==
    /\ status = "unlocked" /\ e \in Edits \ issued
    /\ issued' = issued \cup {e}
    /\ editing' = editing \cup {<<e, manifest>>}
    /\ contested' = IF editing = {} THEN contested
                    ELSE contested \cup {e} \cup {t[1] : t \in editing}
    /\ UNCHANGED <<cloud, idb, lockVars, memory, dirtyVars, pending, saveVars,
                   recVars, remoteDb, rowGhosts, waiting, editAcked>>

\* ... and install its answer, mark the primary dirty and await saveVault(),
\* which joins a save that is already running.  The update of this device's own
\* record of the provider, awaited in between, is left out.
EditManifest(e, base) ==
    /\ <<e, base>> \in editing
    /\ editing' = editing \ {<<e, base>>}
    /\ manifest' = base \cup {e}
    /\ waiting' = waiting \cup {e}
    /\ dirtyProviders' = dirtyProviders \cup {Primary}
    /\ flagWrites' = flagWrites \cup {Primary}
    /\ IF saving
         THEN /\ dirtyDuringSave' = dirtyDuringSave \cup {Primary}
              /\ debounceTimer' = TRUE
              /\ contested' = contested \cup {e}
              /\ UNCHANGED <<saveVars, exposed>>
         ELSE StartSave /\ UNCHANGED contested
    /\ UNCHANGED <<cloud, wal, dirtyFlag, cached, cache, lockVars, db, handles,
                   buffer, activeProviderId, issued, pending, recVars, remoteDb,
                   acked, torn, editAcked>>

\* Phase 1: journal.flush() uploads a non-empty buffer.
SaveFlush(p) ==
    /\ status = "unlocked" /\ savePc = "flush" /\ p \in saveQ
    /\ saveQ' = saveQ \ {p}
    /\ journal' = IF buffer[p] = {} THEN journal
                                    ELSE [journal EXCEPT ![p] = buffer[p]]
    /\ UNCHANGED <<body, manifestCloud, idb, lockVars, memory, dirtyVars,
                   userVars, savePc, saveProviderId, snapshot,
                   successfulBodyUploads, updatedManifest, recVars, remoteDb,
                   ghosts>>

\* Phase 2: SavePlan::build, the dirty providers that are online.
SavePlan ==
    /\ status = "unlocked" /\ savePc = "flush" /\ saveQ = {}
    /\ savePc' = "bodies"
    /\ saveQ' = dirtyProviders \cap providers
    /\ UNCHANGED <<cloud, idb, lockVars, memory, dirtyVars, userVars,
                   saveProviderId, snapshot, successfulBodyUploads,
                   updatedManifest, recVars, remoteDb, ghosts>>

\* Mutant: vault_meta is not copied.
ProviderRowsNoMeta(p) == db[p] \ Direct

\* copyProviderRows(): the rows of one provider, vault_meta included.
ProviderRows(p) == db[p]

\* Phase 3 for one provider: copyProviderRows() and the encryption.
SaveCopyRows(p) ==
    /\ status = "unlocked" /\ savePc = "bodies" /\ p \in saveQ
    /\ saveQ' = saveQ \ {p}
    /\ IF p \in providers
         THEN /\ saveProviderId' = p
              /\ snapshot' = ProviderRows(p)
              /\ savePc' = "upload"
         ELSE UNCHANGED <<saveProviderId, snapshot, savePc>>
    /\ UNCHANGED <<cloud, idb, lockVars, memory, dirtyVars, userVars,
                   successfulBodyUploads, updatedManifest, recVars, remoteDb,
                   ghosts>>

\* The body upload carries no expected version.  The request is under way, so
\* it may land after lockVault(), and under a later session.
BodyLands ==
    LET p == saveProviderId IN
    /\ savePc = "upload"
    /\ body' = [body EXCEPT ![p] = snapshot]
    /\ exposed' = [c \in Causes |-> exposed[c] \ ((snapshot \cap acked[p]) \X {p})]
    /\ torn' = IF status # "locked" /\ ~(snapshot \subseteq db[p])
                 THEN torn \cup {p} ELSE torn

\* The answer arrives and the copy goes to the cache (stored) or is not kept.
SaveUploadBody(stored) ==
    /\ BodyLands
    /\ successfulBodyUploads' = successfulBodyUploads \cup {saveProviderId}
    /\ savePc' = "bodies"
    /\ IF stored /\ status = "unlocked"
         THEN /\ cache' = [cache EXCEPT ![saveProviderId] = snapshot]
              /\ cached' = cached \cup {saveProviderId}
         ELSE UNCHANGED <<cache, cached>>
    /\ UNCHANGED <<journal, manifestCloud, wal, dirtyFlag, flagWrites, lockVars,
                   memory, dirtyVars, userVars, saveQ, saveProviderId, snapshot,
                   updatedManifest, recVars, remoteDb, acked, editGhosts>>

\* Phase 4: the manifest is copied, encrypted, and given a header.
SaveBuildManifest ==
    /\ status = "unlocked" /\ savePc = "bodies" /\ saveQ = {}
    /\ savePc' = "manifest"
    /\ updatedManifest' = manifest
    /\ UNCHANGED <<cloud, idb, lockVars, memory, dirtyVars, userVars, saveQ,
                   saveProviderId, snapshot, successfulBodyUploads, recVars,
                   remoteDb, ghosts>>

\* An upload under way at lockVault() may still land.
ManifestLands(targets) ==
    /\ status = "unlocked" => targets \subseteq providers
    /\ manifestCloud' = [p \in Providers |->
                           IF p \in targets THEN updatedManifest
                           ELSE manifestCloud[p]]

\* Mutant: any confirmed upload will do.
ManifestConfirmedByAny(uploaded) == uploaded # {}

\* A failed secondary is logged; a failed primary aborts the save.
ManifestConfirmed(uploaded) == Primary \in uploaded

\* The manifest is confirmed, and becomes _manifest.
SaveUploadManifest(uploaded) ==
    /\ savePc = "manifest"
    /\ ManifestConfirmed(uploaded)
    /\ ManifestLands(uploaded)
    /\ manifest' = IF status = "unlocked" THEN updatedManifest ELSE manifest
    /\ savePc' = "clearWal"
    /\ saveQ' = successfulBodyUploads
    /\ UNCHANGED <<body, journal, idb, lockVars, db, handles, buffer,
                   activeProviderId, dirtyVars, userVars, saveProviderId,
                   snapshot, successfulBodyUploads, updatedManifest, recVars,
                   remoteDb, ghosts>>

\* Phase 5 for one provider: clearWal(), setDirtyFlag(false), journal.commit().
\* After lockVault() the WAL id is that of no vault.
CommitClearWal(p) ==
    /\ savePc = "clearWal" /\ p \in saveQ
    /\ saveQ' = saveQ \ {p}
    /\ saveProviderId' = p
    /\ wal' = IF status = "unlocked" THEN [wal EXCEPT ![p] = {}] ELSE wal
    /\ savePc' = "clearFlag"
    /\ UNCHANGED <<cloud, dirtyFlag, flagWrites, cached, cache, lockVars,
                   memory, dirtyVars, userVars, snapshot, successfulBodyUploads,
                   updatedManifest, recVars, remoteDb, ghosts>>

CommitClearFlag ==
    /\ savePc = "clearFlag" /\ saveProviderId \notin flagWrites
    /\ dirtyFlag' = IF status = "unlocked" THEN dirtyFlag \ {saveProviderId}
                                           ELSE dirtyFlag
    /\ savePc' = "commit"
    /\ UNCHANGED <<cloud, wal, flagWrites, cached, cache, lockVars, memory,
                   dirtyVars, userVars, saveQ, saveProviderId, snapshot,
                   successfulBodyUploads, updatedManifest, recVars, remoteDb,
                   ghosts>>

CommitJournal ==
    /\ savePc = "commit"
    /\ IF status = "unlocked" /\ saveProviderId \in journals
         THEN /\ buffer' = [buffer EXCEPT ![saveProviderId] = {}]
              /\ journal' \in {journal, [journal EXCEPT ![saveProviderId] = {}]}
         ELSE UNCHANGED <<buffer, journal>>
    /\ dirtyProviders' = dirtyProviders \ {saveProviderId}
    /\ savePc' = "clearWal"
    /\ UNCHANGED <<body, manifestCloud, idb, lockVars, db, manifest, handles,
                   activeProviderId, dirtyDuringSave, debounceTimer, userVars,
                   saveQ, saveProviderId, snapshot, successfulBodyUploads,
                   updatedManifest, recVars, remoteDb, ghosts>>

\* Mutant: the set is replaced where it should be extended.
DirtyAfterSaveReplaced == dirtyDuringSave

\* Providers that were marked while the save ran are dirty again.
DirtyAfterSave == dirtyProviders \cup dirtyDuringSave

\* The finally block of saveVault().
SaveFinally ==
    /\ savePc' = "idle"
    /\ dirtyProviders' = DirtyAfterSave
    /\ flagWrites' = flagWrites \cup dirtyDuringSave
    /\ dirtyDuringSave' = {}
    /\ debounceTimer' = (debounceTimer \/ DirtyAfterSave # {})
    /\ waiting' = {}
    /\ UNCHANGED <<journal, wal, dirtyFlag, cached, cache, lockVars, memory,
                   userVars, saveQ, saveProviderId, snapshot,
                   successfulBodyUploads, updatedManifest, recVars, remoteDb,
                   acked, contested>>

SaveDone ==
    /\ status = "unlocked" /\ savePc = "clearWal" /\ saveQ = {}
    /\ SaveFinally
    /\ editAcked' = editAcked \cup waiting
    /\ UNCHANGED <<body, manifestCloud, exposed, torn>>

\* A call fails, or the session was closed under the save.
SaveThrow ==
    /\ \/ savePc \in {"flush", "bodies", "upload"}
       \/ savePc \in {"clearWal", "clearFlag", "commit"} /\ status # "unlocked"
    /\ SaveFinally
    /\ UNCHANGED <<body, manifestCloud, exposed, torn, editAcked>>

\* The body upload lands but its answer is lost, so the save fails.
SaveUploadUnconfirmed ==
    /\ BodyLands
    /\ SaveFinally
    /\ UNCHANGED <<manifestCloud, editAcked>>

\* The manifest is not confirmed: it reached the providers in landed and the
\* upload to the primary was not acknowledged.
SaveManifestFails(uploaded, landed) ==
    /\ savePc = "manifest"
    /\ uploaded \subseteq landed /\ ~ManifestConfirmed(uploaded)
    /\ ManifestLands(landed)
    /\ SaveFinally
    /\ UNCHANGED <<body, exposed, torn, editAcked>>
-----------------------------------------------------------------------------
(***************************************************************************)
(* Lock, reload, crash, the other device.                                  *)
(***************************************************************************)

ForgetSession ==
    /\ status' = "locked" /\ vaultLock' = FALSE
    /\ db' = NoRows /\ buffer' = NoRows /\ manifest' = {}
    /\ providers' = {} /\ walKeys' = {} /\ journals' = {}
    /\ dirtyProviders' = {} /\ dirtyDuringSave' = {} /\ debounceTimer' = FALSE
    /\ pending' = {} /\ editing' = {}
    /\ UNCHANGED <<cloud, wal, cached, cache, sessions, lastUnlock,
                   activeProviderId, issued, remoteDb, acked, torn, editAcked>>

\* lockVault(): a save in flight keeps running, and its caller keeps waiting.
LockVault ==
    /\ status = "unlocked"
    /\ ForgetSession
    /\ contested' = contested \cup waiting
    /\ UNCHANGED <<dirtyFlag, flagWrites, saveVars, recVars, exposed, waiting>>

\* handleBeforeUnload(): the flags of the dirty providers are written again.
BeforeUnload ==
    /\ status = "unlocked"
    /\ ~(dirtyProviders \subseteq flagWrites \cup dirtyFlag)
    /\ flagWrites' = flagWrites \cup dirtyProviders
    /\ UNCHANGED <<cloud, wal, dirtyFlag, cached, cache, lockVars, memory,
                   dirtyVars, userVars, saveVars, recVars, remoteDb, ghosts>>

\* The tab is reloaded or killed.  Flag writes that did not commit are lost.
Crash ==
    /\ status # "locked" \/ vaultLock \/ saving \/ flagWrites # {}
    /\ ForgetSession
    /\ flagWrites' = {}
    /\ Expose("unflagged", {t \in Mutations \X Providers :
                              /\ t[2] \in flagWrites \ dirtyFlag
                              /\ t[1] \in wal[t[2]] \ body[t[2]]})
    /\ savePc' = "idle" /\ recPc' = "next" /\ recQ' = {} /\ waiting' = {}
    /\ UNCHANGED <<dirtyFlag, saveQ, saveProviderId, snapshot,
                   successfulBodyUploads, updatedManifest, recP, contested>>

\* Another device opens the vault ...
RemoteUnlock(p) ==
    /\ Remote \ issued # {}
    /\ remoteDb' = [remoteDb EXCEPT ![p] = body[p]]
    /\ UNCHANGED <<cloud, idb, lockVars, memory, dirtyVars, userVars, saveVars,
                   recVars, ghosts>>

\* ... adds a row and uploads its body, without an expected version either ...
RemoteSave(m, p) ==
    /\ m \in Remote \ issued
    /\ issued' = issued \cup {m}
    /\ remoteDb' = [remoteDb EXCEPT ![p] = @ \cup {m}]
    /\ body' = [body EXCEPT ![p] = remoteDb'[p]]
    /\ Expose("overwritten", (body[p] \ body'[p]) \X {p})
    /\ UNCHANGED <<journal, manifestCloud, idb, lockVars, memory, dirtyVars,
                   pending, editing, saveVars, recVars, acked, torn, editGhosts>>

\* ... or dies between the flush of its journal and its body upload.
RemoteFlush(m, p) ==
    /\ m \in Remote \ issued
    /\ issued' = issued \cup {m}
    /\ journal' = [journal EXCEPT ![p] = {m}]
    /\ UNCHANGED <<body, manifestCloud, idb, lockVars, memory, dirtyVars,
                   pending, editing, saveVars, recVars, remoteDb, ghosts>>

\* A session is opened.
OpenNext ==
    \/ UnlockContended \/ UnlockFail
    \/ \E online, insts, got \in SUBSET Providers :
          \/ UnlockNoKeys(online, insts, got)
          \/ \E stored \in SUBSET got : UnlockLoad(online, insts, got, stored)

\* A call of the user, or of another device, that changes the vault.
StartNext ==
    \/ \E m \in Mutations : OnMutate(m) \/ MutateDirect(m)
    \/ \E e \in Edits : EditBegin(e)
    \/ \E p \in Providers : RemoteUnlock(p)
    \/ \E m \in Mutations, p \in Providers : RemoteSave(m, p) \/ RemoteFlush(m, p)

\* Everything that follows from those, and the end of a session.
RunNext ==
    \/ \E p \in Providers : RecoverReplayWal(p)
    \/ RecoverClearWal \/ RecoverClearFlag \/ RecoverReplayJournal \/ UnlockDone
    \/ \E p \in Providers :
          Reconnect(p) \/ SetActiveProviderId(p) \/ FlagLands(p)
    \/ \E m \in Mutations, p \in Providers :
          MutateLogged(m, p) \/ MutateTrash(m, p) \/ MutateFail(m, p)
    \/ TimerFires
    \/ \E t \in editing : EditManifest(t[1], t[2])
    \/ \E p \in Providers : SaveFlush(p) \/ SaveCopyRows(p) \/ CommitClearWal(p)
    \/ SavePlan \/ SaveBuildManifest \/ CommitClearFlag \/ CommitJournal
    \/ \E stored \in BOOLEAN : SaveUploadBody(stored)
    \/ \E uploaded \in SUBSET Providers : SaveUploadManifest(uploaded)
    \/ \E landed \in SUBSET Providers :
          \E uploaded \in SUBSET landed : SaveManifestFails(uploaded, landed)
    \/ SaveDone \/ SaveThrow \/ SaveUploadUnconfirmed
    \/ LockVault \/ BeforeUnload \/ Crash

Next == OpenNext \/ StartNext \/ RunNext

Spec == Init /\ [][Next]_vars

\* The debounce timer and the save it starts are callbacks of the event loop,
\* and IndexedDB commits what it was given.  A provider that is retried for ever
\* answers in the end, so each fallible step succeeds again and again: strong
\* fairness.  Nothing is assumed of the user, of lockVault() or of other devices.
Fairness ==
    /\ WF_vars(TimerFires)
    /\ \A p \in Providers : WF_vars(FlagLands(p))
    /\ \A p \in Providers :
          /\ SF_vars(SaveFlush(p)) /\ SF_vars(SaveFlush(p) /\ saveQ = {p})
          /\ SF_vars(SaveCopyRows(p))
          /\ SF_vars(SaveUploadBody(TRUE) /\ saveProviderId = p)
    /\ SF_vars(SavePlan)
    /\ SF_vars(SaveBuildManifest)
    /\ SF_vars(\E uploaded \in SUBSET Providers : SaveUploadManifest(uploaded))
    /\ \A p \in Providers : WF_vars(CommitClearWal(p))
    /\ WF_vars(CommitClearFlag) /\ WF_vars(CommitJournal) /\ WF_vars(SaveDone)

FairSpec == Spec /\ Fairness
-----------------------------------------------------------------------------
(***************************************************************************)
(* Properties.                                                             *)
(***************************************************************************)

AtRisk(m, p) == \E c \in Causes : <<m, p>> \in exposed[c]

\* What a mutation needs to survive: it is in the cloud body, or in the WAL of
\* a provider whose dirty flag makes the next unlock replay that WAL.
Recoverable(m, p) ==
    \/ m \in body[p]
    \/ m \in wal[p] /\ p \in dirtyFlag \cup flagWrites

\* Once a call of ByoDataProvider has returned, its mutation survives every
\* order of saves, failed saves, locks, crashes and unlocks (WAL before
\* statement, two-phase commit of _doSave), outside the six named windows and
\* the providers that were opened incompletely.
DurableAcked ==
    \A p \in Providers \ torn : \A m \in acked[p] \cap Logged :
        AtRisk(m, p) \/ Recoverable(m, p)

\* A row the tab holds and the cloud does not is always about to be saved: its
\* provider is dirty, and a save is armed or running (markDirty, the finally
\* block of saveVault).
UnsavedIsScheduled ==
    status = "unlocked" =>
        \A p \in Providers \ torn : \A m \in db[p] \cap (Logged \cup Direct) :
            \/ m \in body[p] \/ AtRisk(m, p)
            \/ /\ p \in dirtyProviders \cup dirtyDuringSave
               /\ debounceTimer \/ saving

\* A save of this tab never takes a row of this tab out of a body (unlockVault
\* loads what saveVault overwrites), unless the provider was opened
\* incompletely or another device overwrote the body.
BodyKeepsRows ==
    [][\A p \in Providers \ torn' : \A m \in body[p] \cap Local :
          m \in body'[p] \/ AtRisk(m, p)']_vars

\* A manifest edit whose call returned is in the primary's vault_manifest.sc,
\* which the next unlock reads, unless it met another edit, a save or a lock
\* (renameProvider and its like, phase 4 of _doSave).
EditDurable == editAcked \ contested \subseteq manifestCloud[Primary]

\* A mutation made through markDirty() reaches the cloud body, however often
\* saving fails first, as long as the tab stays open and the provider answers
\* now and then (the retry loop of saveVault and scheduleDebounce).
SavedEventually ==
    \A p \in Providers : \A m \in Logged \cup Direct :
        (/\ status = "unlocked" /\ p \in providers
         /\ m \in db[p] /\ <<m, p>> \notin exposed["recovered"]
         /\ <<m, p>> \notin exposed["switched"])
        ~> (m \in body[p] \/ status # "unlocked")
-----------------------------------------------------------------------------
(***************************************************************************)
(* The inductive invariant behind DurableAcked.                            *)
(***************************************************************************)

\* The mutations of p that are promised to survive.
Kept(p) == {m \in acked[p] \cap Logged : ~AtRisk(m, p)}

\* A mutation is started once; its call returns after it left pending.
FreshInv ==
    /\ \A p \in Providers : acked[p] \subseteq issued
    /\ \A t \in pending : t[1] \in issued /\ t[1] \notin acked[t[2]]
    /\ status # "unlocked" => pending = {}

\* A mutation in progress has its WAL entry, or is at risk; it is at risk
\* whenever a save runs.
PendingInv ==
    /\ \A t \in pending : t[1] \in wal[t[2]] \/ AtRisk(t[1], t[2])
    /\ saving => pending \subseteq exposed["overlap"]

\* The open database holds what survives, once the WAL has been replayed.
LoadedInv ==
    status # "locked" =>
        \A p \in Providers \ torn : \A m \in Kept(p) :
            \/ m \in db[p]
            \/ /\ status = "unlocking" /\ p \in recQ
               /\ m \in wal[p] /\ p \in dirtyFlag \cup flagWrites

\* A WAL that is being cleared by an unlock is not needed any more, and its
\* provider is not visited again.
RecoveryInv ==
    /\ recPc # "next" => recP \notin recQ
    /\ (/\ status = "unlocking" /\ recPc \in {"clearWal", "clearFlag"}
        /\ recP \notin torn) => Kept(recP) \subseteq body[recP]

\* The copy under way and the bodies uploaded hold what survives.
SaveInv ==
    /\ (savePc = "upload" /\ saveProviderId \notin torn) =>
          Kept(saveProviderId) \subseteq snapshot
    /\ saving => \A p \in successfulBodyUploads \ torn : Kept(p) \subseteq body[p]
    /\ savePc \in {"clearWal", "clearFlag", "commit"} =>
          saveQ \subseteq successfulBodyUploads
    /\ savePc \in {"clearFlag", "commit"} =>
          saveProviderId \in successfulBodyUploads

DurabilityInv ==
    /\ TypeOK /\ DurableAcked
    /\ FreshInv /\ PendingInv /\ LoadedInv /\ RecoveryInv /\ SaveInv
=============================================================================
