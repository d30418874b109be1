# Wattcloud: a TLA+ verification project

Wattcloud is a bring-your-own-storage vault. A browser client keeps an encrypted SQLite
database of files and folders, saves it to one or more storage providers of the user, and
recovers it after crashes; a relay server (Rust) keeps share links, enrolls devices and
tunnels SFTP. This directory holds specifications of the parts where the order of steps,
a crash or a second actor decides whether data and secrets survive, their model-checking
configurations, and proofs.

| Module | What it is |
|---|---|
| `VaultLifecycle` | The save, recovery and lock engine of the client |
| `ProviderMove` | A file moved between providers, with a crash at every step |
| `ManifestMerge` | The replicated list of providers, and the merge of rows |
| `BlobStream` | The file format, streamed uploads and downloads, the share recipient's page |
| `JournalCodec` | The framing of the cloud journal |
| `VaultAccess` | The vault header and every change of who may open it |
| `DeviceEnroll` | The hand-over of the vault to a new device |
| `CloudApi`, `GDrive`, `Dropbox`, `OneDrive`, `BoxDrive`, `PCloud`, `S3Drive`, `WebDav` | The storage providers, request by request |
| `CloudStore` | What the application expects of a storage provider (abstract) |
| `SftpLink` | The SFTP client, the relay's dispatcher and the server's files |
| `SftpGate` | Admission to SFTP, host keys and sign-in |
| `ShareRelay` | The share store of the relay, its HTTP handlers and its sweeper |
| `RelayLimits` | The relay's windows, budgets, quotas and slots |
| `RelayAuth` | Challenges, proof of work, single-use cookies |
| `RelayEnrollment` | Devices, owners, invites, the bootstrap token |
| `RelayChannels` | The two-slot rooms in which devices meet |
| `UsageStats` | Statistics: recording, batches, counters, calendar |
| `Maps` | Partial functions as maps |
| `MCVaultLifecycle`, `MCShareRelay`, `MCRelay`, `MCSftp`, `MCProviders`, `MCClient` | Instances for TLC |
| `VaultLifecycleProofs`, `ShareRelayProofs`, `BlobStreamProofs` | Theorems about the module of that name and their proofs |
| `RelayAccessProofs` | The same for `RelayAuth`, `RelayEnrollment` and `RelayChannels` |
| `RelayLimitsProofs` | For `RelayLimits` and `SftpGate` |
| `VaultAccessProofs` | For `VaultAccess` and `DeviceEnroll` |
| `ClientDataProofs` | For `ProviderMove`, `ManifestMerge` and `JournalCodec` |
| `Loops` | Induction over numbers and loops, which the proofs share |

## 1. The system and its parts

### Client (TypeScript in `frontend/src/lib`, Rust in `sdk/sdk-core`, compiled to WASM)

**Save, recovery and lock engine** (`byo/VaultLifecycle.ts`, plans in
`sdk-core/src/byo/multi_vault.rs`).
State: module variables of one tab: the open database `_db`, the manifest `_manifest`, the
maps of provider instances, WAL keys and journals, `_dirtyProviders`, `_dirtyDuringSave`,
the debounce timer, `_savePromise`.
Operations: `unlockVault` (16 steps), `saveVault`/`_doSave` (5 phases), `markDirty`,
`lockVault`, `handleBeforeUnload`, reconnects, manifest edits, writes to `vault_meta`.
Hard: everything is a chain of awaits on one event loop, so user actions, timers, a lock
or the closing of the tab fall between any two steps.
Correct when: what the user was told is done survives; what is unsaved is scheduled; a
save never takes rows away.

**IndexedDB write-ahead log and dirty flags** (`IndexedDBWal.ts`, `DeviceKeyStore.ts`).
State: log entries and one flag per provider, surviving crashes. Operations: append,
read, clear, set and read the flag. Correct when: an entry outlives the need for it.

**Cloud journal** (`VaultJournal.ts`, `vault_journal.rs`). State: an in-memory buffer and
a file beside the body. Operations: append, flush, commit, replay. Correct when: a journal
is only deleted after its entries are in a body.

**Mutation layer** (`ByoDataProvider.ts`) and **trash** (`TrashManager.ts`). Each mutating
method logs, executes its SQL and marks a provider dirty; the trash does not mark.

**Manifest and rows** (`manifest.rs`, `merge_rows.rs`). State: a copy of the manifest on
every provider and in every open tab, each entry stamped by the clock of the device that
wrote it. Operations: merge, add, rename, change, promote, remove. Hard: clocks differ,
stamps tie, copies arrive in any order. Correct when: devices agree, a removal stays, there
is one primary, and nobody is shut out.

**Cross-provider move** (`cross_provider_move/`, `ByoDataProvider.ts`): copy, repoint,
delete, with a log of pending deletes and a reconciler at the next unlock. Correct when: the
content is never lost and the row points at it.

**Upload and download streams** (`streaming/`, `wire_format.rs`): chunks under consecutive
nonces, a footer that is recognised only at the end. Correct when: fragmentation is
invisible and nothing short of the whole file is accepted.

**Vault header and keys** (`vault_format.rs`, `vault_crypto.rs`, `ByoSettings.svelte`,
`ByoRecovery.svelte`, `DeviceKeyMigration.ts`). State: the header of `vault_manifest.sc`
(passphrase slot, recovery slot, device slots, HMAC), the device record and key in
IndexedDB, the sessions in WASM memory. Operations: unlock, passkey, change of passphrase,
revocation, enrolment, recovery, migration of a device key. Hard: several devices read,
patch and upload one file, half of them unconditionally.

**Device enrollment** (`enrollment.rs`, `DeviceEnrollment.svelte`): QR code, channel, keys,
comparison of a code, shard, configuration, slot.

**Storage providers** (`providers/*.rs`, `byo_providers.rs`, `byo_streaming.rs`): seven
APIs behind one interface. Hard: any request may fail before or after the server acted;
streams hold sessions at the provider; other devices write in between.

**SFTP client** (`sftp/client.rs`, `SftpProvider.ts`): request and answer frames over one
socket that several tasks use.

**Offline monitor, queues, OAuth, bridge, user interface**: not modelled.

### Relay (`byo-relay/src`)

**Share store and endpoints** (`share_store.rs`, `share_relay.rs`). State: the tables
`shares` and `blobs`, one directory per share, one file and one temporary file per blob.
Operations: upload a file share, create, fill and seal a bundle, fetch, revoke, and the
hourly sweeper. Hard: threads share the directory tree without a lock, a handler is
dropped when its client goes away, and the process may die anywhere. Correct when: no
directory is orphaned, no published share disappears, a revoked one does.

**Rate limits and quotas** (`rate_limit.rs`). State: maps of windows, budgets and counters,
each under a mutex of its own or an atomic. Hard: a handler consults several of them one
after the other. Correct when: limits hold and releases match registrations.

**Enrollment channels** (`channel.rs`). State: a registry of two-slot objects, and the
references the sessions keep. Operations: join, leave, relay loop, sweep.

**Authentication** (`relay_auth.rs`). State: pending challenges, consumed cookies; in the
browser a jar with one cookie per category. Correct when: nothing is accepted twice.

**Access control** (`enrollment.rs`, `enrollment_admin.rs`, `bin/admin.rs`). State: the
tables of devices and invites, the bootstrap token in a table and in a file. Actors: the
server, its handlers, the command line. Correct when: codes enrol once and there is always
an owner.

**SFTP relay** (`sftp_relay.rs`, `relay_ws.rs`). State: slots, failures and hosts per client
address; per connection its handles, buffers and the call under way.

**Statistics** (`stats.rs`, `sdk-core/src/byo/stats`): a bounded queue in the page, counters
in one transaction per batch. **HTTP shell**: stateless filters.

Interactions: the mutation layer calls the engine through `markDirty`; the engine calls
log, journal, cache and providers through awaits; two devices meet only in the cloud files
of a provider. The share endpoints call the store under its mutex and the filesystem
outside it, and ask the limits for admission. `PROJECT.json` lists every component with
its status, and under `hazards` what a test would hardly reach, at its line.

## 2. How the project is laid out

Order of the work: what can lose a user's data first, then what the relay promises, then
the algorithms and protocols of the client.

1. `VaultLifecycle` and `ShareRelay`, each with a proof module.
2. The relay's other state: `RelayLimits`, `RelayAuth`, `RelayEnrollment`,
   `RelayChannels`, `SftpGate`, `UsageStats`. They share no state with each other, so
   `MCRelay` checks them side by side: a behaviour stays in the lane it starts in.
3. `SftpLink`, which starts where `SftpGate` ends.
4. `CloudApi` and one module per provider, composed in `MCProviders`, and `CloudStore`,
   the abstract store they implement.
5. The client: `BlobStream`, `ManifestMerge`, `ProviderMove`, `DeviceEnroll`,
   `VaultAccess`, `JournalCodec`, side by side in `MCClient`. `DeviceEnroll` has the
   two pages with the channel of `RelayChannels` between them (reduced to its two slots).
6. Proofs, in the order of the harm: the two modules of 1, the relay's state of 2 without
   the statistics, the modules of 5, and the sockets of 3.
7. To prove next: `TransfersWhole` of `SftpLink`; the step part of `ImplementsStore`; the
   counters of `UsageStats`.

## 3. VaultLifecycle

One tab, the cloud files it saves to, IndexedDB of the browser, and another device that
saves the same bodies. A mutation is a model value; a body, a log, a journal and the
database are sets of mutations; a manifest is the set of the edits in it. That is what
the properties tell apart: which effects are where.

*State.* Cloud: `body`, `journal`, `manifestCloud`. IndexedDB: `wal`, `dirtyFlag`,
`flagWrites` (flags written but not committed), `cached` and `cache`. Tab: the module
variables of `VaultLifecycle.ts` under their names. The two coroutines have a program
counter each: `savePc` for `_doSave`, `recPc` for the recovery loop of `unlockVault`.

*Actions.* A step ends at an await: what the code does between two awaits is one action.
`UnlockLoad` is the part of `unlockVault` that only reads; which providers are reachable,
get an instance and answer with a body is chosen freely. `RecoverReplayWal`,
`RecoverClearWal`, `RecoverClearFlag` and `RecoverReplayJournal` are step 13, which
writes. `OnMutate` and `MutateLogged` are the two halves of a mutating method around its
awaits, `MutateTrash` and `MutateDirect` the methods that do not mark or do not log.
`SaveFlush`, `SavePlan`, `SaveCopyRows`, `SaveUploadBody`, `SaveBuildManifest`,
`SaveUploadManifest`, `CommitClearWal`, `CommitClearFlag`, `CommitJournal` and `SaveDone`
are the phases of `_doSave`; `SaveThrow`, `SaveUploadUnconfirmed` (the file is stored and
the answer is lost) and `SaveManifestFails` are its failures, all of which end in the
`finally` block of `saveVault` (`SaveFinally`). `LockVault`, `BeforeUnload` and `Crash`
end a session, `RemoteUnlock`, `RemoteSave` and `RemoteFlush` are the other device.

*Windows.* The code does not keep every acknowledged mutation. Instead of leaving those
cases out, the model records them: `exposed[c]` holds the mutations that cause `c` has put
at risk, until a body holds them, and `torn` the providers opened without all they had
stored. The causes are

| Cause | What happens in the code |
|---|---|
| `overlap` | logged while a save runs; the save's `clearWal` deletes the entry (line 974) |
| `recovered` | replayed from the log, which is cleared before anything is saved (line 704) |
| `unlogged` | the append to the log failed or there is no log key, and the call goes on |
| `unflagged` | the dirty flag is not awaited, or no flag is set, so the log is not replayed |
| `switched` | the tab was switched between the log entry and `markDirty` |
| `overwritten` | another device replaced the body |

`DurableAcked` says that there is no other case among the mutations that are followed: those
that change rows of the active provider in a table a save copies. Two kinds are not followed.
Rows of `share_audit` (`recordShareAudit`, `ByoDataProvider.ts:234`) are in none of the tables
`copyProviderRows` copies and are gone after the next unlock. `toggleFavorite`
(`ByoDataProvider.ts:611`) gives its row the provider of the file or folder and marks the
active one, so a favorite of another provider waits for the next save of that provider.

Two simplifications. `recovered` also stands for an unlock that cannot read a flag or a log
(`VaultLifecycle.ts:674`, `:676` take the failure for an empty one). `EditManifest` installs
the manifest and marks it dirty in one step; the code has an IndexedDB write in between, after
which a save may already have uploaded the edit.

*Properties.*

- `DurableAcked`: a mutation whose call returned is in the body, or in a log whose flag
  makes the next unlock replay it, outside the windows.
- `UnsavedIsScheduled`: a row that only the tab holds belongs to a dirty provider, and a
  save is armed or running.
- `BodyKeepsRows`: a save never takes a row of this tab out of a body.
- `EditDurable`: a manifest edit whose call returned is in the primary's manifest, unless
  it met another edit, a save or a lock.
- `SavedEventually`: what is marked dirty reaches the cloud.

## 4. ShareRelay

Rows and files of the relay's shares, any number of HTTP requests in flight, the sweeper
and the process. A step is one critical section of the store's mutex or one call on the
filesystem. The content of a file is the set of the requests whose bytes are in it, so a
torn file is a set of two.

*State.* `rows` with the columns as sets (`revoked`, `sealed`, `bundleToken`, ...),
`blobs` (which request's size is recorded), `dirs`, `tmp`, `file`; `req[r]`, the handler
of a request with its program counter; `victims` and `toClear` of the sweeper.

*Actions.* `UploadB2Share`, `InitBundle`, `UploadBundleBlob`, `SealBundle`,
`RevokeB2Share` and `GetShareBlob` start a handler after its checks; a request that is
rejected changes nothing. `OpenTmp`, `StreamEnd`, `StreamFail`, `RenameTmp`, `RecordBlob`,
`MarkSealed`, `RemoveTmp`, `DeleteBlobRow`, `DeleteBlobFile`, `RevokeRow`, `RevokeDir` and
`OpenFile` are its further steps; the three kinds of upload share them and differ in what
they undo after which error. `DropHandler` is the client that goes away: the future is
dropped at an await, except that a rename or removal already given to the blocking pool
still takes place. `SweepSelect`, `SweepRemove`, `SweepSkip` (the directory cannot be
removed), `SweepDelete` are one tick of the sweeper. `Expire` and `BecomeStale` are the
passing of `expires_at` and of the four hours for unsealed shares. `Crash` loses the
process and keeps rows and files.

*Windows.* `contested` holds the blobs two uploads of which met, running or recorded, `late`
the shares that met an upload past its lifetime: a handler of an earlier share of the same id,
or a seal after the four hours. Both can happen in the code and do harm there (below).

*Properties.*

- `NoOrphanDir`: every directory has a row, in every state in which the process may die.
- `RecordedIsWhole`: a recorded blob is exactly what one upload sent, after any number of
  failed, dropped and repeated uploads.
- `PublishedIsServed`: what was answered as published can be fetched until it is revoked
  or expires.
- `RevokedIsGone`: once a revocation is answered the row stays revoked until the sweeper takes
  it (unless the id was taken over while the revocation ran), nothing of the share is on the
  disk, and no upload in flight brings anything back; so a download that had passed its checks
  earlier opens nothing. `revoke_share` ignores a failed `remove_dir_all` and the handler
  answers 204 all the same (`share_store.rs:363`): such a share is in `kept`, and its files
  wait for the sweeper.
- `EventuallyPurged`: what is revoked, expired or not sealed in time is purged.

## 5. The other modules

The properties of a module are stated one by one and its invariants are checked as one
conjunction, together with the module's type invariant: `LimitsInv`, `UploadsInv`, `AuthInv`,
`EnrollInv`, `ChanInv`, `GateInv`, `StatsInv`, `LinkInv`, `CloudInv`, `BlobInv`,
`ManifestInv`, `MoveInv`, `EnrolInv`, `AccessInv` and `JournalInv`. The parts are named below.
`SlotsExact`, `NeverOwnerless`, `AgreesWithOneShot`, `OrderIrrelevant`, `AccessLinear` and
`TransfersWhole` are checked on their own, and so are the action and temporal properties
`UnlockKeepsBlob`, `TasksEnd`, `ImplementsStore` and `JobsEnd`.

### The relay (`MCRelay`)

A step is one critical section of one mutex, one atomic operation, one SQL transaction or
one message; what a handler learnt under one lock may be stale under the next. A restart
empties what is only in memory. A request that is refused changes nothing and is not a step.

- **`RelayLimits`** (`LimitsInv` for the windows and the hourly bytes, `UploadsInv` for
  `BudgetHeld`, `NeverUndercounts` and `StorageCapHeld`, and `SlotsExact`). `JoinChannel`,
  `CreateHour` and `CreateDay` are the windows; `BeginUpload`, `StreamChunk`, `StoreUpload`,
  `RegisterShare`, `RegisterTotal` an upload with the daily budget and the storage tracker,
  `ReleaseShare` and `ReleaseTotal` its end; `BeginDownload`, `AcquireSlot`, `BackOff`,
  `DropGuard` a download. The storage cap is checked before an upload and registered after it,
  so `StorageCapHeld` is about the addresses that had one request at a time and declared their
  lengths; `BudgetHeld` leaves out an address one of whose bodies streamed past midnight.
  `NeverUndercounts`, `SlotsExact`, `HourlyBytesHeld`, `CreationWindows` and `JoinWindows`
  have no such exception but the limits they name; `CreationWindows` is about both windows:
  the requests that passed the check of the hour (`hourly`) and those that were admitted for
  the day. The code's lists of times are sets of entries named by the request that made them:
  the order of a `Vec` is never looked at.
- **`RelayAuth`**. Flows of one browser ask for challenges, answer them and present cookies;
  any answer or cookie may be sent again. `CookiePerChallenge`, `AcceptedOnce` (in one life
  of the process and before the expiry), `FlowKeepsCookie`. A cookie of a category without a
  name of its own gets that of the statistics (`cookie_name_for_purpose`), so a cookie of the
  administrator and one of the statistics displace each other (`Group`).
- **`RelayEnrollment`**. The server's start and the command line replace the bootstrap token
  in separate statements and write one file (`tokenFile`), which `claim-token` reads and
  unlinks; `OwnerGate` authorises in one step what `DeleteDevice`, `MintInvite` and
  `DeleteInvite` do in a later one. `NeverOwnerless`, `EnrolsOnce`, `BootstrapClaimable`: the
  token in the table is in the file or was seen, unless its plaintext was `lost`: the server
  died before its write, the write failed, or the other process wrote or unlinked the file
  after it.
- **`RelayChannels`**. A session holds its own reference to a channel object, `leave()` goes
  through the registry: the two may differ after a sweep. `NoGhostSlot`, `SamePair` and
  `ForwardedWithinCap` hold in spite of it, `PairExclusive` for the ids of which nothing was
  swept under a session.
- **`SftpGate`**. From the upgrade to the sign-in, with keys that hosts change. The check of
  the block (`CheckBlock`) and the slot (`Upgrade`) are two steps. `GuessesBounded` states
  what the tentative failures, their refunds and the single check of the block really bound:
  in a block only sessions that were past the check when it fell guess on, which may be more
  than there are slots, since one may take the slot another gives back; `GateSlotsExact`,
  `HostsBounded`, `CredentialsToPinned`.
- **`UsageStats`**. Tabs record, flush and close; batches are lost, refused, cut or answered
  late; the relay counts a batch in one transaction. `CountedOnce`, `MixAgrees`,
  `QueueNewest`, and `CalendarAdvances`, which compares the relay's date arithmetic with the
  rules of the calendar over 800 days from each of four starts (1970, and 1999, 2099 and
  2399 for the turns of the centuries).

### SFTP (`SftpLink`, `MCSftp`)

Tasks of a page make calls over one socket; a call holds the promise chain of
`SftpProvider.ts` until its answer came. The relay takes frames in order, keeps write and
read handles and the bytes it buffers, and calls the SSH server. A file is an inode, so that
a rename does not disturb an open handle; a connection may drop with frames on the wire.
`Answerable` and `TasksEnd` are what the chain is for; `BufferAccounted` is the accounting of
`total_buffered`; `FoldersReady`. `TransfersWhole` is about the files: `PublishedWhole`, which
excepts two uploads that chose the same temporary path (the counter in the path is per
connection), and `DownloadWhole`. Left out: `init()`, which runs before the chain is used; the
`remove_dir` the relay tries when a file cannot be removed (`sftp_relay.rs:1126`); the second
attempt of an upload whose folder is gone (`_uploadWithDirRecover`); and the comparison of
`expectedVersion` with the size and time of the file before an upload, whose effect on the
header is in `VaultAccess` and `DeviceEnroll` (`vaAtomic`, `atomic`).

### Storage providers (`CloudApi` and seven modules, `MCProviders`)

An action is one HTTP request with the code on both sides of it; its fate is one of: done,
failed before the server acted, done with the answer lost. `CloudApi` has the account (external,
from how the code uses it), the ranged download of `providers/mod.rs` and the callers in
`sdk-wasm`; the other modules have the operations of one provider each. WebDAV is four
drives, by what the probe of the server finds (Nextcloud chunking, tus, partial PUT, none).

`CloudStore` is the abstract store: an object is replaced at once by the whole content of one
upload, an upload is stored at most once and not after it was answered, and one that failed
may or may not have been stored. `ImplementsStore` maps the objects of the account to the job
whose content they hold and is checked for every drive and scenario. `ConditionalReplaces`
excludes S3 and pCloud, which compare before they write; `SessionsReleased` excludes Dropbox,
whose sessions expire; `PullIsWhole`, `PullCompletes`, `JobsEnd`.

### The client (`MCClient`)

- **`BlobStream`**. A blob is a sequence of units that carry the key they were made under.
  What is delivered is a stored file, cut anywhere, damaged, spliced with another file, or
  with frames moved; it arrives in any fragments. `HandsOnAPrefix`, `AcceptedIsWhole`,
  `AgreesWithOneShot` (the flow against the one-shot function as its reference), `UploadOpens`,
  `NonceOnce` (with `IndexLimit` for 2^32). A push to an upload is at most a chunk, as its
  callers slice the file.
- **`ManifestMerge`**. Two devices whose clocks may differ merge, edit and store. `OnePrimary`,
  `NeverShutOut`, `RemovalWins`; `OrderIrrelevant`: for edits stamped later than those before
  them the order of the copies decides nothing but the primary flag, and not that one either
  unless two copies hold one stamp with different flags. `MergeCommutes`, which leaves the
  exception out, is violated. Beside it the rows: `RowsConverge` where stamps differ.
  This is a property of the algorithm: nothing creates a `ConflictResolver`, so a save
  overwrites the body without a merge of rows (`VaultLifecycle.ts:871`, `RUpload`).
- **`ProviderMove`**. One file, the two bodies, the logs with their flags, moves, saves, a
  crash anywhere, and the replay and reconciliation of an unlock. Bodies and logs are met in
  the order of the manifest (`mvOrder`), whichever it is. An update is logged under the
  provider that is active at that moment (`MvSwitch` changes it) and run in a later step; a
  save clears the log and then the flag of one provider after the other. `ContentKept`;
  `SessionReadable`, for the sessions that opened with a row that could be read (`mvFound`);
  `UnlockKeepsBlob`, unless the last update was logged while another provider's log held one
  (`mvSplit`): then the code does delete a blob its row comes to name (section 8).
- **`DeviceEnroll`**. The existing device, two new ones, what the relay has forwarded, the
  header they write to and the saves of others. Keys are named by channel, joiner and attempt,
  so that two sides agree exactly when they used each other's public keys. The existing
  device's page has its globals and one record per session: "Try again" starts two enrolments,
  by the button and by the effect, which share the page, and an envelope being sealed is sent,
  and its timer armed, after the socket has closed too. `SealedForCompared`, but for an
  envelope sealed while the page showed the code of the other session (`crossed`, only after
  "Try again"); `SlotsKept`, but for a save that had read the header before (`trampled`) and,
  on a primary that compares and then stores (`atomic` is false), an upload compared before
  (`raced`). A socket that a failed attempt of a new device left open is not followed after
  its next scan.
- **`VaultAccess`**. Devices unlock, lock, add a passkey, and take the six operations that
  rewrite the header: save, new passphrase, revocation, enrolment, recovery, migration of the
  device key; each is a read, a patch and an upload that may fail, lose its answer or be cut
  by a crash. On a primary that is not `vaAtomic` a conditional upload compares in a step of
  its own (`VaCompare`). `StoredOpens`; `AccessLinear`, until a write replaces a header its
  writer had not read; `KeysReleased`, which counts the sessions of unlocks that threw after
  the session was opened (`thrown`); `EnrolledOpens`; `HeaderParses` is violated.
- **`JournalCodec`**. Journals are appended, flushed, cut, damaged, swapped and replayed.
  `ReadWasNoted`, `WholeOrNothing`; the order of entries is promised of cut files only.

## 6. Runs

| Run | Constants | What it shows |
|---|---|---|
| `VaultSave` | 1 provider, 2 sessions; 2 logged mutations and 1 `vault_meta` write, or a mutation, a trash delete and a row of another device | `DurableAcked`, `UnsavedIsScheduled`, `BodyKeepsRows` over saves, failures, locks, crashes and unlocks |
| `VaultProviders` | primary and secondary, 1 mutation over 2 sessions or 2 edits in one | the same two invariants, `TypeOK` and `EditDurable` with providers that come, go, are cached and switched |
| `VaultLiveness` | 1 provider, 1 mutation, 1 `vault_meta` write, 2 sessions | `SavedEventually` under fairness |
| `ShareUploads` | 1 share, 1 blob id, 4 requests, no restart | the four invariants of section 4 and `TypeOK` |
| `ShareLiveness` | 1 share, no blob ids, 3 requests, 1 restart | `EventuallyPurged` under fairness; what a restart does to the invariants of section 4 is proved |
| `RelayState` | nine lanes; 3 requests or sessions, 2 shares, flows, hosts or tabs, clocks of 1 to 4 steps | `LimitsInv`, `UploadsInv`, `SlotsExact`, `AuthInv`, `EnrollInv`, `NeverOwnerless`, `ChanInv`, `GateInv`, `StatsInv` |
| `SftpTasks` | eight plans of 2 or 3 tasks on 2 connections, 1 drop | `LinkInv`, `TransfersWhole`, and `TasksEnd` under fairness |
| `Providers` | 10 drives, ten scenarios of 2 jobs, 2 faults | `CloudInv`, the refinement `ImplementsStore`, and `JobsEnd` under fairness |
| `ClientCore` | seven lanes; files of up to 3 units in chunks of 2, 3 providers, 2 devices whose clocks are up to 2 s apart (1 is allowed), 2 joiners, 3 header slots, 2 header operations, 2 journals | `BlobInv`, `AgreesWithOneShot`, `ManifestInv`, `OrderIrrelevant`, `MoveInv`, `UnlockKeepsBlob`, `EnrolInv`, `AccessInv`, `AccessLinear`, `JournalInv` |
| `SavedIsWhole` | files of 3 and 4 units | violated: what the recipient's page reports as saved is the whole file |
| `HeaderParses` | 3 devices, 2 header operations | violated: the stored header parses |
| `MergeCommutes` | 2 devices, 3 edits | violated: copies merge to one manifest in any order |

*Why the bounds are enough to be interesting.* Two sessions are what a crash and its recovery
need. Two logged mutations let one be made before and one during a save. Two providers let a
save be partial, a provider be absent and the active one change. Four requests fill a bundle,
retry a blob, seal and fetch or revoke; with a single share id all of them meet. In the relay
every cap is one or two, so that two requests reach it and a third passes it. The clocks run
past the windows, blocks and challenge and cookie lifetimes beside them; that of the
enrollment lane is short: a device cookie is refreshed there, and no longer behaviour sees it
lapse. Three sessions on one channel id are a pair and the one that finds it swept or taken.
Two jobs are an operation and its rival; two faults are a failure and that of the clean-up
after it. A file of two chunks has a first, a last and a short one, with every way to cut it;
two header operations are what one device does between another's read and write. Of the
devices that enrol one has its provider set up and one asks for the configuration. Two unlocks
per behaviour are too few for the version floor of a manifest to refuse one. The bounds that
cut behaviours are `MaxSessions`, `MaxCrashes`, the `Max...Time`, `...Time`, `MaxRec`,
`StDays`, `MaxDrops`, `MaxFaults`, `MaxPushes`, `MaxClock`, `MaxEdits`, `MaxUnlocks`,
`MvSessions`, `EnTries`, `EnFaults`, `EnSaves`, `VaMaxOps`, `VaMaxThrows`, `JMaxEntries` and
`JMaxFaults`; requests, sessions and jobs are bounded by their sets. Some lanes are cut
further. Of the SFTP hosts one changes its key. The active provider changes while a copy runs,
since it is read when a copy has ended, and after the last unlock nothing is saved, since
nothing reads it (`ReadLater`). Passkeys, and unlocks that throw late, are in behaviours with
one header operation and an atomic primary (`FewThrows`). An enrolment has a second try or a
save of another device, not both, and with a primary that is not atomic neither a save nor a
broken socket (`OneHardship`). The theorems are about all of them. Symmetry is used for model
values that are only compared (requests of `ShareUploads`, shares, calls and SFTP hosts of
`RelayState`), never with liveness. Deadlock is checked in `Providers`; elsewhere a system
whose requests, tasks or sessions are used up may rest.

*Lanes.* The modules of `MCRelay`, and those of `MCClient`, have no variable in common. A
behaviour fixes its lane at the start and only that module moves, so a run visits the sum of
the state spaces and every invariant sees every state of its module.

*Mutants.* For every property of a passing run `PROJECT.json` names a mutated definition
under which TLC finds it violated; for a conjunction, one for every part.

*Fairness.* In the client: timers and promise continuations run (weak fairness), and
IndexedDB commits what it was given. A provider that is retried for ever answers in the
end, so the fallible steps of a save are strongly fair. Nothing is assumed of the user, of
locks or of other devices; `SavedEventually` ends when the tab is locked. In the relay: the
sweeper is a task with an hourly interval (weak fairness of its steps), and a directory
that cannot be removed now can be removed at some later tick (strong fairness of
`SweepRemove`). Nothing is assumed of clients or handlers. Over SFTP the relay polls every
connection and the SSH server answers or times out (weak fairness of its steps); the tasks
of a page take turns on the promise chain, which is first come first served (strong
fairness of a task). A job at a storage provider is code that runs until it has its result
(weak fairness), whatever the fates of its requests.

## 7. Proofs

Eight modules hold theorems, all checked by TLAPS. Nothing is assumed but the named `ASSUME`s
of the modules, which TLC evaluates on every instance: caps, windows and bounds are numbers,
sets that are counted are finite, placeholders (`None`, `NoReq`) are not values. Those that say
more are these. `VaultLifecycle`: the primary is a provider, the kinds of mutations are
disjoint. `ShareRelay`: there is a share id, and the ids of bundle blobs are not the two
reserved names (`is_valid_client_blob_id`). `RelayEnrollment`: tokens and invites are
different values. `SftpGate`: a block for failures and one for too many hosts last longer
than the window of failures (an hour, ten minutes). `VaultAccess`: devices are numbered, and
the enrolled ones fit into the slots. `SftpLink`: a task transfers no file of the name `/`,
which stands for a folder. Providers, mutations, shares, requests of the share
store, flows, cookies, hosts, addresses, joiners, sockets and tasks may be infinitely many.

In each module the invariant the run checks is not inductive, and an inductive one is proved
from which it follows. TLC checked every one of these on the lanes and runs of section 6
before it was proved. Each step proof has one step per action.

**`VaultLifecycleProofs`** (`TypeCorrect`, `AckedIsDurable`, `UnsavedScheduled`,
`BodiesKeepRows`, `EditsDurable`). `DurableAcked` speaks of bodies and logs, and a save replaces
a body by what the database held when it was copied, after which the log is deleted.
`DurabilityInv` adds what links them:

- `FreshInv`: a mutation is started once; its call returns after it left `pending`;
- `PendingInv`: a mutation between its two halves is in the log or at risk, and at risk if
  a save runs (this is where the `overlap` window enters);
- `LoadedInv`: the open database holds all that must survive, once the log was replayed;
- `RecoveryInv`: a log that an unlock is clearing is not needed any more;
- `SaveInv`: the copy under way and every body this save has uploaded hold all that must
  survive, and only logs of such providers are cleared.

`RowsInv` (for `UnsavedIsScheduled` and the action property `BodyKeepsRows`) says that the
cached body and the other device's database hold nothing of this tab the body lacks
(`CopiesAt`), and that a row the save under way missed has marked its provider meanwhile
(`ScheduledAt`). `EditInv` says that every copy of the manifest that can still be written to
the primary, in an edit, in a save or in memory, holds the edits that are promised. Most
actions touch few of these variables, so the step proofs go through frame lemmas (`FrameCore`,
`EditFrame`); `ExposeRisk` and `OverlapRisk` are the facts about windows they share.

**`ShareRelayProofs`** (`TypeCorrect`, `NoDirectoryOrphaned`, `RevokedLeavesNothing`,
`RecordedWhole`, `PublishedServed`). `StoreInv` adds to `NoOrphanDir` that the sweeper's
victims still have their rows and the directories it removed stay removed (`SweepInv`; without
it a share could be created again between `SweepRemove` and `SweepDelete`, which would then
delete the row of a live directory), and that files exist in directories only (`FilesInv`).
`UploadInv` is about the handlers: what each can be at each step (`RolesInv`); an uncontested
blob has one upload, which owns its temporary and its renamed file and records the blob last
(`WholeInv`); a share that is current has handlers of its own kind only (`KindInv`), keeps its
directory while it can be filled (`PlaceInv`), and once published has nobody to revoke or
purge it (`ServedInv`). The attempt to prove `WholeInv` showed that a blob is also contested
when its upload is repeated after the first was recorded: the repeated one truncates the
temporary file and replaces the blob before it records it. `BeginUpload` says so since.

**`RelayAccessProofs`** (`CookiesHold`, `OwnersRemain`, `CredentialsHold`, `ChannelsHold`).
`AuthInd`: a challenge is open only while its flow has no cookie (`OpenChallenge`,
`Unanswered`), what was admitted is remembered until the cookie expires (`Remembered`, against
the pruning of `consumed`), a flow that holds a cookie has it in the jar under the name of its
category, which the statistics and the administrator share (`JarHolds`). `EnrollInd`: a
credential that enrolled a device is in no table and about to be put into none (`Spent`,
`Inserting`: the server's start and the command line run between each other's statements), and
a token in the table is in the file, was seen, is lost, or its writer is about to write it
(`ShownSoon`). `NeverOwnerless` needs little more than types, since the statement that revokes
counts the owners again; what the gate saw is not used. `ChanInd`: an object belongs to one
channel id for ever and seats only who joined it (`OneId`), a session keeps its seat and its
registered object until the sweeper took them (`KeepsSeat`), and the bytes counted under the
first lock and not yet queued under the second are within the cap (`BytesCounted`, a count of
cells).

**`RelayLimitsProofs`** (`SlotsHold`, `WindowsHold`, `UploadsHold`, `GateKept`, `LinkHolds`).
`WindowsInd` says of every list of times that it holds what was admitted in the window and may
not be forgotten yet: an entry that is pruned is too old to count in any interval that ends
now or later. So a bound on the list is a bound on every interval of the history, and a
restart, which empties the lists, empties the history with them. `UploadsInd`: the budget's
entry covers what was spent today (`BudgetInd`), the total of a bucket covers what is
attributed to it and what a release under way has detached (`Accounted`: `register` and
`release` change the share under one lock and the total under the next), and a bucket that is
measured has one upload or release under way, with room for it (`Measured`). Sums of bytes are
cardinalities of sets of cells, so that the theorems on finite sets carry the arithmetic. The
SFTP trackers do not know the sessions in flight, so `GateInd` counts those by how far each
has come. `GuessesAt`: until a block falls, the count of a window covers wrong passwords and
verdicts still out but for the sessions of an older window. `LateAt`: the sessions that may
fail uncounted and those that did were past the check when the block fell, as is, while a
block is on, every session past the check. `GuessesAt` needs that a block of either kind
outlasts the window. `LinkInv` says that a call can be answered, but not where it is.
`LinkInd` does: an open connection has at most one call under way, and its frames, what the
relay waits for and what the server was asked are those of one phase (`OpenOk`, `Phase`:
asked, with the relay, at the server, answered), so that no frame can be taken for another.
The handles of a connection are no younger than its counter (`Shape`), the total is the sum of
its buffers (`BuffersCounted`), and a folder that a walk has passed exists (`FolderOk`).

**`VaultAccessProofs`** (`EnrolmentHolds`, `AccessKept`, `NothingLost`). `EnInd` says what the
page of the existing device, its sessions and a new device may hold (`PageFine`, `SesFine`,
`JFine`) and what a message on its way proves (`MsgFine`): a shard, that its keys were
compared or sealed under the code of the other session; "done", that a slot was written. While
there was one session, a code shown is that session's (`OneCode`), so nothing was crossed.
`AccInd`: every header that is stored, cached or being patched opens with its passphrase, and
a device's sessions in WASM memory are counted by its state, its operation and the unlocks
that threw (`RecordFine`); a conditional operation as old as the file has read the file's
header, and versions are counted by operations that have ended (`JobsFine`); and until a write
replaced a header it had not read, or was past a hole, the file is the header the operations
make one after the other, parses, names no device twice and holds every device's slot under
the key it has, or had before the change under way (`SlotsFine`).

**`Loops`**. What the code computes in a loop is, in the models, a recursive function of the
round. The installed provers cannot instantiate an induction principle whose parameter is an
operator, so the principle is proved here for sets of numbers, from the well-foundedness of
`<` (`LeastNumber`, `SetInduction`): a predicate is the set of the numbers it holds of.
`Iterates` says that a loop over the states of a set has a run.

**`ClientDataProofs`** (`MoveKeepsFile`, `UnlockSparesRow`, `MergesKeepPromise`,
`OrderOfCopies`, `JournalReadsWhatWasWritten`).

- `MoveInd`: a move past its copy has a blob later than any pending delete (`MoveFine`); while
  one log holds all the updates (`~mvSplit`), the row it leaves behind is not to be deleted
  (`LogsFine`); and some blob is later than anything that is (`Latest`), which is why the content
  is never lost, in whatever order an unlock meets the bodies and whichever providers were active.
- `ManifestInd`: a manifest that is held or stored is well formed, has one active primary and
  is not newer than the clocks allow (`GoodManifest`). A merge is a loop over copies; its
  invariant is that every entry comes from a copy, and that no copy has a better one.
  After five edits that met no merge every provider may end up removed in a merge, which
  `validate_manifest` accepts; the unlock then throws for want of a primary, so that no device
  holds or stores such a manifest. This is what `GoodManifest` says.
- For `OrderIrrelevant`, an entry is named by its provider and its stamp: while no edit was
  stamped early, two copies that agree on these agree on all but the flag (`StampNames`).
- For `RowsConverge` the types of the tables are enough (`RowsInd`): of two rows with
  different stamps both sides keep the later.
- `JournalInd`: the file of a journal is a sequence of serialized entries, of which storage
  may have cut the end (`Serialized`, `Written`, `CutFiles`); the parser stops at the first
  that is not whole and refuses what was not made under its key.

**`BlobStreamProofs`** (`StreamsHold`). The proof is about units. Whatever is delivered is made
of units of the file, units of the other file and broken ones (`Stock`), and a unit of the
file's key is one that its upload made (`Known`). So AES-GCM opens under index `i` nothing but
the `i`-th chunk (`AeadIs`), however the wire was moved or damaged. `DlInd` follows from that:

- a reader in step (`Reading`) has opened the frames `0..i-1` and no other, they lie at their
  places in what was delivered, it has handed on exactly their bytes, and its buffer and the
  trimmer's tail are what followed; push by push (`PushInStep`), for the loop of `push()` by
  `Loops`;
- a download that meets anything else has failed; the recipient's page goes on, but its buffer
  is not drained, so that it meets the same frame at every further push and hands on nothing
  more (`Stalled`, `PushStuck`);
- at the end the footer, if it matches, is the HMAC of all the frames, and as many as the
  reader has hashed (`FooterTells`): it has opened all of them.

`UpInd`: the blob so far is the header and the frames of what was pushed, of which only the
last may be short, under the indices from 0 on (`Framing`, `Numbers`). For `UploadOpens` the
loop of `decrypt_file_v7` is run on that blob (`RoundGoes`, `UploadDecrypts`).

**Only model-checked**, and why:

- `SavedEventually`, `EventuallyPurged`, `TasksEnd`, `JobsEnd`: liveness under fairness.
- `AgreesWithOneShot`: it compares two loops over what was delivered, one of which knows only
  a part of it.
- `StatsInv`: sums over what was recorded against counters that a flattened batch is folded
  into; and the calendar, whose divisions the provers do not manage for every day.
- `TransfersWhole`: the invariant would follow the content of each inode from the first chunk
  of an upload to its rename, beside uploads of the same name that unlink it.
- `CloudInv` and the steps of `ImplementsStore`: no obstacle of principle, but the call stacks
  of the client and of seven providers have to be in the invariant.

## 8. What the work has shown about the code

Three runs are violated and are findings, with both sides quoted in `PROJECT.json`:

- `HeaderParses`: a revocation empties a slot in place and decrements the count
  (`ByoSettings.svelte:327`), an enrolment writes at the slot numbered by the count
  (`DeviceEnrollment.svelte:654`). After the revocation of a device that is not in the last
  slot, the next enrolment overwrites another device, the count is not the number of filled
  slots, and `VaultHeader::parse_v2` rejects the header for every device and for recovery.
  `first_empty_slot` (`vault_format.rs:466`) is not used.
- `SavedIsWhole`: the recipient's page looks at neither answer of its stream
  (`ShareRecipient.svelte:440`, `:455`), which report errors in a field and do not throw; a
  cut or damaged share is reported as saved.
- `MergeCommutes`: promoting a provider clears the flag of the old primary without a new stamp
  (`manifest.rs:573`), so two copies may hold one stamp with different flags, and the merge
  keeps the one it read first. The attempt to prove `OrderIrrelevant` for any number of edits
  found it: three edits, each stamped later than those before, are enough for the primary to
  depend on the order in which providers answer. The comment says "commutative, associative"
  (`manifest.rs:219`); `OrderIrrelevant` now says what remains true.

The following are visible in the models, as windows and exceptions of the properties.

*Saving.*

- A mutation logged while a save runs is wiped by that save's `clearWal`
  (`VaultLifecycle.ts:974`): window `overlap`.
- Recovery clears the log and the flag before anything was saved (`VaultLifecycle.ts:704`;
  `IndexedDBWal.ts:19` says "5. Save vault, clearWalEntries(vaultId), ..."): window `recovered`.
- A body is uploaded with no expected version (`VaultLifecycle.ts:872`; SPEC.md:1288 says "On
  ConflictError: run ConflictResolver, then retry"): window `overwritten`. No
  `ConflictResolver` is ever created.
- Journal entries hold `{sql, params}` and are replayed as if they held columns
  (`VaultJournal.ts:183`): the replay fails and the journal is deleted. Each entry has its own
  HMAC, so that entries that are dropped, repeated or reordered as a whole go unnoticed.
- `switched`: `onMutate` logs under the provider that is active when it starts and its
  caller marks the one that is active after the awaits (`ByoDataProvider.ts:498`).
- `restoreItem` and `permanentDelete` never mark their provider dirty
  (`TrashManager.ts:86`), so `UnsavedIsScheduled` does not cover trash mutations.
- `torn`: a provider whose body can be neither downloaded nor found in the cache is
  skipped at unlock (`VaultLifecycle.ts:607`) and saved like any other once it is
  reconnected; SPEC.md:1250-1257 says such an unlock blocks or loads read-only.
- The navigator lock is not released when a later step of `unlockVault` throws
  (`VaultLifecycle.ts:323`): the next attempt in the same tab is `UnlockContended`.
- An unreachable primary is not looked up in the cache of bodies
  (`VaultLifecycle.ts:448`), which ends in `UnlockNoKeys`.
- A manifest edit that joins a running save may return without being saved
  (`VaultLifecycle.ts:968`); `EditDurable` excludes edits that met a save.
- Ids are `AUTOINCREMENT` per device (`VaultLifecycle.ts:1875`): two devices give the same id
  to different rows, and a merge of rows keeps one of them.
- Of manifest entries of the same second the first that was read stays, and promoting a
  provider clears the flag of the old primary without stamping its entry. A save writes over
  copies of the manifest it has not merged.
- A move deletes the source blob before anything is saved (`ByoDataProvider.ts:1077`). A crash
  before the dirty flag is in IndexedDB, or between the uploads of the two bodies, leaves a
  row that points at the deleted blob, although the content is kept under another name. A
  failed delete is retried at the next unlock only if no save cleared the log before.
- Moves logged under different active providers (`ByoDataProvider.ts:1051`): an unlock replays
  one log after the other, in the order of the manifest, so an older move may win and a delete
  may be retried for the blob its row comes to name (`mvSplit`). A log under a provider that
  is neither source nor destination is not cleared by the save after the move. Rows of a file
  that is in two bodies come from the first in the manifest, while the comment says that the
  primary wins (`VaultLifecycle.ts:1725`).
- Rows of `share_audit` are in no saved body (`copyProviderRows`, `VaultLifecycle.ts:1768`).

*Keys and enrollment.*

- A change of passphrase, a recovery, the migration of a device key and every save upload the
  header unconditionally; a change of passphrase uses a hard-coded file name
  (`ByoSettings.svelte:381`).
- Device key and slot are changed one after the other (migration, recovery): a crash between
  them leaves a device whose key does not open its slot.
- S3, pCloud and SFTP compare the expected version and write in two requests (`s3.rs:820`,
  `pcloud.rs:263`, `SftpProvider.ts:291`): of two revocations or enrolments that both passed the
  comparison, one is lost.
- An unlock that throws after the session was opened leaves the session in WASM memory
  (`VaultLifecycle.ts:377`, `:413`, `:521`, `:610`, `:646`), and a passkey unlock the one it
  had opened before (`ByoUnlock.svelte:91-118`).
- "Try again" starts an enrolment, and so does the effect that sees the new step
  (`DeviceEnrollment.svelte:942`, `:1027`): two sessions share one page. The code that is
  shown may be that of one and the shard be sealed for the other, whose code nobody compared.
- An enrolment that fails after its upload deletes the record and the key of a device whose
  slot is stored. A slot that does not open leaves a session in WASM memory.
- The QR code is shown before the socket is open, so the new device's key may go nowhere;
  the new device has no timer and may wait for ever after the codes were compared; its
  "Try again" keeps the mark that a shard was received.

*Relay.*

- `contested`: two uploads of one bundle blob share a temporary file
  (`share_relay.rs:827`). The retry of an upload that had succeeded, when it fails, deletes
  the blob of the first (`delete_blob`), sealed or not. An upload in flight when the bundle is
  sealed still writes (`share_relay.rs:793`; `share_store.rs:200` says "a sealed share
  rejects any follow-up writes regardless of token").
- `late`: a handler rolls back by share id (`share_relay.rs:503`), so one that outlives its
  share revokes a new share of the same id.
- `share_store.rs:67-71` says that the unsealed lifetime "applies only to bundles"; the
  sweeper takes any unsealed share.
- The daily budget of an address with bodies on both sides of midnight is reset by each of
  them in turn (`rate_limit.rs:209`). A body without `Content-Length` passes the check of the
  storage cap. A reservation larger than the hourly budget is admitted when it is the first.
- The owner middleware and the handler behind it are two steps: an owner who was revoked in
  between still acts. The bootstrap token's row and file part in a crash, and without one when
  a starting server and the command line interleave: each writes or unlinks the one file after
  its own statements (`enrollment_admin.rs:997`, `admin.rs:192`).
- An SFTP block is read at the upgrade only, before the slot is taken (`relay_ws.rs:128`,
  `:137`): every session past that check may still guess, more than there are slots. A refund
  may go to a newer window.
- A revocation is answered with 204 although the files could not be removed
  (`share_store.rs:363`); they stay on the disk until a tick of the sweeper removes them.
- `cookie_name_for_purpose` gives an `admin:` cookie the name of the statistics
  (`relay_auth.rs:45`), so a flush displaces it.

*SFTP and providers.*

- A rename unlinks the target first (`sftp_relay.rs:1167`), so a failure in between leaves no
  file; the temporary names of two connections may be the same.
- Google Drive: two devices may create two root folders. OneDrive streams and tus uploads ignore
  the expected version; S3 and pCloud compare and then write. A ranged download of a replaced
  object is noticed where the server answers with a version, and torn elsewhere (`Trusts`).
  S3 leaves a multipart upload behind when the abort fails as well.
- Statistics: the provider mix counts device-days; some kinds are known and never counted;
  error class `Aborted` is dropped by the client.

## 9. What is not modelled, and why

`PROJECT.json` has the reason per component. In the modelled parts:

- *Saving*: adding, removing and promoting providers changes the constants of
  `VaultLifecycle` (their effect on the manifest is in `ManifestMerge`). A mutation is a set
  element, so the order of two mutations of the same row is not told apart. In `ProviderMove`
  an unlock is one step, in which every provider answers or is in the cache.
- *Shares*: in `ShareRelay` admission by the limits is a rejection or a failure in mid-stream,
  and `RelayLimits` has the limits with handlers of their own; the two are not composed.
  `remove_dir_all` removes all of a directory or nothing. Bundle ids are fresh UUIDs; file
  ids are chosen by clients and may be used again.
- *Cryptography* is ideal: keys, HMACs and commitments are compared, never computed; the
  hybrid encapsulation, Argon2 and the byte layouts are left out.
- *Providers*: the encoding of requests and the parsing of answers; paging of lists; token
  refresh other than a refused request. Of SFTP what section 5 lists.
- *Not modelled at all*: the offline monitor and the transfer queues (stores of the user
  interface), OAuth (a redirect flow of external services), photos and search (derived data),
  the relay's configuration and stateless filters, the installation scripts but for `claim-token`.
