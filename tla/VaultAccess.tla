---------------------------- MODULE VaultAccess ----------------------------
(***************************************************************************)
(* Who may open a vault.  The header of vault_manifest.sc holds the vault  *)
(* key wrapped under the passphrase and under the recovery key, and a slot *)
(* for each enrolled device; devices read the header, patch it and upload  *)
(* it again: a save, a new passphrase, a revocation, an enrolment, a       *)
(* recovery, and the move of a device's key into a passkey.  Revocations   *)
(* and enrolments upload on condition that the file is the one they read,  *)
(* which some primaries check as they write and others (S3, pCloud, SFTP)  *)
(* before they write; the others overwrite whatever is there.              *)
(*                                                                         *)
(* Cryptography is ideal.  Passphrases, salts, recovery keys, device ids   *)
(* and device keys are named by the operation that made them, and the      *)
(* header's HMAC is what it covers.  The vault key never changes.          *)
(***************************************************************************)
EXTENDS Maps, FiniteSets, Sequences

CONSTANTS
    VaDevices,      \* devices, 1.. in the order of their slots
    VaEnrolled,     \* how many of them are enrolled at first
    VaSlots,        \* slots of a header (VAULT_MAX_DEVICES)
    VaPasskeys,     \* devices with a passkey
    VaMaxOps,       \* bound: header operations begun
    VaMaxThrows     \* bound: unlocks of a device that throw with a session open

\* A device id or key: the device, and the operation that made it.
VaIds == VaDevices \X Nat
\* DeviceSlot, and the headers, of which the HMAC covers all fields but itself.
DeviceSlots == [id : VaIds, key : VaIds]
VaWraps == [salt : Nat, phrase : Nat]
VaSlotArrays == [1..VaSlots -> DeviceSlots \cup {None}]
VaMacs == [salt : Nat, pass : VaWraps, rec : Nat, slots : VaSlotArrays,
           count : 0..VaSlots, epoch : Nat]
VaHeaders == [salt : Nat, pass : VaWraps, rec : Nat, slots : VaSlotArrays,
              count : 0..VaSlots, epoch : Nat, mac : VaMacs]
\* The operations on the header.
Ops == {"save", "change", "revoke", "enrol", "recover", "migrate"}
VaJobs == [op : Ops, n : Nat, h : VaHeaders, ver : Nat, id : VaIds \cup {None},
           key : VaIds \cup {None}]
\* A device: its page, its record and key in IndexedDB, a passkey, the headers in memory and
\* in the cache, the operation under way, its sessions in WASM memory and those of unlocks
\* that threw.
VaRecords == [st : {"locked", "open", "adopting", "recovering"}, id : VaIds \cup {None},
              key : VaIds \cup {None}, prf : BOOLEAN, hdr : VaHeaders \cup {None},
              cache : VaHeaders \cup {None}, job : VaJobs \cup {None}, live : Nat,
              thrown : Nat]

ASSUME AccessAssumption ==
    /\ {VaEnrolled, VaSlots, VaMaxOps, VaMaxThrows} \subseteq Nat
    /\ VaDevices \subseteq Nat \ {0} /\ IsFiniteSet(VaDevices)
    /\ VaPasskeys \subseteq VaDevices
    /\ VaEnrolled \in 1..VaSlots /\ 1..VaEnrolled \subseteq VaDevices
    /\ None \notin VaIds /\ None \notin DeviceSlots
    /\ None \notin VaHeaders /\ None \notin VaJobs

VARIABLES
    vaFile,     \* vault_manifest.sc on the primary: its header and version
    va,         \* the devices
    vaOps,      \* operations begun; the number of an operation names what it makes
    vaLogical,  \* the primary finds the manifest under its logical name too
    vaAtomic,   \* the primary compares the version in the step that writes
    vaCompared, \* devices whose conditional upload has passed the comparison
    vaWant,     \* history: the header, had each stored write been one step (until vaStale or vaHole)
    vaStale,    \* history: a write the version did not guard replaced what it had not read
    vaHole,     \* history: an enrolment wrote past an empty slot
    vaExcused   \* history: devices revoked, cleared, or parted from their key

accVars == <<vaFile, va, vaOps, vaLogical, vaAtomic, vaCompared, vaWant, vaStale, vaHole,
             vaExcused>>

\* What byo_vault_compute_header_hmac covers.
Covered(h) == [salt |-> h.salt, pass |-> h.pass, rec |-> h.rec, slots |-> h.slots,
               count |-> h.count, epoch |-> h.epoch]
MacOk(h) == h.mac = Covered(h)
Resealed(h) == [h EXCEPT !.mac = Covered(h)]

\* VaultHeader::parse: the declared count of slots must be the count of active ones.
Filled(h) == {i \in 1..VaSlots : h.slots[i] # None}
Parses(h) == h.count = Cardinality(Filled(h))

\* The passphrase's KEK comes from the salt in the header.
PassOpens(h, phrase) == h.pass = [salt |-> h.salt, phrase |-> phrase]
RecOpens(h, key) == h.rec = key

\* The slot of a device id, 0 when there is none.  (An id is in one slot at most.)
SlotAmong(h, id, n) ==
    IF \E i \in 1..n : h.slots[i] # None /\ h.slots[i].id = id
    THEN CHOOSE i \in 1..n : h.slots[i] # None /\ h.slots[i].id = id
    ELSE 0
SlotOf(h, id) == SlotAmong(h, id, VaSlots)

\* ByoSetup, and the enrolments before the first step.
Created(n) ==
    Resealed([salt |-> 0, pass |-> [salt |-> 0, phrase |-> 0], rec |-> 0,
              slots |-> [i \in 1..VaSlots |->
                           IF i <= n THEN [id |-> <<i, 0>>, key |-> <<i, 0>>] ELSE None],
              count |-> n, epoch |-> 0, mac |-> None])
NewDevice(d) ==
    LET mine == IF d <= VaEnrolled THEN <<d, 0>> ELSE None IN
    [st |-> "locked", id |-> mine, key |-> mine, prf |-> FALSE, hdr |-> None, cache |-> None,
     job |-> None, live |-> 0, thrown |-> 0]

AccInit ==
    /\ vaFile = [h |-> Created(VaEnrolled), ver |-> 0]
    /\ va = [d \in VaDevices |-> NewDevice(d)]
    /\ vaOps = 0 /\ vaLogical \in BOOLEAN /\ vaAtomic \in BOOLEAN /\ vaCompared = {}
    /\ vaWant = vaFile.h /\ vaStale = FALSE /\ vaHole = FALSE /\ vaExcused = {}

hist == <<vaWant, vaStale, vaHole, vaExcused>>
primary == <<vaLogical, vaAtomic, vaCompared>>
-----------------------------------------------------------------------------
(***************************************************************************)
(* Unlocking.  Sessions live in the WASM registry; live counts those of a  *)
(* device.                                                                 *)
(***************************************************************************)

\* The header comes from the primary or, when that fails, from the cache.
Readable(d) == {vaFile.h} \cup ({va[d].cache} \ {None})

\* How unlockVault may end with a passphrase: "no" before a session exists, "closed" after it
\* closed the session.  It throws and leaves the session open when the manifest, the slot or
\* a body does not decrypt, the device key cannot be had or the manifests do not merge.
UnlockEnds(d, h, phrase) ==
    IF ~Parses(h) \/ ~PassOpens(h, phrase) THEN {"no"}
    ELSE IF ~MacOk(h) THEN {"closed"}
    ELSE IF va[d].key = None \/ SlotOf(h, va[d].id) = 0 THEN {"thrown", "closed"}
    ELSE IF h.slots[SlotOf(h, va[d].id)].key # va[d].key THEN {"thrown"}
    ELSE {"thrown", "open"}

\* With a passkey the session is there before unlockVault runs, which throws also when the
\* header cannot be had or does not parse, or another tab holds the lock.
PasskeyEnds(h) ==
    IF ~Parses(h) THEN {"thrown"}
    ELSE IF ~MacOk(h) THEN {"thrown", "closed"} ELSE {"thrown", "open"}

\* Unlocked; a header read from the primary is kept in the cache.
Opened1(d, h) ==
    [va EXCEPT ![d].st = "open", ![d].hdr = h, ![d].cache = IF h = vaFile.h THEN h ELSE @]

\* Mutant: the early returns forget to close.
LiveAfterLeak(d, end) == va[d].live + (IF end = "no" THEN 0 ELSE 1)
\* A session more; closed again on the paths that close it.
LiveAfter(d, end) == va[d].live + (IF end \in {"open", "thrown"} THEN 1 ELSE 0)

\* The device after an unlock that ended so.
Ends(d, h, end) ==
    \/ /\ end = "open"
       /\ va' = [Opened1(d, h) EXCEPT ![d].live = LiveAfter(d, end)]
    \/ /\ end = "thrown" /\ va[d].thrown < VaMaxThrows
       /\ va' = [va EXCEPT ![d].live = LiveAfter(d, end), ![d].thrown = @ + 1]
    \/ /\ end \in {"no", "closed"}
       /\ va' = [va EXCEPT ![d].live = LiveAfter(d, end)]

VaUnlock(d, phrase) == \E h \in Readable(d) : \E end \in UnlockEnds(d, h, phrase) :
    /\ va[d].st = "locked" /\ va[d].job = None /\ va[d].id # None
    /\ Ends(d, h, end)
    /\ UNCHANGED <<vaFile, vaOps, primary, hist>>

\* The vault key itself is unwrapped; neither the passphrase nor a slot is needed.
VaPasskey(d) == \E h \in Readable(d) : \E end \in PasskeyEnds(h) :
    /\ va[d].st = "locked" /\ va[d].job = None /\ va[d].prf
    /\ Ends(d, h, end)
    /\ UNCHANGED <<vaFile, vaOps, primary, hist>>

\* A copy of the vault key is wrapped for the passkey.
VaAddPasskey(d) ==
    /\ va[d].st = "open" /\ d \in VaPasskeys /\ ~va[d].prf
    /\ va' = [va EXCEPT ![d].prf = TRUE] /\ UNCHANGED <<vaFile, vaOps, primary, hist>>

VaLock(d) ==
    /\ va[d].st = "open" /\ va[d].job = None
    /\ va' = [va EXCEPT ![d].st = "locked", ![d].hdr = None, ![d].live = @ - 1]
    /\ UNCHANGED <<vaFile, vaOps, primary, hist>>
-----------------------------------------------------------------------------
(***************************************************************************)
(* The operations on the header: what each makes of the header it read.   *)
(* n names the operation, d the device.                                    *)
(***************************************************************************)

NewSlot(d, n) == [id |-> <<d, n>>, key |-> <<d, n>>]

\* Mutant: the old salt stays in the header.
RewrappedOldSalt(h, n) == [h EXCEPT !.pass = [salt |-> n, phrase |-> n]]
\* byoVaultRewrapWithPassphrase makes a new salt, which is patched in with the slot.
Rewrapped(h, n) == [h EXCEPT !.salt = n, !.pass = [salt |-> n, phrase |-> n]]

\* The slot is cleared in place.
Revoked(h, id) ==
    IF SlotOf(h, id) = 0 THEN h
    ELSE [h EXCEPT !.slots[SlotOf(h, id)] = None, !.count = IF @ > 0 THEN @ - 1 ELSE @]

\* The slot written is the one after as many slots as are in use.
Enrolled(h, d, n) == [h EXCEPT !.slots[h.count + 1] = NewSlot(d, n), !.count = @ + 1]

Recovered(h, d, n) ==
    [Rewrapped(h, n) EXCEPT !.rec = n, !.count = 1, !.epoch = @ + 1,
        !.slots = [i \in 1..VaSlots |-> IF i = 1 THEN NewSlot(d, n) ELSE None]]

\* migrateDeviceKey looks among the first count slots.
MigratesAt(h, id) == SlotAmong(h, id, h.count)
Migrated(h, id, n) ==
    IF MigratesAt(h, id) = 0 THEN h
    ELSE [h EXCEPT !.slots[MigratesAt(h, id)].key = <<id[1], n>>]

Patched(j, d, h) == Resealed(
    CASE j.op = "save" -> h
      [] j.op = "change" -> Rewrapped(h, j.n)
      [] j.op = "revoke" -> Revoked(h, j.id)
      [] j.op = "enrol" -> Enrolled(h, d, j.n)
      [] j.op = "recover" -> Recovered(h, d, j.n)
      [] j.op = "migrate" -> Migrated(h, j.id, j.n))

Conditional == {"revoke", "enrol"}

\* An operation begins with the header it read; key is the device's key to restore.
Job(op, h, id, d) ==
    [op |-> op, n |-> vaOps + 1, h |-> h, ver |-> vaFile.ver, id |-> id, key |-> va[d].key]
Begins(d, job, key, live) ==
    /\ va[d].job = None /\ vaOps < VaMaxOps /\ vaOps' = vaOps + 1
    /\ va' = [va EXCEPT ![d].job = job, ![d].key = key, ![d].live = @ + live]
    /\ UNCHANGED <<vaFile, primary, hist>>

\* saveVault reads the header again, or falls back to the one of the unlock.
VaSave(d) == \E h \in {vaFile.h, va[d].hdr} :
    va[d].st = "open" /\ Begins(d, Job("save", h, va[d].id, d), va[d].key, 0)
\* The passphrase page reads the manifest by its logical name.
VaChange(d) ==
    va[d].st = "open" /\ vaLogical /\ Begins(d, Job("change", vaFile.h, va[d].id, d), va[d].key, 0)
VaRevoke(d, i) ==
    /\ va[d].st = "open" /\ i \in Filled(vaFile.h) /\ vaFile.h.slots[i].id # va[d].id
    /\ Begins(d, Job("revoke", vaFile.h, vaFile.h.slots[i].id, d), va[d].key, 0)
\* A device without a record opens the header with the passphrase, generates its key and
\* writes its slot.
VaEnrol(d) ==
    /\ va[d].st = "locked" /\ va[d].id = None
    /\ Parses(vaFile.h) /\ MacOk(vaFile.h) /\ vaFile.h.count < VaSlots
    /\ Begins(d, Job("enrol", vaFile.h, <<d, vaOps + 1>>, d), <<d, vaOps + 1>>, 1)
\* The recovery key opens a session; the user may leave the page again.
VaVerify(d, key) ==
    /\ va[d].st = "locked" /\ va[d].job = None /\ vaOps < VaMaxOps
    /\ Parses(vaFile.h) /\ RecOpens(vaFile.h, key)
    /\ va' = [va EXCEPT ![d].st = "recovering", ![d].live = @ + 1]
    /\ UNCHANGED <<vaFile, vaOps, primary, hist>>
VaLeave(d) ==
    /\ va[d].st = "recovering" /\ va[d].job = None
    /\ va' = [va EXCEPT ![d].st = "locked", ![d].live = @ - 1]
    /\ UNCHANGED <<vaFile, vaOps, primary, hist>>
\* The header is read again; the device generates a new key over its old one.
VaRecover(d) ==
    /\ va[d].st = "recovering"
    /\ Begins(d, Job("recover", vaFile.h, <<d, vaOps + 1>>, d), <<d, vaOps + 1>>, 0)
\* The device's key is replaced by one a passkey guards, then its slot is rewritten.
VaMigrate(d) ==
    /\ va[d].st = "open" /\ va[d].key # None
    /\ Begins(d, Job("migrate", vaFile.h, va[d].id, d), <<d, vaOps + 1>>, 0)
-----------------------------------------------------------------------------
(***************************************************************************)
(* The upload and what follows it.                                         *)
(***************************************************************************)

\* A primary that does not compare as it writes has compared: anything may be written
\* between this step and the upload's.
VaCompare(d) == LET j == va[d].job IN
    /\ ~vaAtomic /\ d \notin vaCompared
    /\ j # None /\ j.op \in Conditional /\ j.ver = vaFile.ver
    /\ vaCompared' = vaCompared \cup {d}
    /\ UNCHANGED <<vaFile, va, vaOps, vaLogical, vaAtomic, hist>>

\* Mutant: expectedVersion is not passed on.
AcceptsAny(d) == TRUE
\* Whether the primary accepts the upload.
Accepts(d) == LET j == va[d].job IN
    j.op \in Conditional => IF vaAtomic THEN j.ver = vaFile.ver ELSE d \in vaCompared

\* migrateDeviceKey refuses when its slot is not found, or not under the key it has.
Prepared(j) == j.op = "migrate" =>
    /\ MigratesAt(j.h, j.id) # 0 /\ j.h.slots[MigratesAt(j.h, j.id)].key = j.key

\* The device after its upload was confirmed.
Confirmed(d) == LET j == va[d].job IN
    CASE j.op \in {"save", "change", "revoke", "migrate"} -> [va[d] EXCEPT !.job = None]
      [] j.op = "enrol" -> [va[d] EXCEPT !.job = None, !.id = j.id, !.st = "adopting"]
      [] j.op = "recover" ->
           [va[d] EXCEPT !.job = None, !.st = "locked", !.id = j.id, !.prf = FALSE,
                         !.live = @ - 1]
\* Mutant: a failed migration keeps the new key.
FailedKeepsKey(d) ==
    [va[d] EXCEPT !.job = None, !.st = IF @ = "recovering" THEN "locked" ELSE @,
        !.key = IF va[d].job.op = "enrol" THEN None ELSE @,
        !.live = IF va[d].job.op \in {"enrol", "recover"} THEN @ - 1 ELSE @]
\* The device after its upload failed.  A migration restores the key, an enrolment drops
\* the one it made; a recovery has overwritten the old one.
Failed(d) == LET j == va[d].job IN
    CASE j.op \in {"save", "change", "revoke"} -> [va[d] EXCEPT !.job = None]
      [] j.op = "migrate" -> [va[d] EXCEPT !.job = None, !.key = j.key]
      [] j.op = "enrol" -> [va[d] EXCEPT !.job = None, !.key = None, !.live = @ - 1]
      [] j.op = "recover" -> [va[d] EXCEPT !.job = None, !.st = "locked", !.live = @ - 1]
\* The tab is gone; keys that were generated stay in IndexedDB.
Crashed(d) == [va[d] EXCEPT !.st = "locked", !.hdr = None, !.job = None, !.live = 0,
                            !.thrown = 0]

\* Devices whose slot the operation takes away, and d when it is parted from its key.
TakenBy(d) == LET j == va[d].job IN
    CASE j.op = "revoke" -> {e \in VaDevices : va[e].id = j.id}
      [] j.op = "recover" -> VaDevices \ {d}
      [] OTHER -> {}

Stored(d) == LET j == va[d].job IN
    /\ vaFile' = [h |-> Patched(j, d, j.h), ver |-> vaFile.ver + 1]
    /\ vaStale' = (vaStale \/ (~(j.op \in Conditional /\ vaAtomic) /\ j.h # vaFile.h))
    /\ vaHole' = (vaHole \/ (j.op = "enrol" /\ Filled(j.h) # 1..j.h.count))
    /\ vaWant' = IF vaStale' \/ vaHole' THEN vaWant ELSE Patched(j, d, vaWant)

\* Operations that change the device's own key along with its slot.
Rekeys == {"enrol", "recover", "migrate"}

\* The upload is stored, and the client learns of it, does not, or is gone.
VaStore(d, end) == LET j == va[d].job IN
    /\ j # None /\ Prepared(j) /\ Accepts(d) /\ Stored(d)
    /\ va' = [va EXCEPT ![d] = CASE end = "ok" -> Confirmed(d)
                                 [] end = "lost" -> Failed(d)
                                 [] end = "crash" -> Crashed(d)]
    /\ vaExcused' =
         LET parted == IF j.op \in Rekeys /\ end # "ok" THEN {d} ELSE {}
             back == IF j.op \in {"enrol", "recover"} /\ end = "ok" THEN {d} ELSE {}
         IN (vaExcused \cup TakenBy(d) \cup parted) \ back
    /\ vaCompared' = vaCompared \ {d} /\ UNCHANGED <<vaOps, vaLogical, vaAtomic>>
\* The upload fails, is refused, or is not reached.
VaFail(d) ==
    /\ va[d].job # None /\ va' = [va EXCEPT ![d] = Failed(d)]
    /\ vaExcused' = vaExcused \cup IF va[d].job.op = "recover" THEN {d} ELSE {}
    /\ vaCompared' = vaCompared \ {d}
    /\ UNCHANGED <<vaFile, vaOps, vaLogical, vaAtomic, vaWant, vaStale, vaHole>>

\* Mutant: the record stays.
DroppedKeyOnly(d) == [va[d] EXCEPT !.st = "locked", !.key = None, !.live = @ - 1]
Dropped(d) == [va[d] EXCEPT !.st = "locked", !.id = None, !.key = None, !.live = @ - 1]

\* The enrolled device hands its session to unlockVault, which checks the header like a
\* passkey unlock; when it throws, for whatever reason, the page closes the session and
\* deletes the device's record and key.
VaAdopt(d) ==
    /\ va[d].st = "adopting"
    /\ \/ Parses(vaFile.h) /\ MacOk(vaFile.h) /\ va' = Opened1(d, vaFile.h)
       \/ va' = [va EXCEPT ![d] = Dropped(d)]
    /\ UNCHANGED <<vaFile, vaOps, primary, hist>>

\* The tab goes away between two steps.
VaCrash(d) ==
    /\ va[d].st # "locked" \/ va[d].job # None
    /\ va' = [va EXCEPT ![d] = Crashed(d)]
    /\ vaExcused' =
         vaExcused \cup IF va[d].job # None /\ va[d].job.op \in Rekeys THEN {d} ELSE {}
    /\ vaCompared' = vaCompared \ {d}
    /\ UNCHANGED <<vaFile, vaOps, vaLogical, vaAtomic, vaWant, vaStale, vaHole>>

AccNext == \E d \in VaDevices :
    \/ \E phrase \in 0..vaOps : VaUnlock(d, phrase)
    \/ VaPasskey(d) \/ VaAddPasskey(d) \/ VaLock(d)
    \/ VaSave(d) \/ VaChange(d) \/ VaEnrol(d) \/ VaMigrate(d)
    \/ \E i \in 1..VaSlots : VaRevoke(d, i)
    \/ \E key \in 0..vaOps : VaVerify(d, key)
    \/ VaLeave(d) \/ VaRecover(d)
    \/ VaCompare(d) \/ \E end \in {"ok", "lost", "crash"} : VaStore(d, end)
    \/ VaFail(d) \/ VaAdopt(d) \/ VaCrash(d)

AccSpec == AccInit /\ [][AccNext]_accVars
-----------------------------------------------------------------------------
(***************************************************************************)
(* Properties.                                                             *)
(***************************************************************************)

\* Each device's page, record and operation, and the header that is stored.
VaTypeOK ==
    /\ vaFile \in [h : VaHeaders, ver : 0..VaMaxOps] /\ vaOps \in 0..VaMaxOps
    /\ va \in [VaDevices -> VaRecords]
    /\ \A d \in VaDevices : /\ va[d].id # None => va[d].key # None
                            /\ (va[d].st = "open") = (va[d].hdr # None)

\* Whatever operations met, the stored header opens: its HMAC covers what it holds and its
\* passphrase slot was wrapped under the salt beside it.
StoredOpens == MacOk(vaFile.h) /\ PassOpens(vaFile.h, vaFile.h.pass.phrase)

\* As long as no write replaced a header it had not read, which an upload without an expected
\* version may do, and any upload to a primary that compares before it writes (S3, pCloud,
\* SFTP), the header is what the operations make of it one after the other: no passphrase,
\* recovery key, enrolment or revocation is lost, however uploads, failures and crashes meet.
\* On a primary that compares as it writes, revocations and enrolments never are the cause.
AccessLinear == vaStale \/ vaHole \/ (vaFile.h = vaWant /\ Parses(vaFile.h))

\* The keys in WASM memory are those of the open vault, of the operation under way and of
\* unlocks that threw with the session open, one for each: a wrong passphrase, a bad HMAC, a
\* missing key or slot, an enrolment or a recovery that fails, and lockVault leave none.
KeysReleased ==
    \A d \in VaDevices : va[d].live =
        va[d].thrown + Cardinality({x \in {1, 2} :
            \/ x = 1 /\ va[d].st # "locked"
            \/ x = 2 /\ va[d].job # None /\ va[d].job.op = "enrol"})

\* A device with a record finds its slot under its own key, unless it was revoked or
\* cleared, its key and its slot parted in an interrupted change of keys, or a write replaced
\* a header it had not read.
EnrolledOpens ==
    \A d \in VaDevices \ vaExcused :
        va[d].id # None /\ ~vaStale /\ ~vaHole /\ va[d].job = None =>
            /\ SlotOf(vaFile.h, va[d].id) # 0
            /\ vaFile.h.slots[SlotOf(vaFile.h, va[d].id)].key = va[d].key

\* "active_device_count (u8) -- number of filled device slots (0-8)" (SPEC.md): the stored
\* header always parses, so that a vault can be opened.
HeaderParses == Parses(vaFile.h)

\* What the changes of keys promise: the stored header opens with its passphrase, WASM memory
\* holds the keys of the open vault, of what is under way and of unlocks that threw late and
\* no others, and a device that was enrolled can still open the vault.
AccessInv == VaTypeOK /\ StoredOpens /\ KeysReleased /\ EnrolledOpens
=============================================================================
