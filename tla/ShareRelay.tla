----------------------------- MODULE ShareRelay -----------------------------
(***************************************************************************)
(* The share storage of the relay: the metadata rows and directories of    *)
(* byo-relay/src/share_store.rs, and the handlers of share_relay.rs that   *)
(* create, fill, seal, read and revoke shares, with the hourly sweeper.    *)
(*                                                                         *)
(* The runtime has many threads, so a step is one critical section of the  *)
(* store's connection mutex or one call on the filesystem.  A handler is   *)
(* dropped at an await when its client goes away, and everything in memory *)
(* is lost when the process dies; rows and files stay.  The content of a   *)
(* file is the set of the requests whose bytes are in it.                  *)
(***************************************************************************)
EXTENDS Naturals, FiniteSets

CONSTANTS
    Shares,         \* share_ids
    BlobIds,        \* blob_ids of clients: not "main", not "_manifest"
    Requests,       \* HTTP requests, each sent once
    NoReq,          \* no request
    MaxCrashes      \* bound on the number of restarts

ASSUME NoReqAssumption == NoReq \notin Requests
ASSUME SharesAssumption == Shares # {}
ASSUME CrashAssumption == MaxCrashes \in Nat
ASSUME BlobIdsAssumption == "main" \notin BlobIds /\ "_manifest" \notin BlobIds

Blobs == BlobIds \cup {"main", "_manifest"}
NoBlobs == [b \in Blobs |-> NoReq]
NoFiles == [b \in Blobs |-> {}]

VARIABLES
    \* The shares and blobs tables.
    rows,           \* share_ids with a row
    bundles,        \* rows of kind folder or collection
    revoked, sealed,
    bundleToken,    \* rows whose bundle_token is not NULL
    expired,        \* rows with expires_at <= now
    stale,          \* rows older than UNSEALED_MAX_LIFETIME_SECS
    owned,          \* rows whose token_nonce is that of an answered owner token
    blobs,          \* the request whose size is recorded for a blob
    \* The filesystem.
    dirs,           \* share directories
    tmp, file,      \* <blob>.v7.tmp and <blob>.v7, {} when there is none
    \* The process.
    req,            \* the handler of each request
    sweepPc, victims, toClear,      \* purge_expired_and_revoked()
    crashes,
    \* History.
    used,           \* share_ids that were ever given out
    published,      \* shares whose upload or seal was answered with success,
                    \* until they are revoked or expire
    withdrawn,      \* shares whose owner revoked them, from the answer on
    kept,           \* of these, the ones whose directory could not be removed
    contested,      \* <<s, b>> two uploads of which met
    late            \* shares that met an upload past its lifetime

flags == <<revoked, sealed, bundleToken, expired, stale>>
tables == <<rows, bundles, flags, owned, blobs>>
fs == <<dirs, tmp, file>>
sweeper == <<sweepPc, victims, toClear>>
history == <<used, published, withdrawn, kept, contested, late>>
vars == <<tables, fs, req, sweeper, crashes, history>>

Steps == {"idle", "token", "open", "stream", "rename", "record", "seal",
          "cleanup", "revoke", "rmdir", "unrecord", "unlink", "get", "done"}
Ops == {"none", "file", "init", "blob", "seal", "revoke", "get"}
Handlers == [op : Ops, share : Shares, blob : Blobs, pc : Steps, undo : BOOLEAN]

InFlight(r) == req[r].pc \notin {"idle", "done"}
Uploading(r, s, b) ==
    /\ InFlight(r) /\ req[r].op \in {"file", "blob", "seal"}
    /\ req[r].share = s /\ req[r].blob = b

TypeOK ==
    /\ rows \in SUBSET Shares
    /\ bundles \in SUBSET rows /\ revoked \in SUBSET rows
    /\ sealed \in SUBSET rows /\ bundleToken \in SUBSET rows
    /\ expired \in SUBSET rows /\ stale \in SUBSET rows
    /\ owned \in SUBSET rows
    /\ blobs \in [Shares -> [Blobs -> Requests \cup {NoReq}]]
    /\ dirs \in SUBSET Shares
    /\ tmp \in [Shares -> [Blobs -> SUBSET Requests]]
    /\ file \in [Shares -> [Blobs -> SUBSET Requests]]
    /\ req \in [Requests -> Handlers]
    /\ sweepPc \in {"idle", "sweep"}
    /\ victims \in SUBSET Shares /\ toClear \in SUBSET Shares
    /\ crashes \in 0..MaxCrashes
    /\ used \in SUBSET Shares /\ published \in SUBSET Shares
    /\ withdrawn \in SUBSET Shares /\ kept \in SUBSET Shares /\ late \in SUBSET Shares
    /\ contested \in SUBSET (Shares \X Blobs)

Init ==
    /\ rows = {} /\ bundles = {} /\ revoked = {} /\ sealed = {}
    /\ bundleToken = {} /\ expired = {} /\ stale = {}
    /\ owned = {}
    /\ blobs = [s \in Shares |-> NoBlobs]
    /\ dirs = {}
    /\ tmp = [s \in Shares |-> NoFiles] /\ file = [s \in Shares |-> NoFiles]
    /\ req = [r \in Requests |->
                [op |-> "none", share |-> CHOOSE s \in Shares : TRUE,
                 blob |-> "main", pc |-> "idle", undo |-> FALSE]]
    /\ sweepPc = "idle" /\ victims = {} /\ toClear = {}
    /\ crashes = 0
    /\ used = {} /\ published = {} /\ withdrawn = {} /\ kept = {}
    /\ contested = {} /\ late = {}

Begin(r, op, s, b, pc) ==
    /\ req[r].pc = "idle"
    /\ req' = [req EXCEPT ![r] = [op |-> op, share |-> s, blob |-> b, pc |-> pc,
                                  undo |-> FALSE]]

Goto(r, pc) == req' = [req EXCEPT ![r].pc = pc]

\* The handler answers or is dropped, and its locals go.
End(h) == [h EXCEPT !.op = "none", !.blob = "main", !.pc = "done", !.undo = FALSE]
Return(r) == req' = [req EXCEPT ![r] = End(@)]

\* remove_file() and the answer, with what else the handler undoes.
Fail(r, undo) ==
    req' = [req EXCEPT ![r] = [@ EXCEPT !.pc = "cleanup", !.undo = undo]]
-----------------------------------------------------------------------------
(***************************************************************************)
(* Creation.  Rejected requests change nothing and are left out.           *)
(***************************************************************************)

\* create_share(): the row, then the directory, which may fail.  An upload of
\* an earlier share of this id that is still running is late.
CreateShare(r, s, made) ==
    /\ s \notin rows
    /\ rows' = rows \cup {s}
    /\ owned' = owned \ {s}
    /\ dirs' = IF made THEN dirs \cup {s} ELSE dirs
    /\ used' = used \cup {s}
    /\ published' = published \ {s} /\ withdrawn' = withdrawn \ {s}
    /\ kept' = kept \ {s}
    /\ contested' = contested \ ({s} \X Blobs)
    /\ late' = IF \E q \in Requests : InFlight(q) /\ req[q].share = s
                 THEN late \cup {s} ELSE late \ {s}
    /\ UNCHANGED <<flags, blobs, tmp, file, sweeper, crashes>>

\* upload_b2_share() up to create_share(); the client chose the id.
UploadB2Share(r, s, made) ==
    /\ Begin(r, "file", s, "main", IF made THEN "open" ELSE "done")
    /\ CreateShare(r, s, made)
    /\ UNCHANGED bundles

\* init_bundle() up to create_share(); the id is a fresh UUID.
InitBundle(r, s, made) ==
    /\ s \notin used
    /\ Begin(r, "init", s, "main", IF made THEN "token" ELSE "done")
    /\ CreateShare(r, s, made)
    /\ bundles' = bundles \cup {s}

\* Mutant: a write that meets no row passes for done.
RowFoundAlways(s) == TRUE

\* An UPDATE or a foreign key finds the row of the share.
RowFound(s) == s \in rows

\* set_bundle_token(), and the answer with the owner token; the sweeper may have taken an expired row.
SetBundleToken(r) ==
    LET s == req[r].share IN
    /\ req[r].pc = "token"
    /\ IF RowFound(s) /\ s \notin sealed
         THEN /\ bundleToken' = bundleToken \cup {s}
              /\ owned' = owned \cup {s}
              /\ Return(r)
         ELSE /\ Goto(r, "revoke")
              /\ UNCHANGED <<bundleToken, owned>>
    /\ UNCHANGED <<rows, bundles, revoked, sealed, expired, stale, blobs, fs,
                   sweeper, crashes, history>>

\* verify_bundle_token().
VerifyBundleToken(s) ==
    s \in ((rows \cap bundleToken) \ (sealed \cup revoked)) \ (expired \cup stale)

\* upload_bundle_blob() and seal_bundle() up to the stream.  Two uploads of one
\* blob meet when the second starts while the first runs or is recorded.
BeginUpload(r, op, s, b) ==
    /\ VerifyBundleToken(s) /\ s \in bundles
    /\ Begin(r, op, s, b, "open")
    /\ contested' = IF \/ blobs[s][b] # NoReq
                       \/ \E q \in Requests : Uploading(q, s, b)
                      THEN contested \cup {<<s, b>>} ELSE contested
    /\ UNCHANGED <<tables, fs, sweeper, crashes, used, published, withdrawn,
                   kept, late>>

UploadBundleBlob(r, s, b) == BeginUpload(r, "blob", s, b)

SealBundle(r, s) == BeginUpload(r, "seal", s, "_manifest")
-----------------------------------------------------------------------------
(***************************************************************************)
(* The upload that upload_b2_share(), upload_bundle_blob() and             *)
(* seal_bundle() share.                                                    *)
(***************************************************************************)

\* Mutant: the directory is created when it is missing.
OpensTmpAlways(s) == TRUE

\* File::create() needs the directory.
OpensTmp(s) == s \in dirs

\* Mutant: what an earlier upload left is not truncated.
TmpOpenedAppend(r, bytes) == bytes \cup {r}

\* The temporary file is created, or truncated under whoever is writing it.
TmpOpened(r, bytes) == {q \in bytes : req[q].pc = "stream"} \cup {r}

\* File::create().
OpenTmp(r) ==
    LET s == req[r].share
        b == req[r].blob IN
    /\ req[r].pc = "open"
    /\ IF OpensTmp(s)
         THEN /\ dirs' = dirs \cup {s}
              /\ tmp' = [tmp EXCEPT ![s][b] = TmpOpened(r, @)]
              /\ Goto(r, "stream")
         ELSE /\ Fail(r, req[r].op # "seal")
              /\ UNCHANGED <<dirs, tmp>>
    /\ UNCHANGED <<tables, file, sweeper, crashes, history>>

\* The whole body arrived and is long enough.
StreamEnd(r) ==
    /\ req[r].pc = "stream"
    /\ Goto(r, "rename")
    /\ UNCHANGED <<tables, fs, sweeper, crashes, history>>

\* A transport error, a bad marker, a budget or a size limit.  A bundle blob is
\* deleted after some of these errors and not after the others.
StreamFail(r, undo) ==
    /\ req[r].pc = "stream"
    /\ req[r].op = "file" => undo
    /\ req[r].op = "seal" => ~undo
    /\ Fail(r, undo)
    /\ UNCHANGED <<tables, fs, sweeper, crashes, history>>

\* The rename fails when the directory or the temporary file is gone.
RenameTmp(r) ==
    LET s == req[r].share
        b == req[r].blob IN
    /\ req[r].pc = "rename"
    /\ \/ /\ s \in dirs /\ tmp[s][b] # {}
          /\ file' = [file EXCEPT ![s][b] = tmp[s][b]]
          /\ tmp' = [tmp EXCEPT ![s][b] = {}]
          /\ Goto(r, "record")
       \/ /\ Fail(r, req[r].op = "file")
          /\ UNCHANGED <<file, tmp>>
    /\ UNCHANGED <<tables, dirs, sweeper, crashes, history>>

\* record_blob(): the foreign key fails when the row is gone.
RecordBlob(r) ==
    LET s == req[r].share
        b == req[r].blob IN
    /\ req[r].pc = "record"
    /\ IF RowFound(s)
         THEN /\ blobs' = [blobs EXCEPT ![s][b] = r]
              /\ IF req[r].op = "blob" THEN Return(r) ELSE Goto(r, "seal")
         ELSE /\ Goto(r, IF req[r].op = "file" THEN "revoke" ELSE "unrecord")
              /\ UNCHANGED blobs
    /\ UNCHANGED <<rows, bundles, flags, owned, fs, sweeper, crashes,
                   history>>

\* A share that is or is about to be gone by its owner's will.
Leaving(s) ==
    \/ s \in expired \cup revoked
    \/ \E q \in Requests :
          InFlight(q) /\ req[q].op = "revoke" /\ req[q].share = s

\* mark_sealed(), and the answer, which for a file carries the owner token.
MarkSealed(r) ==
    LET s == req[r].share IN
    /\ req[r].pc = "seal"
    /\ IF RowFound(s)
         THEN /\ sealed' = sealed \cup {s}
              /\ bundleToken' = bundleToken \ {s}
              /\ owned' = IF req[r].op = "file" THEN owned \cup {s} ELSE owned
              /\ Return(r)
              /\ published' = IF Leaving(s) THEN published ELSE published \cup {s}
              /\ late' = IF s \in stale THEN late \cup {s} ELSE late
         ELSE /\ Goto(r, IF req[r].op = "file" THEN "revoke" ELSE "unrecord")
              /\ UNCHANGED <<sealed, bundleToken, owned, published, late>>
    /\ UNCHANGED <<rows, bundles, revoked, expired, stale, blobs, fs, sweeper,
                   crashes, used, withdrawn, kept, contested>>

\* remove_file() of the temporary file; then rollback() revokes the share of a
\* file upload, and delete_blob() follows for a bundle blob.
RemoveTmp(r) ==
    LET s == req[r].share
        b == req[r].blob IN
    /\ req[r].pc = "cleanup"
    /\ tmp' = [tmp EXCEPT ![s][b] = {}]
    /\ IF req[r].undo
         THEN Goto(r, IF req[r].op = "file" THEN "revoke" ELSE "unrecord")
         ELSE Return(r)
    /\ UNCHANGED <<tables, dirs, file, sweeper, crashes, history>>

\* delete_blob(): the row in one transaction, then the file.
DeleteBlobRow(r) ==
    /\ req[r].pc = "unrecord"
    /\ blobs' = [blobs EXCEPT ![req[r].share][req[r].blob] = NoReq]
    /\ Goto(r, "unlink")
    /\ UNCHANGED <<rows, bundles, flags, owned, fs, sweeper, crashes,
                   history>>

DeleteBlobFile(r) ==
    /\ req[r].pc = "unlink"
    /\ file' = [file EXCEPT ![req[r].share][req[r].blob] = {}]
    /\ Return(r)
    /\ UNCHANGED <<tables, dirs, tmp, sweeper, crashes, history>>

\* The client goes away and the handler is dropped at an await.  A rename or
\* a removal that was already under way still happens.
DropHandler(r) ==
    LET s == req[r].share
        b == req[r].blob IN
    /\ req[r].pc \in {"open", "stream", "rename", "cleanup", "get"}
    /\ Return(r)
    /\ \/ UNCHANGED <<file, tmp>>
       \/ /\ req[r].pc = "rename" /\ s \in dirs /\ tmp[s][b] # {}
          /\ file' = [file EXCEPT ![s][b] = tmp[s][b]]
          /\ tmp' = [tmp EXCEPT ![s][b] = {}]
       \/ /\ req[r].pc = "cleanup"
          /\ tmp' = [tmp EXCEPT ![s][b] = {}]
          /\ UNCHANGED file
    /\ UNCHANGED <<tables, dirs, sweeper, crashes, history>>
-----------------------------------------------------------------------------
(***************************************************************************)
(* Revocation and downloads.                                               *)
(***************************************************************************)

\* revoke_b2_share() up to the check of the owner token: it is derived from the
\* row's nonce, and the answer to the creation carried it.
RevokeB2Share(r, s) ==
    /\ s \in owned
    /\ Begin(r, "revoke", s, "main", "revoke")
    /\ published' = published \ {s}
    /\ UNCHANGED <<tables, fs, sweeper, crashes, used, withdrawn, kept,
                   contested, late>>

\* revoke_share(): the row, under the mutex.
RevokeRow(r) ==
    LET s == req[r].share IN
    /\ req[r].pc = "revoke"
    /\ IF RowFound(s)
         THEN /\ revoked' = revoked \cup {s}
              /\ blobs' = [blobs EXCEPT ![s] = NoBlobs]
              /\ Goto(r, "rmdir")
         ELSE /\ Return(r)
              /\ UNCHANGED <<revoked, blobs>>
    /\ UNCHANGED <<rows, bundles, sealed, bundleToken, expired, stale, owned,
                   fs, sweeper, crashes, history>>

RemoveDir(s) ==
    /\ dirs' = dirs \ {s}
    /\ tmp' = [tmp EXCEPT ![s] = NoFiles]
    /\ file' = [file EXCEPT ![s] = NoFiles]
    /\ kept' = kept \ {s}

\* revoke_share(): the directory, if there is one.  A failure to remove it is
\* ignored, and the owner is answered as if it were gone.
RevokeDir(r) ==
    LET s == req[r].share IN
    /\ req[r].pc = "rmdir"
    /\ Return(r)
    /\ withdrawn' = IF req[r].op = "revoke" THEN withdrawn \cup {s} ELSE withdrawn
    /\ \/ RemoveDir(s)
       \/ /\ s \in dirs
          /\ kept' = IF req[r].op = "revoke" THEN kept \cup {s} ELSE kept
          /\ UNCHANGED fs
    /\ UNCHANGED <<tables, sweeper, crashes, used, published, contested,
                   late>>

\* get_b2_share() and get_share_blob() up to the opening of the file.
GetShareBlob(r, s, b) ==
    /\ s \in (rows \cap sealed) \ (revoked \cup expired)
    /\ Begin(r, "get", s, b, "get")
    /\ UNCHANGED <<tables, fs, sweeper, crashes, history>>

OpenFile(r) ==
    /\ req[r].pc = "get"
    /\ Return(r)
    /\ UNCHANGED <<tables, fs, sweeper, crashes, history>>
-----------------------------------------------------------------------------
(***************************************************************************)
(* Time, the sweeper, restarts.                                            *)
(***************************************************************************)

\* expires_at passes; that of a revoked share makes no difference.
Expire(s) ==
    /\ s \in rows \ (expired \cup revoked)
    /\ expired' = expired \cup {s}
    /\ published' = published \ {s}
    /\ UNCHANGED <<rows, bundles, revoked, sealed, bundleToken, stale, owned,
                   blobs, fs, req, sweeper, crashes, used, withdrawn, kept,
                   contested, late>>

\* The unsealed lifetime passes; that of a sealed share makes no difference.
BecomeStale(s) ==
    /\ s \in rows \ (stale \cup sealed)
    /\ stale' = stale \cup {s}
    /\ UNCHANGED <<rows, bundles, revoked, sealed, bundleToken, expired,
                   owned, blobs, fs, req, sweeper, crashes, history>>

\* Mutant: unsealed shares are taken at any age.
PurgeableUnsealed == revoked \cup expired \cup (rows \ sealed)

\* Mutant: only expired and revoked shares are taken.
PurgeableDated == revoked \cup expired

\* The victims of purge_expired_and_revoked().
Purgeable == revoked \cup expired \cup (stale \ sealed)

SweepSelect ==
    /\ sweepPc = "idle" /\ Purgeable # {}
    /\ sweepPc' = "sweep"
    /\ victims' = Purgeable
    /\ toClear' = {}
    /\ UNCHANGED <<tables, fs, req, crashes, history>>

\* remove_dir_all() of one victim; its row is kept when that fails.
SweepRemove(s) ==
    /\ sweepPc = "sweep" /\ s \in victims
    /\ victims' = victims \ {s}
    /\ toClear' = toClear \cup {s}
    /\ RemoveDir(s)
    /\ UNCHANGED <<tables, req, sweepPc, crashes, used, published, withdrawn,
                   contested, late>>

\* Mutant: the row goes although the directory is still there.
SweepSkipClears(s) ==
    /\ sweepPc = "sweep" /\ s \in victims \cap dirs
    /\ victims' = victims \ {s}
    /\ toClear' = toClear \cup {s}
    /\ UNCHANGED <<tables, fs, req, sweepPc, crashes, history>>

SweepSkip(s) ==
    /\ sweepPc = "sweep" /\ s \in victims \cap dirs
    /\ victims' = victims \ {s}
    /\ UNCHANGED <<tables, fs, req, sweepPc, toClear, crashes, history>>

\* The rows are deleted under the mutex; blobs rows go with them.
SweepDelete ==
    /\ sweepPc = "sweep" /\ victims = {}
    /\ sweepPc' = "idle"
    /\ toClear' = {}
    /\ rows' = rows \ toClear
    /\ bundles' = bundles \ toClear /\ revoked' = revoked \ toClear
    /\ sealed' = sealed \ toClear /\ bundleToken' = bundleToken \ toClear
    /\ expired' = expired \ toClear /\ stale' = stale \ toClear
    /\ owned' = owned \ toClear
    /\ blobs' = [s \in Shares |-> IF s \in toClear THEN NoBlobs ELSE blobs[s]]
    /\ UNCHANGED <<fs, req, victims, crashes, history>>

\* The process dies and is started again: ShareStore::open() changes nothing.
Crash ==
    /\ crashes < MaxCrashes
    /\ sweepPc # "idle" \/ \E r \in Requests : InFlight(r)
    /\ crashes' = crashes + 1
    /\ req' = [r \in Requests |-> IF InFlight(r) THEN End(req[r]) ELSE req[r]]
    /\ sweepPc' = "idle" /\ victims' = {} /\ toClear' = {}
    /\ UNCHANGED <<tables, fs, history>>

Handle(r) ==
    \/ SetBundleToken(r)
    \/ OpenTmp(r) \/ StreamEnd(r) \/ (\E undo \in BOOLEAN : StreamFail(r, undo))
    \/ RenameTmp(r) \/ RecordBlob(r) \/ MarkSealed(r)
    \/ RemoveTmp(r) \/ DeleteBlobRow(r) \/ DeleteBlobFile(r)
    \/ DropHandler(r)
    \/ RevokeRow(r) \/ RevokeDir(r)
    \/ OpenFile(r)

Receive(r, s) ==
    \/ \E made \in BOOLEAN : UploadB2Share(r, s, made) \/ InitBundle(r, s, made)
    \/ \E b \in BlobIds : UploadBundleBlob(r, s, b)
    \/ SealBundle(r, s)
    \/ RevokeB2Share(r, s)
    \/ \E b \in Blobs : GetShareBlob(r, s, b)

Sweep(s) == SweepRemove(s) \/ SweepSkip(s)

Next ==
    \/ \E r \in Requests : Handle(r)
    \/ \E r \in Requests, s \in Shares : Receive(r, s)
    \/ \E s \in Shares : Expire(s) \/ BecomeStale(s) \/ Sweep(s)
    \/ SweepSelect \/ SweepDelete
    \/ Crash

Spec == Init /\ [][Next]_vars

\* The sweeper is a task of its own with an hourly interval; a directory that
\* cannot be removed now can be removed at some later tick.
Fairness ==
    /\ WF_vars(SweepSelect) /\ WF_vars(SweepDelete)
    /\ \A s \in Shares : WF_vars(Sweep(s)) /\ SF_vars(SweepRemove(s))

FairSpec == Spec /\ Fairness
-----------------------------------------------------------------------------
(***************************************************************************)
(* Properties.                                                             *)
(***************************************************************************)

\* No directory is left without a row that makes the sweeper remove it, at any
\* point where the process may die (create_share inserts the row first, the
\* sweeper deletes it last).
NoOrphanDir == dirs \subseteq rows

\* A blob that is recorded is there, and is what one upload sent, whole, after
\* any number of failed, dropped and repeated uploads of it, unless two uploads
\* of it met or the id was taken over from an upload still running (temporary
\* file, rename, record_blob, delete_blob).
RecordedIsWhole ==
    \A s \in (rows \cap dirs) \ (revoked \cup late) : \A b \in Blobs :
        blobs[s][b] # NoReq /\ <<s, b>> \notin contested =>
            file[s][b] = {blobs[s][b]}

\* A share whose upload or seal was answered with success can be fetched until
\* its owner revokes it or it expires, unless the upload outlived the unsealed
\* lifetime or met the upload of an earlier share of the same id.
PublishedIsServed ==
    \A s \in published \ late :
        /\ s \in (rows \cap sealed) \ revoked
        /\ file[s][IF s \in bundles THEN "_manifest" ELSE "main"] # {}

\* Once a revocation is answered, the row of the share stays revoked until the
\* sweeper takes it, so that every later request is refused, unless the id was
\* taken over while the revocation ran.  And nothing of the share is on the
\* disk, and no upload that is still running brings anything back: a download
\* that had passed its checks before finds no file to open.  revoke_share()
\* ignores a failed remove_dir_all(); then this waits for the sweeper.
RevokedIsGone ==
    \A s \in withdrawn :
        /\ s \in rows \ late => s \in revoked
        /\ s \notin kept => s \notin dirs /\ tmp[s] = NoFiles /\ file[s] = NoFiles

\* An expired or revoked share, and one that is not sealed in time, is purged
\* whatever requests and restarts interfere, unless the seal comes after all
\* (ShareSweeper).
EventuallyPurged ==
    \A s \in Shares :
        s \in revoked \cup expired \cup (stale \ sealed) ~>
            s \notin revoked \cup expired \cup (stale \ sealed)
=============================================================================
