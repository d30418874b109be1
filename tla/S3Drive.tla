------------------------------ MODULE S3Drive -------------------------------
(***************************************************************************)
(* providers/s3.rs: objects are named by their key, expected versions are  *)
(* compared with a HEAD, and a stream is a multipart upload whose parts    *)
(* the client lists when it completes it.                                  *)
(***************************************************************************)
EXTENDS CloudApi

S3 == {"s3"}

\* init() probes the bucket; 405 makes it ask for an empty listing instead.
S3Init(t, f) == At(t, S3, "init", 0) /\ Last(t, f, Quiet, Ready, NoInst)
S3InitNoHead(t) ==
    /\ At(t, S3, "init", 0)
    /\ inst' = [inst EXCEPT ![t].sub = 1]
    /\ UNCHANGED <<drive, plan, cloud, job, faults>>
S3InitList(t, f) == At(t, S3, "init", 1) /\ Last(t, f, Quiet, Ready, NoInst)
S3RefreshAuth(t) == At(t, S3, "refresh", 0) /\ Local(t, TRUE, Quiet, inst[t])
\* Only the configuration goes.
S3Disconnect(t) ==
    At(t, S3, "disconnect", 0) /\ Local(t, TRUE, Quiet, [inst[t] EXCEPT !.ready = FALSE])

\* check_expected_version(): an object that is gone is a conflict.
S3CheckExpectedVersion(t) ==
    LET r == Head1(cloud, Name(t)) IN
    IF r.code = "missing" \/ r.ver # Cond(t) THEN Fails(cloud, "conflict") ELSE r
S3UploadHead(t, f) ==
    /\ At(t, S3, "upload", 0) /\ Cond(t) # None
    /\ More(t, f, S3CheckExpectedVersion(t), inst[t], inst[t], 1)
S3Upload(t, f) ==
    /\ At(t, S3, "upload", IF Cond(t) = None THEN 0 ELSE 1)
    /\ Same(t, f, PutObject(cloud, t, Name(t), Name(t), Whole(t), None))
S3Download(t, f) == At(t, S3, "download", 0) /\ Same(t, f, GetAll(cloud, Ref(t)))
S3Delete(t, f) ==
    At(t, S3, "delete", 0) /\ Same(t, f, Tolerating(Delete(cloud, Ref(t)), "missing"))
S3GetVersion(t, f) == At(t, S3, "version", 0) /\ Same(t, f, Head1(cloud, Ref(t)))
S3List(t, f) == At(t, S3, "list", 0) /\ Same(t, f, Quiet)
\* A marker object, written again if it is there.
S3CreateFolder(t, f) ==
    At(t, S3, "mkdir", 0) /\ Same(t, f, Tolerating(MakeFolderOnce(cloud, Name(t)), "conflict"))
S3DeleteFolder(t, f) ==
    /\ At(t, S3, "rmdir", 0)
    /\ Same(t, f, Reply([cloud EXCEPT !.dirs = @ \ Folders(cloud, Name(t))], "ok", 0, None))

S3StreamOpen(t, f) ==
    LET r == Begin(cloud, Name(t), Name(t), 0) IN
    At(t, S3, "open", 0) /\ Last(t, f, r, OpenUpload(t, r.ref), inst[t])
\* UploadPart: the server keeps what the client lists when it completes the upload.
S3UploadPart(t) == IF inst[t].up.sid \in DOMAIN cloud.up THEN Quiet ELSE Fails(cloud, "missing")
\* upload_stream_write(): one part of the part size is drained from the buffer, and
\* listed once the server has answered.
S3StreamBuffer(t) ==
    /\ At(t, S3, "write", 0) /\ Len(Buffered(t).up.buf) < FlushAt
    /\ Local(t, TRUE, Quiet, Buffered(t))
S3StreamWrite(t, f) ==
    LET i == Buffered(t)
        part == SubSeq(i.up.buf, 1, FlushAt)
        rest == [i EXCEPT !.up.buf = SubSeq(@, FlushAt + 1, Len(@))] IN
    /\ At(t, S3, "write", 0) /\ Len(i.up.buf) >= FlushAt
    /\ Last(t, f, S3UploadPart(t), [rest EXCEPT !.up.sent = @ \o part], rest)
\* upload_stream_close(): the session is removed, the rest is the last part, and
\* without any part there is nothing to complete.
S3CloseLastPart(t, f) ==
    LET listed == [inst[t] EXCEPT !.up.sent = @ \o inst[t].up.buf, !.up.buf = <<>>] IN
    /\ At(t, S3, "close", 0) /\ inst[t].up.buf # <<>>
    /\ More(t, f, S3UploadPart(t), listed, Gone(t), 1)
\* CompleteMultipartUpload
S3Complete(t) ==
    LET sid == inst[t].up.sid IN
    IF sid \notin DOMAIN cloud.up \/ inst[t].up.sent = <<>> THEN Fails(cloud, "missing")
    ELSE Commit([cloud EXCEPT !.up[sid].body = inst[t].up.sent], t, sid)
S3StreamClose(t, f) ==
    /\ At(t, S3, "close", IF inst[t].sub = 1 THEN 1 ELSE 0) /\ inst[t].up.buf = <<>>
    /\ Last(t, f, S3Complete(t), Gone(t), Gone(t))
\* abort_multipart(): 404 is an upload that is gone.
S3Abort(t) == Cancel(cloud, inst[t].up.sid)
S3StreamAbort(t, f) ==
    /\ At(t, S3, "abort", 0) /\ inst[t].up # None
    /\ Last(t, f, S3Abort(t), Gone(t), Gone(t))
S3AbortUnknown(t) ==
    At(t, S3, "abort", 0) /\ inst[t].up = None /\ Local(t, FALSE, Quiet, inst[t])

S3DownloadOpen(t, style) == At(t, S3, "dlopen", 0) /\ OpenDownload(t, style)
S3DownloadRead(t, f) == At(t, S3, "dlread", 0) /\ RangedRead(t, f)
S3DownloadClose(t) == At(t, S3, "dlclose", 0) /\ CloseDownload(t)

S3Next(t) ==
    \/ S3InitNoHead(t) \/ S3RefreshAuth(t) \/ S3Disconnect(t) \/ S3StreamBuffer(t)
    \/ S3AbortUnknown(t) \/ S3DownloadClose(t)
    \/ \E style \in Styles : S3DownloadOpen(t, style)
    \/ \E f \in Fates :
         \/ S3Init(t, f) \/ S3InitList(t, f) \/ S3UploadHead(t, f) \/ S3Upload(t, f)
         \/ S3Download(t, f) \/ S3Delete(t, f) \/ S3GetVersion(t, f) \/ S3List(t, f)
         \/ S3CreateFolder(t, f) \/ S3DeleteFolder(t, f) \/ S3StreamOpen(t, f)
         \/ S3StreamWrite(t, f) \/ S3CloseLastPart(t, f) \/ S3StreamClose(t, f)
         \/ S3StreamAbort(t, f) \/ S3DownloadRead(t, f)
=============================================================================
