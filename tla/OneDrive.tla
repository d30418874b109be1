------------------------------ MODULE OneDrive ------------------------------
(***************************************************************************)
(* providers/onedrive.rs: paths or ids, If-Match on a single PUT, and      *)
(* upload sessions that complete with their last range.                    *)
(***************************************************************************)
EXTENDS CloudApi

Od == {"onedrive"}

OdInit(t) == At(t, Od, "init", 0) /\ Local(t, TRUE, Quiet, Ready)
OdRefreshAuth(t, f) == At(t, Od, "refresh", 0) /\ Same(t, f, Quiet)
OdDisconnect(t) == At(t, Od, "disconnect", 0) /\ Local(t, TRUE, Quiet, NoInst)

OdUpload(t, f) ==
    At(t, Od, "upload", 0) /\ Same(t, f, PutObject(cloud, t, Name(t), Name(t), Whole(t), Cond(t)))
OdDownload(t, f) == At(t, Od, "download", 0) /\ Same(t, f, GetAll(cloud, Ref(t)))
OdDelete(t, f) == At(t, Od, "delete", 0) /\ Same(t, f, Delete(cloud, Ref(t)))
OdGetVersion(t, f) == At(t, Od, "version", 0) /\ Same(t, f, Head1(cloud, Ref(t)))
OdList(t, f) == At(t, Od, "list", 0) /\ Same(t, f, Quiet)
\* conflictBehavior rename: there is always a new folder.
OdCreateFolder(t, f) == At(t, Od, "mkdir", 0) /\ Same(t, f, MakeFolder(cloud, Name(t)))
OdDeleteFolder(t, f) == At(t, Od, "rmdir", 0) /\ Same(t, f, RemoveFolder(cloud, job[t].ref))

\* createUploadSession, conflictBehavior replace
OdStreamOpen(t, f) ==
    LET r == Begin(cloud, Name(t), Name(t), NewUpload(t, None).total) IN
    At(t, Od, "open", 0) /\ Last(t, f, r, OpenUpload(t, r.ref), inst[t])

\* upload_stream_write(): the chunk joins the buffer, then full ranges are drained and
\* put, one request each, until less than a range is left.
OdStreamWrite(t) ==
    /\ At(t, Od, "write", 0)
    /\ IF Len(Buffered(t).up.buf) < FlushAt THEN Local(t, TRUE, Quiet, Buffered(t))
       ELSE /\ inst' = [inst EXCEPT ![t] = [Buffered(t) EXCEPT !.sub = 1]]
            /\ UNCHANGED <<drive, plan, cloud, job, faults>>
OdRange(t, u, data) == AppendAndCommit(cloud, t, u.sid, u.at, data)
OdPutRange(t, f) ==
    LET u == inst[t].up
        payload == SubSeq(u.buf, 1, FlushAt)
        rest == SubSeq(u.buf, FlushAt + 1, Len(u.buf))
        r == OdRange(t, u, payload)
        final == u.total <= u.at + FlushAt /\ rest = <<>>
        drained == [inst[t] EXCEPT !.up.buf = rest]
        put == [drained EXCEPT !.up.at = @ + FlushAt, !.up.final = IF final THEN r.ver ELSE @] IN
    /\ At(t, Od, "write", 1)
    /\ IF Len(rest) < FlushAt THEN Last(t, f, r, put, drained) ELSE More(t, f, r, put, drained, 1)

\* upload_stream_close(): the cached answer, a refusal, or the last range.
OdShort(u) == u.at + Len(u.buf) # u.total
OdStreamClose(t) ==
    LET u == inst[t].up
        cached == u.final # 0 /\ u.buf = <<>> IN
    /\ At(t, Od, "close", 0) /\ (u.final # 0 \/ OdShort(u))
    /\ Local(t, cached, Reply(cloud, "ok", u.final, None), Gone(t))
OdStreamCloseRange(t, f) ==
    LET u == inst[t].up IN
    /\ At(t, Od, "close", 0) /\ u.final = 0 /\ ~OdShort(u)
    /\ Last(t, f, OdRange(t, u, u.buf), Gone(t), Gone(t))
OdStreamAbort(t, f) ==
    /\ At(t, Od, "abort", 0)
    /\ IF inst[t].up = None THEN f = "ok" /\ Local(t, TRUE, Quiet, inst[t])
       ELSE Last(t, f, Cancel(cloud, inst[t].up.sid), Gone(t), Gone(t))

OdDownloadOpen(t, style) == At(t, Od, "dlopen", 0) /\ OpenDownload(t, style)
OdDownloadRead(t, f) == At(t, Od, "dlread", 0) /\ RangedRead(t, f)
OdDownloadClose(t) == At(t, Od, "dlclose", 0) /\ CloseDownload(t)

OdNext(t) ==
    \/ OdInit(t) \/ OdDisconnect(t) \/ OdStreamWrite(t) \/ OdStreamClose(t) \/ OdDownloadClose(t)
    \/ \E style \in Styles : OdDownloadOpen(t, style)
    \/ \E f \in Fates :
         \/ OdRefreshAuth(t, f) \/ OdUpload(t, f) \/ OdDownload(t, f) \/ OdDelete(t, f)
         \/ OdGetVersion(t, f) \/ OdList(t, f) \/ OdCreateFolder(t, f) \/ OdDeleteFolder(t, f)
         \/ OdStreamOpen(t, f) \/ OdPutRange(t, f) \/ OdStreamCloseRange(t, f)
         \/ OdStreamAbort(t, f) \/ OdDownloadRead(t, f)
=============================================================================
