------------------------------ MODULE Dropbox ------------------------------
(***************************************************************************)
(* providers/dropbox.rs: paths, write modes instead of preconditions, and  *)
(* upload sessions that are appended to at a confirmed offset.             *)
(***************************************************************************)
EXTENDS CloudApi

Db == {"dropbox"}

\* init() only stores the tokens; refresh_auth() asks for new ones.
DbInit(t) == At(t, Db, "init", 0) /\ Local(t, TRUE, Quiet, Ready)
DbRefreshAuth(t, f) == At(t, Db, "refresh", 0) /\ Same(t, f, Quiet)
DbDisconnect(t) == At(t, Db, "disconnect", 0) /\ Local(t, TRUE, Quiet, NoInst)

\* upload(): update of a revision, overwrite of a ref, or add of a new name.
DbMode(t) ==
    IF Cond(t) # None THEN PutObject(cloud, t, Name(t), Name(t), Whole(t), Cond(t))
    ELSE IF Ref(t) = None /\ Name(t) \in DOMAIN cloud.obj THEN Fails(cloud, "conflict")
    ELSE Store(cloud, t, Name(t), Name(t), Whole(t))
DbUpload(t, f) == At(t, Db, "upload", 0) /\ Same(t, f, DbMode(t))
DbDownload(t, f) == At(t, Db, "download", 0) /\ Same(t, f, GetAll(cloud, Ref(t)))
DbDelete(t, f) == At(t, Db, "delete", 0) /\ Same(t, f, Delete(cloud, Ref(t)))
DbGetVersion(t, f) == At(t, Db, "version", 0) /\ Same(t, f, Head1(cloud, Ref(t)))
DbList(t, f) == At(t, Db, "list", 0) /\ Same(t, f, Quiet)
DbCreateFolder(t, f) == At(t, Db, "mkdir", 0) /\ Same(t, f, MakeFolderOnce(cloud, Name(t)))
DbDeleteFolder(t, f) == At(t, Db, "rmdir", 0) /\ Same(t, f, RemoveFolder(cloud, job[t].ref))

\* dbx_upload_session_start()
DbBegin(t) == Begin(cloud, Name(t), Name(t), 0)
DbStreamOpen(t, f) ==
    LET r == DbBegin(t) IN
    At(t, Db, "open", 0) /\ Last(t, f, r, OpenUpload(t, r.ref), inst[t])

\* upload_stream_write(): a full buffer is taken and appended at confirmed_offset,
\* which moves only when the append succeeded; what was taken is gone either way.
DbFull(t) == Len(Buffered(t).up.buf) >= FlushAt
DbStreamWrite(t) == At(t, Db, "write", 0) /\ ~DbFull(t) /\ Local(t, TRUE, Quiet, Buffered(t))
DbAppend(u) == Append1(cloud, u.sid, u.at, u.buf)
DbStreamFlush(t, f) ==
    LET u == Buffered(t).up
        taken == [inst[t] EXCEPT !.up.buf = <<>>] IN
    /\ At(t, Db, "write", 0) /\ DbFull(t)
    /\ Last(t, f, DbAppend(u),
            [taken EXCEPT !.up.at = @ + Len(u.buf)], taken)

\* upload_stream_close(): finish with the rest of the buffer; overwrite.
DbFinishEmpty(t) == Commit(cloud, t, inst[t].up.sid)
DbFinish(t) ==
    LET u == inst[t].up
        r == Append1(cloud, u.sid, u.at, u.buf) IN
    IF r.code = "ok" THEN Commit(r.cloud, t, u.sid) ELSE r
DbStreamClose(t, f) == At(t, Db, "close", 0) /\ Last(t, f, DbFinish(t), Gone(t), Gone(t))
\* upload_stream_abort(): the session is left to expire.
DbStreamAbort(t) == At(t, Db, "abort", 0) /\ Local(t, TRUE, Quiet, Gone(t))

DbDownloadOpen(t, style) == At(t, Db, "dlopen", 0) /\ OpenDownload(t, style)
DbDownloadRead(t, f) == At(t, Db, "dlread", 0) /\ RangedRead(t, f)
DbDownloadClose(t) == At(t, Db, "dlclose", 0) /\ CloseDownload(t)

DbNext(t) ==
    \/ DbInit(t) \/ DbDisconnect(t) \/ DbStreamWrite(t) \/ DbStreamAbort(t) \/ DbDownloadClose(t)
    \/ \E style \in Styles : DbDownloadOpen(t, style)
    \/ \E f \in Fates :
         \/ DbRefreshAuth(t, f) \/ DbUpload(t, f) \/ DbDownload(t, f) \/ DbDelete(t, f)
         \/ DbGetVersion(t, f) \/ DbList(t, f) \/ DbCreateFolder(t, f) \/ DbDeleteFolder(t, f)
         \/ DbStreamOpen(t, f) \/ DbStreamFlush(t, f) \/ DbStreamClose(t, f) \/ DbDownloadRead(t, f)
=============================================================================
