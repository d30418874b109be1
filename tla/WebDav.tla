------------------------------- MODULE WebDav -------------------------------
(***************************************************************************)
(* providers/webdav.rs and the streamed PUT of api/streaming_put.rs.  The  *)
(* drive says what the server can do; the instance keeps in root what its  *)
(* probe found: Nextcloud chunking, tus, a streamed PUT or a buffered one. *)
(***************************************************************************)
EXTENDS CloudApi

WdCaps == [d \in {"dav-nc", "dav-tus", "dav-put", "dav-buffer"} |->
             CASE d = "dav-nc" -> "nc" [] d = "dav-tus" -> "tus"
               [] d = "dav-put" -> "put" [] d = "dav-buffer" -> "buffer"]
Wd == DOMAIN WdCaps
WdCan(t, cap) == inst[t].root = cap

\* init(): probe_capabilities() never fails, it falls back; verify_webdav_auth() can.
WdFallback == IF drive = "dav-buffer" THEN "buffer" ELSE "put"
WdProbe(t, f) ==
    /\ At(t, Wd, "init", 0) /\ f # "lost"
    /\ Fate(f, Quiet)
    /\ inst' = [inst EXCEPT ![t] = [NoInst EXCEPT !.sub = 1,
                                      !.root = IF f = "ok" THEN WdCaps[drive] ELSE WdFallback]]
    /\ UNCHANGED job
WdConnected(t) == [inst[t] EXCEPT !.ready = TRUE]
WdVerifyAuth(t, f) == At(t, Wd, "init", 1) /\ Last(t, f, Quiet, WdConnected(t), NoInst)
WdRefreshAuth(t) == At(t, Wd, "refresh", 0) /\ Local(t, TRUE, Quiet, inst[t])
WdDisconnect(t) == At(t, Wd, "disconnect", 0) /\ Local(t, TRUE, Quiet, NoInst)

\* upload(): PUT with If-Match.
WdUrl(t) == IF Ref(t) = None \/ Kind(t) \in {"stream", "copy"} THEN Name(t) ELSE Ref(t)
WdPut(t, body) == PutObject(cloud, t, WdUrl(t), WdUrl(t), body, Cond(t))
WdUpload(t, f) == At(t, Wd, "upload", 0) /\ Same(t, f, WdPut(t, Whole(t)))
WdDownload(t, f) == At(t, Wd, "download", 0) /\ Same(t, f, GetAll(cloud, Ref(t)))
\* Here a 404 is an error.
WdDelete(t, f) == At(t, Wd, "delete", 0) /\ Same(t, f, Delete(cloud, Ref(t)))
WdGetVersion(t, f) == At(t, Wd, "version", 0) /\ Same(t, f, Head1(cloud, Ref(t)))
WdList(t, f) == At(t, Wd, "list", 0) /\ Same(t, f, Quiet)
\* 405 is a folder that was there.
WdCreateFolder(t, f) ==
    At(t, Wd, "mkdir", 0) /\ Same(t, f, Tolerating(MakeFolderOnce(cloud, Name(t)), "conflict"))
WdDeleteFolder(t, f) ==
    /\ At(t, Wd, "rmdir", 0)
    /\ Same(t, f, IF Folders(cloud, Name(t)) = {} THEN Fails(cloud, "missing")
                  ELSE Reply([cloud EXCEPT !.dirs = @ \ Folders(cloud, Name(t))], "ok", 0, None))

\* upload_stream_open(): query_webdav_quota() refuses only what it knows will not fit;
\* a server that is silent about its quota, or does not answer, lets the upload go on.
WdQuota(t, fits) ==
    /\ At(t, Wd, "open", 0)
    /\ IF fits THEN inst' = [inst EXCEPT ![t].sub = 1] /\ UNCHANGED <<drive, plan, cloud, job, faults>>
       ELSE Local(t, FALSE, Quiet, inst[t])
\* A small file on Nextcloud is buffered.
WdChunks(t) == WdCan(t, "nc") /\ NewUpload(t, None).total >= FlushAt
WdStreams(t) == WdCan(t, "put")
WdBuffers(t) == ~WdChunks(t) /\ ~WdCan(t, "tus") /\ ~WdStreams(t)
\* MKCOL of a transaction directory, or tus_create_upload(): the url of a tus upload is
\* where its content stays.
WdTusCreate(t) == Begin(cloud, Fresh(cloud), Name(t), NewUpload(t, None).total)
WdMakeTx(t) == Begin(cloud, WdUrl(t), Name(t), NewUpload(t, None).total)
WdStreamOpen(t, f) ==
    LET r == IF WdCan(t, "tus") THEN WdTusCreate(t) ELSE WdMakeTx(t) IN
    /\ At(t, Wd, "open", 1) /\ ~WdBuffers(t) /\ ~WdStreams(t)
    /\ Last(t, f, r, OpenUpload(t, r.ref), inst[t])
WdStreamOpenLocal(t) ==
    At(t, Wd, "open", 1) /\ WdBuffers(t) /\ Local(t, TRUE, Quiet, OpenUpload(t, None))

\* put_stream_open(): the fetch is under way and its body is an open pipe.
WdPutStreamOpen(t) ==
    At(t, Wd, "open", 1) /\ WdStreams(t) /\ Local(t, TRUE, Quiet, OpenUpload(t, None))

\* upload_stream_write(): nc_put_chunk() of a full buffer, tus_patch_chunk() of every
\* chunk at an offset that was already advanced, or a buffer that grows.
WdStreamBuffer(t) ==
    /\ At(t, Wd, "write", 0) /\ ~WdCan(t, "tus") /\ ~WdStreams(t)
    /\ WdChunks(t) => Len(Buffered(t).up.buf) < FlushAt
    /\ Local(t, TRUE, Quiet, Buffered(t))
WdNcChunk(u) == Append1(cloud, u.sid, u.at, u.buf)
WdPutChunk(t, f) ==
    LET u == Buffered(t).up
        taken == [inst[t] EXCEPT !.up.buf = <<>>, !.up.at = @ + Len(u.buf)] IN
    /\ At(t, Wd, "write", 0) /\ WdChunks(t) /\ Len(u.buf) >= FlushAt
    /\ Last(t, f, WdNcChunk(u), taken, taken)
WdTusPatch(t, u) == AppendAndCommit(cloud, t, u.sid, u.at, job[t].hold)
WdPatchChunk(t, f) ==
    LET u == inst[t].up
        moved == [inst[t] EXCEPT !.up.at = @ + Len(job[t].hold)] IN
    /\ At(t, Wd, "write", 0) /\ WdCan(t, "tus")
    /\ Last(t, f, WdTusPatch(t, u), moved, moved)
\* put_stream_write(): a push into the body, which fails once the fetch is gone.
WdPutStreamWrite(t, f) ==
    /\ At(t, Wd, "write", 0) /\ WdStreams(t) /\ f # "lost"
    /\ Last(t, f, Quiet, Buffered(t), inst[t])

\* upload_stream_close(): the last chunk, the MOVE that assembles the file when it has
\* the announced length, and a HEAD for its version, whatever that answers.
WdLastChunk(t, f) ==
    LET u == inst[t].up IN
    /\ At(t, Wd, "close", 0) /\ WdChunks(t)
    /\ More(t, f, WdNcChunk(u), inst[t], Gone(t), 1)
WdAssembled(s, t, u) ==
    IF u.sid \in DOMAIN s.up /\ Len(s.up[u.sid].body) = u.total THEN Commit(s, t, u.sid)
    ELSE Fails(s, "error")
WdMoveAssemble(t, f) ==
    /\ At(t, Wd, "close", 1)
    /\ More(t, f, WdAssembled(cloud, t, inst[t].up), inst[t], Gone(t), 2)
WdHeadVersion(t, f) ==
    At(t, Wd, "close", 2) /\ Last(t, f, Tolerating(Head1(cloud, WdUrl(t)), "missing"), Gone(t), Gone(t))
\* A tus upload is whole after its last chunk; its result has no version.
WdTusClose(t) ==
    /\ At(t, Wd, "close", 0) /\ WdCan(t, "tus")
    /\ Local(t, TRUE, Reply(cloud, "ok", 0, inst[t].up.sid), Gone(t))
WdStreamClose(t, f) ==
    At(t, Wd, "close", 0) /\ WdBuffers(t) /\ Last(t, f, WdPut(t, inst[t].up.buf), Gone(t), Gone(t))
\* put_stream_close(): the end of the body; the server has stored it when it answers.
WdPutStreamClose(t, f) ==
    At(t, Wd, "close", 0) /\ WdStreams(t) /\ Last(t, f, WdPut(t, inst[t].up.buf), Gone(t), Gone(t))

\* upload_stream_abort(): nc_delete_tx() or a tus DELETE, whatever they answer; a tus
\* upload that was whole goes too.
WdCancel(s, sid) == Cancel([s EXCEPT !.obj = Drop(@, sid)], sid)
WdAbort(t, f) ==
    /\ At(t, Wd, "abort", 0) /\ inst[t].up # None /\ ~WdBuffers(t) /\ ~WdStreams(t)
    /\ Last(t, f, WdCancel(cloud, inst[t].up.sid), Gone(t), Gone(t))
WdAbortLocal(t) ==
    /\ At(t, Wd, "abort", 0) /\ ~WdStreams(t) /\ (inst[t].up = None \/ WdBuffers(t))
    /\ Local(t, TRUE, Quiet, Gone(t))
\* put_stream_abort() cancels the fetch; the server discards a body without its end.
WdPutStreamAbort(t) == At(t, Wd, "abort", 0) /\ WdStreams(t) /\ Local(t, TRUE, Quiet, Gone(t))

WdDownloadOpen(t, style) == At(t, Wd, "dlopen", 0) /\ OpenDownload(t, style)
WdDownloadRead(t, f) == At(t, Wd, "dlread", 0) /\ RangedRead(t, f)
WdDownloadClose(t) == At(t, Wd, "dlclose", 0) /\ CloseDownload(t)

WdNext(t) ==
    \/ WdRefreshAuth(t) \/ WdDisconnect(t) \/ WdStreamOpenLocal(t) \/ WdStreamBuffer(t)
    \/ WdPutStreamOpen(t) \/ WdPutStreamAbort(t) \/ WdTusClose(t) \/ WdAbortLocal(t) \/ WdDownloadClose(t)
    \/ \E fits \in BOOLEAN : WdQuota(t, fits)
    \/ \E style \in Styles : WdDownloadOpen(t, style)
    \/ \E f \in Fates :
         \/ WdProbe(t, f) \/ WdVerifyAuth(t, f) \/ WdUpload(t, f) \/ WdDownload(t, f)
         \/ WdDelete(t, f) \/ WdGetVersion(t, f) \/ WdList(t, f) \/ WdCreateFolder(t, f)
         \/ WdDeleteFolder(t, f) \/ WdStreamOpen(t, f) \/ WdPutChunk(t, f)
         \/ WdPutStreamWrite(t, f) \/ WdPutStreamClose(t, f)
         \/ WdPatchChunk(t, f) \/ WdLastChunk(t, f) \/ WdMoveAssemble(t, f)
         \/ WdHeadVersion(t, f) \/ WdStreamClose(t, f) \/ WdAbort(t, f) \/ WdDownloadRead(t, f)
=============================================================================
