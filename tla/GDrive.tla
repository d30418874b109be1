------------------------------- MODULE GDrive -------------------------------
(***************************************************************************)
(* providers/gdrive.rs: objects and folders have ids, names are not        *)
(* unique, and a stream is a resumable upload that the server completes    *)
(* when it has the declared number of bytes.                               *)
(***************************************************************************)
EXTENDS CloudApi

Gd == {"gdrive"}

\* init() stores the token, then gdrive_ensure_root_folder(): the first folder the
\* query finds, or a new one.
GdInitFind(t, f, d) ==
    /\ At(t, Gd, "init", 0) /\ d \in Folders(cloud, RootName)
    /\ Last(t, f, Quiet, [Ready EXCEPT !.root = d.id], Ready)
GdInitNone(t, f) ==
    /\ At(t, Gd, "init", 0) /\ Folders(cloud, RootName) = {}
    /\ More(t, f, Quiet, Ready, Ready, 1)
GdEnsureRootFolder(t, f) ==
    LET r == MakeFolder(cloud, RootName) IN
    /\ At(t, Gd, "init", 1)
    /\ Last(t, f, r, [Ready EXCEPT !.root = r.ref], Ready)
GdRefreshAuth(t) == At(t, Gd, "refresh", 0) /\ Local(t, TRUE, Quiet, inst[t])
GdDisconnect(t) == At(t, Gd, "disconnect", 0) /\ Local(t, TRUE, Quiet, NoInst)

\* gdrive_upload(): PATCH of an id with If-Match, or POST of a new file.
GdPatchAny(t) == Replace(cloud, t, Ref(t), Whole(t), None)
GdPatch(t) == Replace(cloud, t, Ref(t), Whole(t), Cond(t))
GdUpload(t, f) ==
    /\ At(t, Gd, "upload", 0)
    /\ Same(t, f, IF Ref(t) = None THEN Store(cloud, t, Fresh(cloud), Name(t), Whole(t)) ELSE GdPatch(t))
GdDownload(t, f) ==
    At(t, Gd, "download", 0) /\ Same(t, f, GetAll(cloud, Ref(t)))
\* 404 is a delete that was already done.
GdDelete(t, f) ==
    At(t, Gd, "delete", 0) /\ Same(t, f, Tolerating(Delete(cloud, Ref(t)), "missing"))
GdGetVersion(t, f) == At(t, Gd, "version", 0) /\ Same(t, f, Head1(cloud, Ref(t)))
\* One page of the root folder.
GdList(t, f) == At(t, Gd, "list", 0) /\ Same(t, f, Quiet)
GdCreateFolder(t, f) == At(t, Gd, "mkdir", 0) /\ Same(t, f, MakeFolder(cloud, Name(t)))
GdDeleteFolder(t, f) == At(t, Gd, "rmdir", 0) /\ Same(t, f, RemoveFolder(cloud, job[t].ref))

\* gdrive_start_resumable_upload() and the entry in upload_sessions.
GdResumable(t) == Begin(cloud, None, Name(t), NewUpload(t, None).total)
GdStreamOpen(t, f) ==
    LET r == GdResumable(t) IN
    /\ At(t, Gd, "open", 0)
    /\ Last(t, f, r, OpenUpload(t, r.ref), inst[t])

\* upload_stream_write(): one PUT at bytes_written.  200 completes the upload; 308
\* does not, and may mean that the server kept only a part.
GdAdvance(t, final) ==
    [inst[t] EXCEPT !.up.at = @ + Len(job[t].hold), !.up.final = final]
GdStreamWrite(t, f) ==
    LET u == inst[t].up
        r == AppendAndCommit(cloud, t, u.sid, u.at, job[t].hold) IN
    /\ At(t, Gd, "write", 0)
    /\ Last(t, f, r, GdAdvance(t, r.ver), inst[t])
GdStreamWriteShort(t, m) ==
    LET u == inst[t].up
        r == Append1(cloud, u.sid, u.at, SubSeq(job[t].hold, 1, m)) IN
    /\ At(t, Gd, "write", 0) /\ r.code = "ok"
    /\ faults < MaxFaults /\ faults' = faults + 1
    /\ cloud' = r.cloud
    /\ inst' = [inst EXCEPT ![t] = GdAdvance(t, 0)]
    /\ job' = [job EXCEPT ![t] = After(t, TRUE, r)]
    /\ UNCHANGED <<drive, plan>>

\* upload_stream_close(): the cached answer; a refusal of what is too short; or a
\* status query, whose 308 is an error.
GdRefusesShort(u) == u.at < u.total
GdStreamClose(t) ==
    LET u == inst[t].up IN
    /\ At(t, Gd, "close", 0) /\ (u.final # 0 \/ GdRefusesShort(u))
    /\ Local(t, u.final # 0, Reply(cloud, "ok", u.final, None), Gone(t))
GdStreamCloseQuery(t, f) ==
    LET u == inst[t].up
        whole == u.sid \in DOMAIN cloud.up /\ Len(cloud.up[u.sid].body) = u.total IN
    /\ At(t, Gd, "close", 0) /\ u.final = 0 /\ ~GdRefusesShort(u)
    /\ Last(t, f, IF whole THEN Commit(cloud, t, u.sid) ELSE Fails(cloud, "308"), Gone(t), Gone(t))
\* upload_stream_abort(): whatever the DELETE answers.
GdForget(s, sid) == Reply(s, "ok", 0, None)
GdCancel(s, sid) == Cancel(s, sid)
GdStreamAbort(t, f) ==
    /\ At(t, Gd, "abort", 0)
    /\ IF inst[t].up = None THEN f = "ok" /\ Local(t, TRUE, Quiet, inst[t])
       ELSE Last(t, f, GdCancel(cloud, inst[t].up.sid), Gone(t), Gone(t))

GdDownloadOpen(t, style) == At(t, Gd, "dlopen", 0) /\ OpenDownload(t, style)
GdDownloadRead(t, f) == At(t, Gd, "dlread", 0) /\ RangedRead(t, f)
GdDownloadClose(t) == At(t, Gd, "dlclose", 0) /\ CloseDownload(t)

GdNext(t) ==
    \/ GdRefreshAuth(t) \/ GdDisconnect(t) \/ GdStreamClose(t) \/ GdDownloadClose(t)
    \/ \E style \in Styles : GdDownloadOpen(t, style)
    \/ \E m \in 0..Len(job[t].hold) : GdStreamWriteShort(t, m)
    \/ \E f \in Fates :
         \/ \E d \in cloud.dirs : GdInitFind(t, f, d)
         \/ GdInitNone(t, f) \/ GdEnsureRootFolder(t, f) \/ GdUpload(t, f) \/ GdDownload(t, f)
         \/ GdDelete(t, f) \/ GdGetVersion(t, f) \/ GdList(t, f) \/ GdCreateFolder(t, f)
         \/ GdDeleteFolder(t, f) \/ GdStreamOpen(t, f) \/ GdStreamWrite(t, f)
         \/ GdStreamCloseQuery(t, f) \/ GdStreamAbort(t, f) \/ GdDownloadRead(t, f)
=============================================================================
