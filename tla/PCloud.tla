------------------------------- MODULE PCloud -------------------------------
(***************************************************************************)
(* providers/pcloud.rs: objects are named by their path, streams are kept  *)
(* in memory, and a download goes through a link that expires.             *)
(***************************************************************************)
EXTENDS CloudApi

Pc == {"pcloud"}

\* init() and pcloud_ensure_root(): 2004 is a folder that was there.
PcEnsureRoot == Tolerating(MakeFolderOnce(cloud, RootName), "conflict")
PcInit(t, f) == At(t, Pc, "init", 0) /\ Last(t, f, PcEnsureRoot, Ready, Ready)
PcRefreshAuth(t) == At(t, Pc, "refresh", 0) /\ Local(t, TRUE, Quiet, inst[t])
PcDisconnect(t) == At(t, Pc, "disconnect", 0) /\ Local(t, TRUE, Quiet, NoInst)

\* pcloud_upload(): with an expected version, a stat before the upload; a file that is
\* not there has no version to differ from.
PcPath(t) == IF Ref(t) = None THEN Name(t) ELSE Ref(t)
PcStat(t) ==
    LET r == Head1(cloud, PcPath(t)) IN
    IF r.code = "ok" /\ r.ver # Cond(t) THEN Fails(cloud, "conflict") ELSE Tolerating(r, "missing")
PcUploadStat(t, f) ==
    /\ At(t, Pc, "upload", 0) /\ Cond(t) # None
    /\ More(t, f, PcStat(t), inst[t], inst[t], 1)
PcStore(t, body) == PutObject(cloud, t, PcPath(t), PcPath(t), body, None)
PcUpload(t, f) ==
    /\ At(t, Pc, "upload", IF Cond(t) = None THEN 0 ELSE 1)
    /\ Same(t, f, PcStore(t, Whole(t)))

\* download(): the link, then the content at it.
PcDownloadLink(t, f) ==
    /\ At(t, Pc, "download", 0)
    /\ More(t, f, Head1(cloud, Ref(t)), inst[t], inst[t], 1)
PcDownload(t, f) == At(t, Pc, "download", 1) /\ Same(t, f, GetAll(cloud, Ref(t)))
PcDelete(t, f) ==
    At(t, Pc, "delete", 0) /\ Same(t, f, Tolerating(Delete(cloud, Ref(t)), "missing"))
PcGetVersion(t, f) == At(t, Pc, "version", 0) /\ Same(t, f, Head1(cloud, Ref(t)))
PcList(t, f) == At(t, Pc, "list", 0) /\ Same(t, f, Quiet)
PcCreateFolder(t, f) ==
    At(t, Pc, "mkdir", 0) /\ Same(t, f, Tolerating(MakeFolderOnce(cloud, Name(t)), "conflict"))
\* The folder's path is its ref.
PcDeleteFolder(t, f) ==
    /\ At(t, Pc, "rmdir", 0)
    /\ Same(t, f, Reply([cloud EXCEPT !.dirs = @ \ Folders(cloud, Name(t))], "ok", 0, None))

PcStreamOpen(t) == At(t, Pc, "open", 0) /\ Local(t, TRUE, Quiet, OpenUpload(t, None))
PcStreamWrite(t) == At(t, Pc, "write", 0) /\ Local(t, TRUE, Quiet, Buffered(t))
PcStreamClose(t, f) ==
    At(t, Pc, "close", 0) /\ Last(t, f, PcStore(t, inst[t].up.buf), Gone(t), Gone(t))
PcStreamAbort(t) == At(t, Pc, "abort", 0) /\ Local(t, TRUE, Quiet, Gone(t))

\* download_stream_open() fetches a link.  A read that finds it expired fetches
\* another one and asks for the same range once more.
PcDownloadOpen(t, f, style) ==
    /\ At(t, Pc, "dlopen", 0)
    /\ Last(t, f, Head1(cloud, Ref(t)), [inst[t] EXCEPT !.dl = NewDownload(style)], inst[t])
PcDownloadRead(t, f) == At(t, Pc, "dlread", 0) /\ RangedRead(t, f)
PcExpired(t, sub) ==
    /\ At(t, Pc, "dlread", sub) /\ NextRequest(inst[t].dl) > 0
    /\ faults < MaxFaults /\ faults' = faults + 1
    /\ UNCHANGED <<drive, plan, cloud>>
PcLinkExpired(t) ==
    /\ PcExpired(t, 0)
    /\ inst' = [inst EXCEPT ![t].sub = 1]
    /\ UNCHANGED job
PcFetchLink(t, f) ==
    At(t, Pc, "dlread", 1) /\ More(t, f, Head1(cloud, Ref(t)), inst[t], inst[t], 2)
PcReadAgain(t, f) == At(t, Pc, "dlread", 2) /\ RangedRead(t, f)
PcExpiredAgain(t) ==
    /\ PcExpired(t, 2)
    /\ inst' = [inst EXCEPT ![t].sub = 0]
    /\ job' = [job EXCEPT ![t] = After(t, FALSE, Quiet)]
PcDownloadClose(t) == At(t, Pc, "dlclose", 0) /\ CloseDownload(t)

PcNext(t) ==
    \/ PcRefreshAuth(t) \/ PcDisconnect(t) \/ PcStreamOpen(t) \/ PcStreamWrite(t)
    \/ PcStreamAbort(t) \/ PcLinkExpired(t) \/ PcExpiredAgain(t) \/ PcDownloadClose(t)
    \/ \E f \in Fates :
         \/ PcInit(t, f) \/ PcUploadStat(t, f) \/ PcUpload(t, f) \/ PcDownloadLink(t, f)
         \/ PcDownload(t, f) \/ PcDelete(t, f) \/ PcGetVersion(t, f) \/ PcList(t, f)
         \/ PcCreateFolder(t, f) \/ PcDeleteFolder(t, f) \/ PcStreamClose(t, f)
         \/ (\E style \in Styles : PcDownloadOpen(t, f, style)) \/ PcDownloadRead(t, f)
         \/ PcFetchLink(t, f) \/ PcReadAgain(t, f)
=============================================================================
