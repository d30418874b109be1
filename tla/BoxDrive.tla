------------------------------ MODULE BoxDrive ------------------------------
(***************************************************************************)
(* providers/box_storage.rs: ids under unique names, and streams that are  *)
(* kept in memory and uploaded when they are closed.                       *)
(***************************************************************************)
EXTENDS CloudApi

Bx == {"box"}

\* init() and box_ensure_root(): create the folder; 409 means that a listing has it.
BxEnsureRoot == MakeFolderOnce(cloud, RootName)
BxInit(t, f) ==
    LET r == BxEnsureRoot IN
    /\ At(t, Bx, "init", 0)
    /\ IF r.code = "conflict" THEN More(t, f, Quiet, Ready, Ready, 1)
       ELSE Last(t, f, r, [Ready EXCEPT !.root = r.ref], Ready)
BxFindRoot(t, f, d) ==
    /\ At(t, Bx, "init", 1) /\ d \in Folders(cloud, RootName)
    /\ Last(t, f, Quiet, [Ready EXCEPT !.root = d.id], Ready)
BxRefreshAuth(t) == At(t, Bx, "refresh", 0) /\ Local(t, TRUE, Quiet, inst[t])
BxDisconnect(t) == At(t, Bx, "disconnect", 0) /\ Local(t, TRUE, Quiet, NoInst)

\* box_upload_file(): a new version of an id, or a new file whose name is free.
BxUploadFile(t, body) ==
    IF Ref(t) # None /\ Kind(t) \notin {"stream", "copy"} THEN Replace(cloud, t, Ref(t), body, Cond(t))
    ELSE IF Taken(cloud, Name(t)) THEN Fails(cloud, "conflict")
    ELSE Store(cloud, t, Fresh(cloud), Name(t), body)
BxUpload(t, f) == At(t, Bx, "upload", 0) /\ Same(t, f, BxUploadFile(t, Whole(t)))
BxDownload(t, f) == At(t, Bx, "download", 0) /\ Same(t, f, GetAll(cloud, Ref(t)))
BxDelete(t, f) ==
    At(t, Bx, "delete", 0) /\ Same(t, f, Tolerating(Delete(cloud, Ref(t)), "missing"))
BxGetVersion(t, f) == At(t, Bx, "version", 0) /\ Same(t, f, Head1(cloud, Ref(t)))
BxList(t, f) == At(t, Bx, "list", 0) /\ Same(t, f, Quiet)
\* create_folder(): as for the root.
BxCreateFolder(t, f) ==
    LET r == MakeFolderOnce(cloud, Name(t)) IN
    /\ At(t, Bx, "mkdir", 0)
    /\ IF r.code = "conflict" THEN More(t, f, Quiet, inst[t], inst[t], 1) ELSE Same(t, f, r)
BxFindFolder(t, f) ==
    LET found == Folders(cloud, Name(t)) IN
    /\ At(t, Bx, "mkdir", 1)
    /\ Same(t, f, IF found = {} THEN Fails(cloud, "missing")
                  ELSE Reply(cloud, "ok", 0, (CHOOSE d \in found : TRUE).id))
BxDeleteFolder(t, f) == At(t, Bx, "rmdir", 0) /\ Same(t, f, RemoveFolder(cloud, job[t].ref))

BxStreamOpen(t) == At(t, Bx, "open", 0) /\ Local(t, TRUE, Quiet, OpenUpload(t, None))
BxStreamWrite(t) == At(t, Bx, "write", 0) /\ Local(t, TRUE, Quiet, Buffered(t))
BxStreamClose(t, f) ==
    At(t, Bx, "close", 0) /\ Last(t, f, BxUploadFile(t, inst[t].up.buf), Gone(t), Gone(t))
BxStreamAbort(t) == At(t, Bx, "abort", 0) /\ Local(t, TRUE, Quiet, Gone(t))

BxDownloadOpen(t, style) == At(t, Bx, "dlopen", 0) /\ OpenDownload(t, style)
BxDownloadRead(t, f) == At(t, Bx, "dlread", 0) /\ RangedRead(t, f)
BxDownloadClose(t) == At(t, Bx, "dlclose", 0) /\ CloseDownload(t)

BxNext(t) ==
    \/ BxRefreshAuth(t) \/ BxDisconnect(t) \/ BxStreamOpen(t) \/ BxStreamWrite(t)
    \/ BxStreamAbort(t) \/ BxDownloadClose(t)
    \/ \E style \in Styles : BxDownloadOpen(t, style)
    \/ \E f \in Fates :
         \/ BxInit(t, f) \/ (\E d \in cloud.dirs : BxFindRoot(t, f, d)) \/ BxUpload(t, f)
         \/ BxDownload(t, f) \/ BxDelete(t, f) \/ BxGetVersion(t, f) \/ BxList(t, f)
         \/ BxCreateFolder(t, f) \/ BxFindFolder(t, f) \/ BxDeleteFolder(t, f)
         \/ BxStreamClose(t, f) \/ BxDownloadRead(t, f)
=============================================================================
