------------------------------ MODULE CloudApi ------------------------------
(***************************************************************************)
(* What the storage providers of sdk-core/src/byo/providers share: the     *)
(* HTTP API behind them, the ranged download of providers/mod.rs, and the  *)
(* callers in sdk-wasm, byo_providers.rs and byo_streaming.rs, which make  *)
(* a provider instance for every call and for every stream.                *)
(*                                                                         *)
(* An instance belongs to one job, so a step is one HTTP request with the  *)
(* code on both sides of it, and jobs interleave between requests.  A      *)
(* request may fail before the server acts or lose its answer after it.    *)
(* The bytes of a blob are units: unit i of the content that job o made.   *)
(***************************************************************************)
EXTENDS Integers, Sequences, FiniteSets, FiniteSetsExt, Maps

CONSTANTS
    Drives,             \* the providers, and for WebDAV the capability of the server
    Jobs,               \* calls of the application, each run once
    Scenarios,          \* functions from jobs to [kind, name, ref, n]
    FlushAt,            \* the flush or part size of a stream, in units
    RangeSize,          \* RANGE_CHUNK_SIZE, in units
    MaxFaults           \* bound on the requests that fail

ASSUME CloudAssumption ==
    /\ {FlushAt, RangeSize} \subseteq Nat \ {0} /\ MaxFaults \in Nat
    /\ Jobs \subseteq Nat \ {0} /\ None \notin Nat
    /\ \A p \in Scenarios, t \in Jobs : p[t].name \in 1..9 /\ p[t].n \in Nat

VARIABLES
    drive,              \* the provider of this behaviour
    plan,               \* its scenario
    cloud,              \* the account at the provider
    inst,               \* job -> the provider instance it uses
    job,                \* job -> [pc, k, hold, got, seen, ver, out, reg]
    faults

cloudVars == <<drive, plan, cloud, inst, job, faults>>
-----------------------------------------------------------------------------
(***************************************************************************)
(* The account: objects and upload sessions by id, folders, a counter for  *)
(* versions and ids, and the history of what was stored over what.         *)
(***************************************************************************)
\* The object every account starts with is content 0; the other contents are jobs.
SeedUnits == 3
Units(o) == IF o = 0 THEN SeedUnits
            ELSE IF plan[o].kind \in {"stream", "copy"} THEN plan[o].n + 2 ELSE plan[o].n
Whole(o) == [i \in 1..Units(o) |-> <<o, i>>]
IsWhole(body) == body # <<>> /\ body = Whole(body[1][1])

Seed == [obj |-> Put(EmptyMap, 1, [name |-> 1, body |-> [i \in 1..SeedUnits |-> <<0, i>>], ver |-> 1]),
         up |-> EmptyMap, dirs |-> {}, seq |-> 2, log |-> {}]

Reply(s, code, ver, ref) == [cloud |-> s, code |-> code, ver |-> ver, ref |-> ref, data |-> <<>>]
Fails(s, code) == Reply(s, code, 0, None)
Fresh(s) == 10 + s.seq

Store(s, by, id, name, body) ==
    Reply([s EXCEPT !.obj = Put(@, id, [name |-> name, body |-> body, ver |-> s.seq]),
                    !.seq = @ + 1,
                    !.log = @ \cup {[by |-> by, id |-> id, ver |-> s.seq,
                                     was |-> IF id \in DOMAIN s.obj THEN s.obj[id].ver ELSE 0]}],
          "ok", s.seq, id)
\* If-Match
Guarded(s, id, cond) == cond = None \/ (id \in DOMAIN s.obj /\ s.obj[id].ver = cond)
PutObject(s, by, id, name, body, cond) ==
    IF Guarded(s, id, cond) THEN Store(s, by, id, name, body) ELSE Fails(s, "conflict")
\* An object that must be there.
Replace(s, by, id, body, cond) ==
    IF id \notin DOMAIN s.obj THEN Fails(s, "missing")
    ELSE PutObject(s, by, id, s.obj[id].name, body, cond)
Taken(s, name) == \E id \in DOMAIN s.obj : s.obj[id].name = name
Begin(s, id, name, total) ==
    Reply([s EXCEPT !.up = Put(@, Fresh(s), [id |-> id, name |-> name, total |-> total,
                                             body |-> <<>>]),
                    !.seq = @ + 1], "ok", 0, Fresh(s))
Append1(s, sid, off, data) ==
    IF sid \notin DOMAIN s.up \/ off # Len(s.up[sid].body) THEN Fails(s, "error")
    ELSE Reply([s EXCEPT !.up[sid].body = @ \o data], "ok", 0, sid)
Cancel(s, sid) == Reply([s EXCEPT !.up = Drop(@, sid)], "ok", 0, None)
\* The session becomes the object its id or name says.
Commit(s, by, sid) ==
    LET u == s.up[sid] IN
    Store([s EXCEPT !.up = Drop(@, sid)], by, IF u.id = None THEN Fresh(s) ELSE u.id,
          u.name, u.body)
AppendAndCommit(s, by, sid, off, data) ==
    LET r == Append1(s, sid, off, data) IN
    IF r.code = "ok" /\ Len(r.cloud.up[sid].body) = r.cloud.up[sid].total
    THEN Commit(r.cloud, by, sid) ELSE r
Head1(s, id) == IF id \in DOMAIN s.obj THEN Reply(s, "ok", s.obj[id].ver, id) ELSE Fails(s, "missing")
GetRange(s, id, off, len) ==
    IF id \notin DOMAIN s.obj THEN Fails(s, "missing")
    ELSE LET body == s.obj[id].body IN
         [Head1(s, id) EXCEPT !.data = SubSeq(body, off + 1, Min({Len(body), off + len}))]
GetAll(s, id) == IF id \in DOMAIN s.obj THEN GetRange(s, id, 0, Len(s.obj[id].body)) ELSE Fails(s, "missing")
Delete(s, id) ==
    IF id \in DOMAIN s.obj THEN Reply([s EXCEPT !.obj = Drop(@, id)], "ok", 0, None)
    ELSE Fails(s, "missing")
\* A status the provider takes for success.
Tolerating(r, code) == IF r.code = code THEN [r EXCEPT !.code = "ok"] ELSE r
Folders(s, name) == {d \in s.dirs : d.name = name}
MakeFolder(s, name) ==
    Reply([s EXCEPT !.dirs = @ \cup {[id |-> Fresh(s), name |-> name]}, !.seq = @ + 1],
          "ok", 0, Fresh(s))
MakeFolderOnce(s, name) ==
    IF Folders(s, name) = {} THEN MakeFolder(s, name) ELSE Fails(s, "conflict")
RemoveFolder(s, id) == Reply([s EXCEPT !.dirs = {d \in @ : d.id # id}], "ok", 0, None)
RootName == 0
-----------------------------------------------------------------------------
(***************************************************************************)
(* The instance: a token, the root folder, one upload and one download.    *)
(***************************************************************************)
NoInst == [ready |-> FALSE, root |-> None, sub |-> 0, up |-> None, dl |-> None]
\* sid is the server's session, at and sent what it confirmed, final its last answer.
NewUpload(t, sid) == [sid |-> sid, at |-> 0, buf |-> <<>>, final |-> 0, sent |-> <<>>,
                      total |-> Units(IF plan[t].kind = "copy" THEN 0 ELSE t)]
NewDownload(style) == [style |-> style, off |-> 0, total |-> 0, done |-> FALSE]
\* A server answers a range with its total, without it, or with the whole file.
Styles == {"total", "blind", "full"}

\* RangedDownloadBuffer::next_request(): nothing once the end is known and reached.
NextRequest(d) ==
    IF d.done \/ (d.total > 0 /\ d.off >= d.total) THEN 0
    ELSE IF d.total > 0 THEN Min({RangeSize, d.total - d.off}) ELSE RangeSize
\* apply_response(): Content-Range gives the total, once; without it a short answer is
\* the last one, and so is 416, an answer with nothing.
ApplyLongEnds(d, n, asked, total) ==
    [d EXCEPT !.off = @ + n, !.total = total, !.done = n <= asked]
ApplyResponse(d, n, asked, total) ==
    CASE d.style = "full"  -> [d EXCEPT !.off = n, !.total = n, !.done = TRUE]
      [] d.style = "blind" -> [d EXCEPT !.off = @ + n, !.done = n < asked]
      [] d.style = "total" -> [d EXCEPT !.off = @ + n, !.total = IF @ = 0 THEN total ELSE @,
                                        !.done = n = 0]
-----------------------------------------------------------------------------
(***************************************************************************)
(* The callers.                                                            *)
(***************************************************************************)
\* byo_provider_call() and dispatch_op(): a fresh instance, init, one operation;
\* download() and a guarded upload in the shim are two calls.
Script(kind) ==
    CASE kind = "put"     -> <<"init", "upload">>
      [] kind = "cas"     -> <<"init", "version", "init", "upload">>
      [] kind = "get"     -> <<"init", "download", "init", "version">>
      [] kind = "list"    -> <<"init", "list">>
      [] kind = "delete"  -> <<"init", "delete">>
      [] kind = "folders" -> <<"init", "mkdir", "rmdir">>
      [] kind = "session" -> <<"init", "refresh", "disconnect", "upload">>
      [] OTHER            -> <<"init">>
NoJob == [pc |-> "init", k |-> 0, hold |-> <<>>, got |-> <<>>, seen |-> None, ver |-> 0,
          ref |-> None, out |-> "none", reg |-> FALSE]
Kind(t) == plan[t].kind
Cond(t) == IF Kind(t) = "cas" THEN job[t].seen ELSE None
EndsRegistered(j, out) == [j EXCEPT !.pc = "end", !.out = out]
Ends(j, out) == [j EXCEPT !.pc = "end", !.out = out, !.reg = FALSE]

\* The next operation of a call.
AfterCall(t, ok, r) ==
    LET j == job[t]
        s == Script(Kind(t))
        fed == CASE j.pc = "version"  -> [j EXCEPT !.seen = IF ok THEN r.ver ELSE None]
                 [] j.pc = "download" -> [j EXCEPT !.got = r.data]
                 [] OTHER             -> [j EXCEPT !.ver = r.ver, !.ref = r.ref] IN
    IF ~ok /\ ~(Kind(t) = "get" /\ j.pc = "version") THEN Ends(j, "err")
    ELSE IF j.k + 1 = Len(s) THEN Ends(fed, "ok")
    ELSE [fed EXCEPT !.k = @ + 1, !.pc = s[j.k + 2]]

\* byo_stream_upload_init(), _push() and _finalize(): the session is in UPLOADS from
\* the header to the footer, so that only a push that fails can be aborted.
AbortsOn(t) == job[t].pc = "write" /\ job[t].k \in 1..(Units(t) - 2)
AfterUpload(t, ok, r) ==
    LET j == job[t] IN
    CASE j.pc = "abort"      -> Ends(j, "aborted")
      [] ~ok                 -> IF AbortsOn(t) THEN [j EXCEPT !.pc = "abort"] ELSE Ends(j, "err")
      [] j.pc = "init"       -> [j EXCEPT !.pc = "open"]
      [] j.pc = "open"       -> [j EXCEPT !.pc = "write", !.hold = <<<<t, 1>>>>]
      [] j.pc = "write"      ->
           [j EXCEPT !.k = @ + 1, !.pc = IF j.k + 1 = Units(t) THEN "close" ELSE "write",
                     !.hold = <<<<t, j.k + 2>>>>, !.reg = j.k + 2 < Units(t)]
      [] OTHER               -> [Ends(j, "ok") EXCEPT !.ver = r.ver, !.ref = r.ref]

\* byo_stream_download_init(), _pull() until null, and _close(): the footer of the
\* stream is verified before the data may be used.
Verified(t) == IsWhole(job[t].got)
VerifiedAlways(t) == TRUE
Trusts(t) == Verified(t)
AfterPull(t, ok, r) ==
    LET j == job[t] IN
    CASE ~ok                 -> Ends(j, "err")
      [] j.pc = "init"       -> [j EXCEPT !.pc = "dlopen"]
      [] j.pc = "dlopen"     -> [j EXCEPT !.pc = "dlread", !.reg = TRUE]
      [] j.pc = "dlread"     -> IF r.data # <<>> THEN [j EXCEPT !.got = @ \o r.data]
                                ELSE IF Trusts(t) THEN [j EXCEPT !.pc = "dlclose", !.reg = FALSE]
                                ELSE Ends(j, "err")
      [] OTHER               -> Ends(j, "ok")

\* pipe_between_providers(): errors close the download, then abort the upload.
AbortRetried(j, ok) == IF ok THEN Ends(j, "err") ELSE j
AbortedOnce(j, ok) == Ends(j, "err")
AfterCopy(t, ok, r) ==
    LET j == job[t]
        close(out) == [j EXCEPT !.pc = "dlclose", !.out = out] IN
    CASE j.pc = "dlclose" -> IF j.out = "abort" THEN [j EXCEPT !.pc = "abort"] ELSE Ends(j, j.out)
      [] j.pc = "abort"   -> AbortedOnce(j, ok)
      [] ~ok              -> CASE j.pc \in {"init", "dlopen"} -> Ends(j, "err")
                               [] j.pc = "open"               -> close("err")
                               [] OTHER                       -> close("abort")
      [] j.pc = "init"    -> [j EXCEPT !.k = @ + 1, !.pc = IF j.k = 0 THEN "init" ELSE "dlopen"]
      [] j.pc = "dlopen"  -> [j EXCEPT !.pc = "open"]
      [] j.pc \in {"open", "write"} -> [j EXCEPT !.pc = "dlread"]
      [] j.pc = "dlread"  -> IF r.data = <<>> THEN [j EXCEPT !.pc = "close"]
                             ELSE [j EXCEPT !.pc = "write", !.hold = r.data]
      [] OTHER            -> [close("ok") EXCEPT !.ver = r.ver, !.ref = r.ref]

After(t, ok, r) ==
    CASE Kind(t) = "stream" -> AfterUpload(t, ok, r)
      [] Kind(t) = "pull"   -> AfterPull(t, ok, r)
      [] Kind(t) = "copy"   -> AfterCopy(t, ok, r)
      [] OTHER              -> AfterCall(t, ok, r)
-----------------------------------------------------------------------------
(***************************************************************************)
(* One request of a job.  f is its fate: answered, answer lost, or never   *)
(* served.                                                                 *)
(***************************************************************************)
Fates == {"ok", "lost", "down"}
Sees(f, r) == f = "ok" /\ r.code = "ok"
Fate(f, r) ==
    /\ faults' = IF f = "ok" THEN faults ELSE faults + 1
    /\ faults' <= MaxFaults
    /\ cloud' = IF f = "down" THEN cloud ELSE r.cloud
    /\ UNCHANGED <<drive, plan>>
At(t, d, op, sub) == drive \in d /\ job[t].pc = op /\ inst[t].sub = sub /\ (op = "init" \/ inst[t].ready)

\* The last request of an operation: what the instance becomes, and what the caller
\* does next.
Last(t, f, r, good, bad) ==
    /\ Fate(f, r)
    /\ inst' = [inst EXCEPT ![t] = [IF Sees(f, r) THEN good ELSE bad EXCEPT !.sub = 0]]
    /\ job' = [job EXCEPT ![t] = After(t, Sees(f, r), r)]
\* A request after which the operation goes on.
More(t, f, r, good, bad, sub) ==
    /\ Fate(f, r)
    /\ inst' = [inst EXCEPT ![t] = IF Sees(f, r) THEN [good EXCEPT !.sub = sub] ELSE [bad EXCEPT !.sub = 0]]
    /\ job' = IF Sees(f, r) THEN job ELSE [job EXCEPT ![t] = After(t, FALSE, r)]
\* An operation, or the rest of one, without a request.
Local(t, ok, r, i) ==
    /\ inst' = [inst EXCEPT ![t] = [i EXCEPT !.sub = 0]]
    /\ job' = [job EXCEPT ![t] = After(t, ok, r)]
    /\ UNCHANGED <<drive, plan, cloud, faults>>
Name(t) == plan[t].name
Ref(t) == plan[t].ref
Quiet == Reply(cloud, "ok", 0, None)
Same(t, f, r) == Last(t, f, r, inst[t], inst[t])
Buffered(t) == [inst[t] EXCEPT !.up.buf = @ \o job[t].hold]
Ready == [NoInst EXCEPT !.ready = TRUE]

\* download_stream_read() of most providers: the request of the buffer, then its answer.
RangedAsk(t, asked) ==
    LET d == inst[t].dl IN
    IF d.style = "full" THEN GetAll(cloud, Ref(t)) ELSE GetRange(cloud, Ref(t), d.off, asked)
RangedGot(t, r, asked) ==
    [inst[t] EXCEPT !.dl = ApplyResponse(@, Len(r.data), asked,
                             IF Ref(t) \in DOMAIN cloud.obj THEN Len(cloud.obj[Ref(t)].body) ELSE 0)]
RangedRead(t, f) ==
    LET asked == NextRequest(inst[t].dl)
        r == RangedAsk(t, asked) IN
    IF asked = 0 THEN f = "ok" /\ Local(t, TRUE, Quiet, inst[t])
    ELSE Last(t, f, r, RangedGot(t, r, asked), inst[t])
OpenDownload(t, style) == Local(t, TRUE, Quiet, [inst[t] EXCEPT !.dl = NewDownload(style)])
CloseDownload(t) == Local(t, TRUE, Quiet, [inst[t] EXCEPT !.dl = None])
Gone(t) == [inst[t] EXCEPT !.up = None]
OpenUpload(t, sid) == [inst[t] EXCEPT !.up = NewUpload(t, sid)]

\* A guard that every operation begins with: the instance has credentials.
Refused(t) ==
    /\ job[t].pc \notin {"init", "end"} /\ ~inst[t].ready
    /\ Local(t, FALSE, Quiet, inst[t])
\* byo_stream_sweep_stale(): the host drops a download that seems abandoned.
SweepStale(t) ==
    /\ Kind(t) = "pull" /\ job[t].reg
    /\ job' = [job EXCEPT ![t] = Ends(@, "swept")]
    /\ inst' = [inst EXCEPT ![t] = NoInst]
    /\ UNCHANGED <<drive, plan, cloud, faults>>

CloudInit ==
    /\ drive \in Drives /\ plan \in Scenarios
    /\ cloud = Seed /\ faults = 0
    /\ inst = [t \in Jobs |-> NoInst]
    /\ job = [t \in Jobs |-> IF plan[t].kind = "none" THEN Ends(NoJob, "none") ELSE NoJob]
-----------------------------------------------------------------------------
(***************************************************************************)
(* Properties.                                                             *)
(***************************************************************************)
\* The shape of the account, the instances and the jobs; a job that ended is in no registry.
CloudTypeOK ==
    /\ drive \in Drives /\ plan \in Scenarios /\ faults \in 0..MaxFaults
    /\ \A id \in DOMAIN cloud.obj : cloud.obj[id].ver \in 1..(cloud.seq - 1)
    /\ \A sid \in DOMAIN cloud.up : sid < Fresh(cloud) /\ cloud.up[sid].name \in 1..9
    /\ \A t \in Jobs : /\ inst[t].sub \in 0..2 /\ job[t].reg \in BOOLEAN
                       /\ job[t].out \in {"none", "ok", "err", "abort", "aborted", "swept"}
                       /\ job[t].pc = "end" => inst[t].sub = 0 /\ ~job[t].reg

\* An upload that was told which version it replaces (If-Match, update mode) replaces
\* that version: of two devices that read the same version one is refused.  S3 and
\* pCloud compare before they write and are not meant here.
ConditionalReplaces ==
    drive \notin {"s3", "pcloud"} =>
        \A e \in cloud.log : Kind(e.by) = "cas" => e.was = job[e.by].seen

\* A stream that succeeded, or that was aborted and met one failure only, leaves no
\* upload session, multipart upload or transaction directory at the provider.  Dropbox
\* sessions are left to expire.
SessionsReleased ==
    \A t \in Jobs, sid \in DOMAIN cloud.up :
        /\ cloud.up[sid].name = Name(t)
        /\ \/ job[t].out = "aborted" /\ faults <= 1 /\ drive # "dropbox"
           \/ job[t].out = "ok" /\ job[t].pc = "end" /\ Kind(t) \in {"stream", "copy"}
        => \E u \in Jobs \ {t} : inst[u].up # None /\ inst[u].up.sid = sid

\* What a ranged download hands on as complete is all of one version of the object,
\* even when a device replaces the object between two ranges.
PullIsWhole ==
    \A t \in Jobs : Kind(t) = "pull" /\ job[t].out = "ok" => IsWhole(job[t].got)

\* The range arithmetic loses nothing: without a failure, an overwrite or a delete
\* every ranged download completes, whatever the server says about its total.
PullCompletes ==
    \A t \in Jobs : /\ Kind(t) = "pull" /\ job[t].out = "err"
                    /\ faults = 0 /\ cloud.log = {}
                    => 1 \notin DOMAIN cloud.obj

\* What every storage provider promises its callers beside the store it implements:
\* conditional uploads, released sessions, and ranged downloads that are whole and complete.
CloudInv ==
    /\ CloudTypeOK /\ ConditionalReplaces /\ SessionsReleased /\ PullIsWhole
    /\ PullCompletes
=============================================================================
