------------------------------ MODULE SftpLink ------------------------------
(***************************************************************************)
(* The SFTP protocol of the relay: the client state machine                *)
(* (sdk-core/src/byo/sftp/client.rs) behind the promise chain of           *)
(* SftpProvider.ts, the two ordered directions of a WebSocket, the         *)
(* dispatcher of the relay (byo-relay/src/sftp_relay.rs) and the files of  *)
(* the SSH server.  Each connection has its own of all but the last.       *)
(*                                                                         *)
(* A file is an inode that a path names, so a rename keeps the handles     *)
(* that are open.  The contents are the upload they came from and a number *)
(* of chunks.  Every operation of the SSH server may fail, and a           *)
(* connection may drop at any time with frames still on the wire.          *)
(***************************************************************************)
EXTENDS Integers, Sequences, FiniteSets, FiniteSetsExt, Maps

CONSTANTS
    Conns,              \* connections, each used once
    Tasks,              \* what the application does with a connection
    Plans,              \* task -> [kind, conn, name, chunks]; kind "none" is no task
    MaxStream,          \* MAX_STREAM_BUFFER, in chunks
    MaxReads,           \* MAX_READ_SESSIONS
    MaxFrame,           \* MAX_BINARY_FRAME, in chunks
    Depth,              \* folders that ensure_root_folders() walks, one inside the other
    MaxDrops            \* bound on the connections that drop

\* A frame is a text with an id or a binary of n chunks.
Text(id, verb, arg) == [bin |-> FALSE, id |-> id, verb |-> verb, arg |-> arg, n |-> 0]
Binary(n) == [bin |-> TRUE, id |-> 0, verb |-> "data", arg |-> 0, n |-> n]

\* Paths of files, what a request names, what a relay waits for and what it asks the server.
FilePaths == [name : {p[t].name : p \in Plans, t \in Tasks}, tmp : Nat]
Args == Nat \cup FilePaths \cup [name : {"/"}, tmp : Nat] \cup [from : FilePaths, to : FilePaths]
Pendings == [id : Nat, arg : Args, for : {"write", "chunk", "drain"}]
SshCalls == [id : Nat, op : {"open", "data", "rename"}, from : FilePaths \cup Nat \cup {None},
             to : FilePaths, h : Nat, n : Nat]

ASSUME LinkAssumption ==
    /\ {MaxStream, MaxReads, MaxFrame, Depth, MaxDrops} \subseteq Nat
    /\ \A p \in Plans, t \in Tasks :
          p[t].conn \in Conns /\ p[t].chunks \in Nat /\ p[t].name # "/"
    /\ None \notin Tasks /\ None \notin Pendings /\ None \notin SshCalls

VARIABLES
    ctr,                \* conn -> request_counter
    busy,               \* conn -> the task whose call holds _rpcChain
    up, down,           \* conn -> frames on the wire
    link,               \* conn -> "open", "closed", "ended"
    pend,               \* conn -> pending_binary
    wsess, rsess,       \* conn -> write_sessions, read_sessions
    total,              \* conn -> total_buffered
    remote,             \* conn -> the call to the SSH server under way
    fs, ino,            \* path -> inode, inode -> [by, n]
    dirs,               \* the folders that exist
    plan,               \* what the application does, chosen once
    task,               \* task -> [pc, id, h, k, tmp]
    \* History.
    clash,              \* names of which two uploads had the same temporary path
    published           \* names renamed into place and not deleted since

wire == <<up, down>>
relay == <<pend, wsess, rsess, total, remote>>
files == <<fs, ino, dirs, clash, published>>
linkVars == <<ctr, busy, wire, link, relay, files, plan, task>>

Folder(d) == [name |-> "/", tmp |-> d]
Final(name) == [name |-> name, tmp |-> 0]
Name(t) == plan[t].name
Conn(t) == plan[t].conn
Temp(t) == [name |-> Name(t), tmp |-> task[t].tmp]

LinkInit ==
    /\ ctr = [c \in Conns |-> 1] /\ busy = [c \in Conns |-> None]
    /\ up = [c \in Conns |-> <<>>] /\ down = [c \in Conns |-> <<>>]
    /\ link = [c \in Conns |-> "open"] /\ pend = [c \in Conns |-> None]
    /\ wsess = [c \in Conns |-> EmptyMap] /\ rsess = [c \in Conns |-> EmptyMap]
    /\ total = [c \in Conns |-> 0] /\ remote = [c \in Conns |-> None]
    /\ fs = EmptyMap /\ ino = EmptyMap /\ dirs = {}
    /\ plan \in Plans
    /\ task = [t \in Tasks |-> [pc |-> IF plan[t].kind = "none" THEN "done" ELSE "start", 
                               id |-> 0, h |-> 0, k |-> 0, tmp |-> 0]]
    /\ clash = {} /\ published = {}
-----------------------------------------------------------------------------
(***************************************************************************)
(* The client.                                                             *)
(***************************************************************************)
\* _rpc(): one call of a connection at a time.
ChainFreeAlways(t) == TRUE
ChainFree(t) == busy[Conn(t)] \in {None, t}

\* next_id(), then call(), call_binary_write() or call_binary_read(): skip ids are
\* spent before this one.
Call(t, verb, arg, body, pc, skip) ==
    LET c == Conn(t)
        id == ctr[c] + skip + 1 IN
    /\ ChainFree(t) /\ link[c] = "open"
    /\ ctr' = [ctr EXCEPT ![c] = id]
    /\ busy' = [busy EXCEPT ![c] = t]
    /\ up' = [up EXCEPT ![c] = @ \o <<Text(id, verb, arg)>> \o body]
    /\ task' = [task EXCEPT ![t] = [task[t] EXCEPT !.pc = pc, !.id = id,
                  !.tmp = IF verb = "write_open" THEN arg.tmp ELSE task[t].tmp]]
    /\ UNCHANGED <<down, link, relay, fs, ino, dirs, published, plan>>

TaskAt(t, kinds, pc) == plan[t].kind \in kinds /\ task[t].pc = pc

\* upload_open(): the temporary name carries the counter of this connection.
TempName(t) == ctr[Conn(t)] + 1
UploadOpen(t) ==
    LET p == [name |-> Name(t), tmp |-> TempName(t)] IN
    /\ TaskAt(t, {"upload", "stream"}, "start")
    /\ Call(t, "write_open", p, <<>>, "opening", 1)
    /\ clash' = IF \E u \in Tasks \ {t} : Temp(u) = p THEN clash \cup {Name(t)} ELSE clash

\* upload_write_chunk(), upload_close_v2() and upload_abort_v2()
UploadChunk(t) ==
    /\ TaskAt(t, {"upload", "stream"}, "chunks") /\ task[t].k < plan[t].chunks
    /\ Call(t, "write_chunk", task[t].h, <<Binary(1)>>, "sending", 0)
    /\ UNCHANGED clash
UploadClose(t) ==
    /\ TaskAt(t, {"upload", "stream"}, "chunks") /\ task[t].k = plan[t].chunks
    /\ Call(t, "write_close", task[t].h, <<>>, "closing", 0)
    /\ UNCHANGED clash
UploadRename(t) ==
    /\ TaskAt(t, {"upload", "stream"}, "closed")
    /\ Call(t, "rename", [from |-> Temp(t), to |-> Final(Name(t))], <<>>, "renaming", 0)
    /\ UNCHANGED clash
UploadStat(t) ==
    /\ TaskAt(t, {"upload", "stream"}, "renamed")
    /\ Call(t, "stat", Final(Name(t)), <<>>, "calling", 0)
    /\ UNCHANGED clash
\* The caller of SftpProvider.uploadStream() gives up.  A write that failed leaves an
\* errored stream, whose abort() is never called, and upload() has none.
UploadAbort(t) ==
    /\ TaskAt(t, {"stream"}, "chunks")
    /\ Call(t, "write_abort", task[t].h, <<>>, "aborting", 0)
    /\ UNCHANGED clash

\* One call of a task that is not an upload.
CallAt(t, kinds, pc, verb, arg, body, next) ==
    TaskAt(t, kinds, pc) /\ Call(t, verb, arg, body, next, 0) /\ UNCHANGED clash

ReadOpenCall(t) == CallAt(t, {"download"}, "start", "read_open", Final(Name(t)), <<>>, "ropening")
ReadChunkCall(t) == CallAt(t, {"download"}, "pull", "read_chunk", task[t].h, <<>>, "reading")
\* At the end of the file, when the reader cancels, or after an error.
ReadCloseCall(t) ==
    \/ CallAt(t, {"download"}, "rclose", "read_close", task[t].h, <<>>, "rclosing")
    \/ \E pc \in {"pull", "rabort"} :
         CallAt(t, {"download"}, pc, "read_close", task[t].h, <<>>, "aborting")
ReadCall(t) == CallAt(t, {"read"}, "start", "read", Final(Name(t)), <<>>, "getting")
WriteCall(t) ==
    CallAt(t, {"write"}, "start", "write", Final(Name(t)), <<Binary(plan[t].chunks)>>, "calling")
\* upload_write_chunk() with a handle that the relay does not have.
StrayChunkCall(t) == CallAt(t, {"stray"}, "start", "write_chunk", 0, <<Binary(1)>>, "calling")
DeleteCall(t) == CallAt(t, {"delete"}, "start", "delete", Final(Name(t)), <<>>, "calling")
StatCall(t) == CallAt(t, {"stat"}, "start", "stat", Final(Name(t)), <<>>, "calling")
ListCall(t) == CallAt(t, {"list"}, "start", "list", Folder(1), <<>>, "calling")
FsInfoCall(t) == CallAt(t, {"fs_info"}, "start", "fs_info", Folder(1), <<>>, "calling")
\* ensure_root_folders() and ensure_dir(): stat a folder, and make it if that fails.
EnsureDirStat(t) ==
    /\ task[t].k < Depth
    /\ CallAt(t, {"folders"}, "start", "stat", Folder(task[t].k + 1), <<>>, "statting")
EnsureDirMake(t) ==
    CallAt(t, {"folders"}, "mkdir", "mkdir", Folder(task[t].k + 1), <<>>, "making")
FoldersDone(t) ==
    /\ TaskAt(t, {"folders"}, "start") /\ task[t].k = Depth
    /\ task' = [task EXCEPT ![t].pc = "done"]
    /\ UNCHANGED <<ctr, busy, wire, link, relay, files, plan>>

Waiting(t) == task[t].pc \in {"opening", "sending", "closing", "renaming", "aborting",
                              "ropening", "reading", "rclosing", "getting", "calling",
                              "statting", "making"}
Waiting2(t) == task[t].pc \in {"reading2", "getting2"}

\* What a task does with the answer; a call inside upload_close_v2() keeps the chain.
OnOk(s, f) ==
    CASE s.pc = "opening"  -> [s EXCEPT !.pc = "chunks", !.h = f.arg]
      [] s.pc = "sending"  -> [s EXCEPT !.pc = "chunks", !.k = @ + 1]
      [] s.pc = "closing"  -> [s EXCEPT !.pc = "closed"]
      [] s.pc = "renaming" -> [s EXCEPT !.pc = "renamed"]
      [] s.pc = "aborting" -> [s EXCEPT !.pc = "failed"]
      [] s.pc = "ropening" -> [s EXCEPT !.pc = "pull", !.h = f.arg]
      [] s.pc = "reading"  -> [s EXCEPT !.pc = "reading2"]
      [] s.pc = "getting"  -> [s EXCEPT !.pc = "getting2"]
      [] s.pc \in {"statting", "making"} -> [s EXCEPT !.pc = "start", !.k = @ + 1]
      [] OTHER             -> [s EXCEPT !.pc = "done"]
OnErrShort(t, f) == IF task[t].pc = "reading" THEN "rclose" ELSE "failed"
OnErrIgnored(t, f) == IF task[t].pc = "closing" THEN "closed" ELSE "failed"
OnErr(t, f) == CASE task[t].pc = "reading"  -> "rabort"
                 [] task[t].pc = "statting" -> "mkdir"
                 [] OTHER                   -> "failed"
\* mkdir(): only the error that says so means that the folder is there.
ExistsAny(t, f) == task[t].pc = "making"
Exists(t, f) == task[t].pc = "making" /\ f.arg = 1
Holds(pc) == pc \in {"closed", "renamed", "reading2", "getting2"}
Release(t, pc) == busy' = [busy EXCEPT ![Conn(t)] = IF Holds(pc) THEN @ ELSE None]

\* recv_response() and recv_response_then_binary(): a frame that is not the one is
\* dropped, not put back.
Recv(t) ==
    LET c == Conn(t)
        f == Head(down[c])
        mine == Waiting(t) /\ ~f.bin /\ f.id = task[t].id
        body == Waiting2(t) /\ f.bin
        fine == f.verb = "ok" \/ Exists(t, f)
        s == CASE mine /\ fine  -> OnOk(task[t], f)
               [] mine /\ ~fine -> [task[t] EXCEPT !.pc = OnErr(t, f)]
               [] body /\ task[t].pc = "reading2" /\ f.n > 0
                    -> [task[t] EXCEPT !.pc = "pull", !.k = @ + 1]
               [] body /\ task[t].pc = "reading2" /\ f.n = 0
                    -> [task[t] EXCEPT !.pc = "rclose"]
               [] body /\ task[t].pc = "getting2"
                    -> [task[t] EXCEPT !.pc = "done", !.k = f.n]
               [] OTHER -> task[t] IN
    /\ Waiting(t) \/ Waiting2(t)
    /\ down[c] # <<>>
    /\ down' = [down EXCEPT ![c] = Tail(@)]
    /\ task' = [task EXCEPT ![t] = s]
    /\ IF mine \/ body THEN Release(t, s.pc) ELSE UNCHANGED busy
    /\ UNCHANGED <<ctr, up, link, relay, files, plan>>

\* RelayFrame::Closed, or a send on a closed socket.
Closed(t) ==
    LET c == Conn(t) IN
    /\ link[c] # "open" /\ task[t].pc \notin {"done", "failed"}
    /\ (Waiting(t) \/ Waiting2(t)) => down[c] = <<>>
    /\ task' = [task EXCEPT ![t].pc = "failed"]
    /\ busy' = [busy EXCEPT ![c] = IF @ = t THEN None ELSE @]
    /\ UNCHANGED <<ctr, wire, link, relay, files, plan>>
-----------------------------------------------------------------------------
(***************************************************************************)
(* The relay: dispatch_loop() and handle_text_command().                   *)
(***************************************************************************)
Ok(id, arg) == Text(id, "ok", arg)
Err(id) == Text(id, "err", 0)
\* Answers to a connection that is gone are lost.
Reply(c, fs_) == down' = [down EXCEPT ![c] = IF link[c] = "open" THEN @ \o fs_ ELSE @]
Next1(c) == up' = [up EXCEPT ![c] = Tail(@)]
Idle(c) == link[c] # "ended" /\ remote[c] = None /\ up[c] # <<>>
Command(c, verb) == Idle(c) /\ ~Head(up[c]).bin /\ Head(up[c]).verb = verb
client == <<ctr, busy, link, plan, task>>

WriteOpen(c) ==
    LET f == Head(up[c]) IN
    /\ Command(c, "write_open")
    /\ wsess' = [wsess EXCEPT ![c] = Put(@, f.id, [path |-> f.arg, n |-> 0])]
    /\ Next1(c) /\ Reply(c, <<Ok(f.id, f.id)>>)
    /\ UNCHANGED <<client, pend, rsess, total, remote, files>>

\* write_chunk and write only remember what the next binary is for.
WriteChunk(c) ==
    LET f == Head(up[c]) IN
    /\ Command(c, "write_chunk") \/ Command(c, "write")
    /\ pend' = [pend EXCEPT ![c] =
         [id |-> f.id, arg |-> f.arg,
          for |-> IF f.verb = "write" THEN "write"
                  ELSE IF f.arg \in DOMAIN wsess[c] THEN "chunk" ELSE "drain"]]
    /\ Next1(c)
    /\ UNCHANGED <<client, down, wsess, rsess, total, remote, files>>

\* The aggregate cap of the buffers.
FitsSession(c, h, n) == wsess[c][h].n + n <= MaxStream
Fits(c, h, n) == total[c] + n <= MaxStream
Op(id, op, from, to, h, n) == [id |-> id, op |-> op, from |-> from, to |-> to, h |-> h, n |-> n]

BinaryFrame(c) ==
    LET b == Head(up[c])
        p == pend[c] IN
    /\ Idle(c) /\ b.bin /\ b.n <= MaxFrame
    /\ Next1(c)
    /\ pend' = [pend EXCEPT ![c] = None]
    /\ \/ p = None /\ UNCHANGED <<down, wsess, total, remote>>
       \/ /\ p # None /\ p.for = "drain"
          /\ Reply(c, <<Err(p.id)>>)
          /\ UNCHANGED <<wsess, total, remote>>
       \/ /\ p # None /\ p.for = "write"
          /\ remote' = [remote EXCEPT ![c] = Op(p.id, "open", None, p.arg, p.id, b.n)]
          /\ UNCHANGED <<down, wsess, total>>
       \/ /\ p # None /\ p.for = "chunk"
          /\ IF p.arg \in DOMAIN wsess[c] /\ Fits(c, p.arg, b.n)
               THEN /\ wsess' = [wsess EXCEPT ![c][p.arg].n = @ + b.n]
                    /\ total' = [total EXCEPT ![c] = @ + b.n]
                    /\ Reply(c, <<Ok(p.id, 0)>>)
               ELSE Reply(c, <<Err(p.id)>>) /\ UNCHANGED <<wsess, total>>
          /\ UNCHANGED remote
    /\ UNCHANGED <<client, rsess, files>>

\* A frame above the limit: the request it belongs to is answered, or id 0, and the
\* relay ends the session, unread frames and all.
OversizedFrame(c) ==
    LET b == Head(up[c]) IN
    /\ Idle(c) /\ b.bin /\ b.n > MaxFrame
    /\ Reply(c, <<Err(IF pend[c] = None THEN 0 ELSE pend[c].id)>>)
    /\ pend' = [pend EXCEPT ![c] = None]
    /\ up' = [up EXCEPT ![c] = <<>>]
    /\ link' = [link EXCEPT ![c] = "closed"]
    /\ UNCHANGED <<ctr, busy, plan, task, wsess, rsess, total, remote, files>>

\* write_close hands the buffer to the SSH server; write_abort drops it.
AbortKeepsCount(c, h) == total[c]
AfterRemoval(c, h) == SatSub(total[c], wsess[c][h].n)
WriteClose(c) ==
    LET f == Head(up[c]) IN
    /\ Command(c, "write_close") \/ Command(c, "write_abort")
    /\ Next1(c)
    /\ IF f.arg \in DOMAIN wsess[c]
         THEN /\ wsess' = [wsess EXCEPT ![c] = Drop(@, f.arg)]
              /\ total' = [total EXCEPT ![c] = AfterRemoval(c, f.arg)]
         ELSE UNCHANGED <<wsess, total>>
    /\ IF f.verb = "write_close" /\ f.arg \in DOMAIN wsess[c]
         THEN /\ remote' = [remote EXCEPT ![c] = Op(f.id, "open", None, wsess[c][f.arg].path,
                                                    f.arg, wsess[c][f.arg].n)]
              /\ UNCHANGED down
         ELSE /\ Reply(c, <<IF f.verb = "write_abort" THEN Ok(f.id, 0) ELSE Err(f.id)>>)
              /\ UNCHANGED remote
    /\ UNCHANGED <<client, pend, rsess, files>>

ReadRoom(c) == Cardinality(DOMAIN rsess[c]) < MaxReads
ReadOpen(c, ok) ==
    LET f == Head(up[c])
        opened == ok /\ ReadRoom(c) /\ f.arg \in DOMAIN fs IN
    /\ Command(c, "read_open")
    /\ rsess' = IF opened THEN [rsess EXCEPT ![c] = Put(@, f.id, [i |-> fs[f.arg], at |-> 0])]
                ELSE rsess
    /\ Next1(c) /\ Reply(c, <<IF opened THEN Ok(f.id, f.id) ELSE Err(f.id)>>)
    /\ UNCHANGED <<client, pend, wsess, total, remote, files>>

\* A header and a binary frame, empty at the end of the file; an error drops the
\* session.
ReadChunk(c, ok) ==
    LET f == Head(up[c])
        known == f.arg \in DOMAIN rsess[c]
        s == rsess[c][f.arg]
        n == IF s.at < ino[s.i].n THEN 1 ELSE 0 IN
    /\ Command(c, "read_chunk")
    /\ Next1(c)
    /\ IF known /\ ok
         THEN /\ rsess' = [rsess EXCEPT ![c][f.arg].at = @ + n]
              /\ Reply(c, <<Ok(f.id, n), Binary(n)>>)
         ELSE /\ rsess' = [rsess EXCEPT ![c] = Drop(@, f.arg)]
              /\ Reply(c, <<Err(f.id)>>)
    /\ UNCHANGED <<client, pend, wsess, total, remote, files>>

ReadClose(c) ==
    LET f == Head(up[c]) IN
    /\ Command(c, "read_close")
    /\ rsess' = [rsess EXCEPT ![c] = Drop(@, f.arg)]
    /\ Next1(c) /\ Reply(c, <<Ok(f.id, 0)>>)
    /\ UNCHANGED <<client, pend, wsess, total, remote, files>>

\* The commands that change no state have one answer.
Answers(c, verb, frames) ==
    Command(c, verb) /\ Next1(c) /\ Reply(c, frames) /\ UNCHANGED <<client, relay, files>>
Found(ok, p) == ok /\ p \in DOMAIN fs \cup dirs
Stat(c, ok) ==
    LET f == Head(up[c]) IN
    Answers(c, "stat", <<IF Found(ok, f.arg) THEN Ok(f.id, 0) ELSE Err(f.id)>>)
List(c, ok) ==
    LET f == Head(up[c]) IN
    Answers(c, "list", <<IF Found(ok, f.arg) THEN Ok(f.id, 0) ELSE Err(f.id)>>)
\* A server without statvfs, and an error, are an answer too: unsupported.
FsInfo(c) == Answers(c, "fs_info", <<Ok(Head(up[c]).id, 0)>>)
Read(c, ok) ==
    LET f == Head(up[c]) IN
    Answers(c, "read", IF ok /\ f.arg \in DOMAIN fs
                       THEN <<Ok(f.id, 0), Binary(ino[fs[f.arg]].n)>> ELSE <<Err(f.id)>>)

\* mkdir of a folder that exists fails; not every server says why.
Mkdir(c, ok) ==
    LET f == Head(up[c])
        made == ok /\ f.arg \notin dirs
                /\ (f.arg.tmp = 1 \/ Folder(f.arg.tmp - 1) \in dirs) IN
    /\ Command(c, "mkdir")
    /\ dirs' = IF made THEN dirs \cup {f.arg} ELSE dirs
    /\ Next1(c)
    /\ Reply(c, <<IF made THEN Ok(f.id, 0)
                 ELSE [Err(f.id) EXCEPT !.arg = IF ok /\ f.arg \in dirs THEN 1 ELSE 0]>>)
    /\ UNCHANGED <<client, relay, fs, ino, clash, published>>

\* remove_file(), and of what is no file remove_dir(): clients delete files only.
Delete(c, ok) ==
    LET f == Head(up[c])
        found == ok /\ f.arg \in DOMAIN fs IN
    /\ Command(c, "delete")
    /\ fs' = IF found THEN Drop(fs, f.arg) ELSE fs
    /\ published' = IF found THEN published \ {f.arg.name} ELSE published
    /\ Next1(c) /\ Reply(c, <<IF found THEN Ok(f.id, 0) ELSE Err(f.id)>>)
    /\ UNCHANGED <<client, relay, ino, dirs, clash>>

\* rename: first the target is unlinked, and a failure of that is ignored.
RenameUnlink(c, ok) ==
    LET f == Head(up[c]) IN
    /\ Command(c, "rename")
    /\ remote' = [remote EXCEPT ![c] = Op(f.id, "rename", f.arg.from, f.arg.to, 0, 0)]
    /\ fs' = IF ok THEN Drop(fs, f.arg.to) ELSE fs
    /\ Next1(c)
    /\ UNCHANGED <<client, down, pend, wsess, rsess, total, ino, dirs, clash, published>>

\* Then the rename itself, which refuses an existing target.
RenameMove(c, ok) ==
    LET r == remote[c]
        moved == ok /\ r.from \in DOMAIN fs /\ r.to \notin DOMAIN fs IN
    /\ remote[c] # None /\ r.op = "rename"
    /\ fs' = IF moved THEN Put(Drop(fs, r.from), r.to, fs[r.from]) ELSE fs
    /\ published' = IF moved THEN published \cup {r.to.name} ELSE published
    /\ remote' = [remote EXCEPT ![c] = None]
    /\ Reply(c, <<IF moved THEN Ok(r.id, 0) ELSE Err(r.id)>>)
    /\ UNCHANGED <<client, up, pend, wsess, rsess, total, ino, dirs, clash>>

\* sftp_write_file(): CREATE | TRUNCATE, then the data.
FreshIno == Cardinality(DOMAIN ino) + 1
WriteTruncate(c, ok) ==
    LET r == remote[c]
        i == IF r.to \in DOMAIN fs THEN fs[r.to] ELSE FreshIno IN
    /\ remote[c] # None /\ r.op = "open"
    /\ IF ok
         THEN /\ fs' = Put(fs, r.to, i)
              /\ ino' = Put(ino, i, [by |-> None, n |-> 0])
              /\ remote' = [remote EXCEPT ![c] = [r EXCEPT !.op = "data", !.from = i]]
              /\ UNCHANGED down
         ELSE remote' = [remote EXCEPT ![c] = None] /\ Reply(c, <<Err(r.id)>>)
              /\ UNCHANGED <<fs, ino>>
    /\ UNCHANGED <<client, up, pend, wsess, rsess, total, dirs, clash, published>>

\* The data lands on whatever the inode holds by now; what a longer file had beyond
\* it stays, and a failure leaves a part.
Landed(i, by, n) ==
    IF ino[i].n > n THEN [by |-> None, n |-> ino[i].n] ELSE [by |-> by, n |-> n]
WriteData(c, ok) ==
    LET r == remote[c] IN
    /\ remote[c] # None /\ r.op = "data"
    /\ ino' = IF ok THEN [ino EXCEPT ![r.from] = Landed(r.from, <<c, r.h>>, r.n)] ELSE ino
    /\ remote' = [remote EXCEPT ![c] = None]
    /\ Reply(c, <<IF ok THEN Ok(r.id, 0) ELSE Err(r.id)>>)
    /\ UNCHANGED <<client, up, pend, wsess, rsess, total, fs, dirs, clash, published>>

\* The connection drops with any frames of both directions still unread.
LinkDrop(c, i, j) ==
    /\ link[c] = "open" /\ i <= Len(up[c]) /\ j <= Len(down[c])
    /\ Cardinality({d \in Conns : link[d] # "open"}) < MaxDrops
    /\ link' = [link EXCEPT ![c] = "closed"]
    /\ up' = [up EXCEPT ![c] = SubSeq(@, 1, i)] /\ down' = [down EXCEPT ![c] = SubSeq(@, 1, j)]
    /\ UNCHANGED <<ctr, busy, relay, files, plan, task>>

\* The relay sees the close: the maps of the connection are dropped, and so are the
\* file handles.
LinkEnd(c) ==
    /\ link[c] = "closed" /\ up[c] = <<>> /\ remote[c] = None
    /\ link' = [link EXCEPT ![c] = "ended"]
    /\ wsess' = [wsess EXCEPT ![c] = EmptyMap] /\ rsess' = [rsess EXCEPT ![c] = EmptyMap]
    /\ total' = [total EXCEPT ![c] = 0] /\ pend' = [pend EXCEPT ![c] = None]
    /\ UNCHANGED <<ctr, busy, wire, remote, files, plan, task>>

TaskStep(t) ==
    \/ UploadOpen(t) \/ UploadChunk(t) \/ UploadClose(t) \/ UploadRename(t) \/ UploadStat(t)
    \/ UploadAbort(t) \/ ReadOpenCall(t) \/ ReadChunkCall(t) \/ ReadCloseCall(t) \/ ReadCall(t)
    \/ WriteCall(t) \/ StrayChunkCall(t) \/ DeleteCall(t) \/ StatCall(t) \/ ListCall(t)
    \/ FsInfoCall(t)
    \/ EnsureDirStat(t) \/ EnsureDirMake(t) \/ FoldersDone(t) \/ Recv(t) \/ Closed(t)
RelayStep(c) ==
    \/ WriteOpen(c) \/ WriteChunk(c) \/ BinaryFrame(c) \/ OversizedFrame(c) \/ WriteClose(c)
    \/ ReadClose(c) \/ FsInfo(c)
    \/ \E ok \in BOOLEAN :
         \/ ReadOpen(c, ok) \/ ReadChunk(c, ok) \/ Read(c, ok) \/ Stat(c, ok) \/ List(c, ok)
         \/ Mkdir(c, ok) \/ Delete(c, ok)
         \/ RenameUnlink(c, ok) \/ RenameMove(c, ok) \/ WriteTruncate(c, ok) \/ WriteData(c, ok)
LinkNext ==
    \/ \E t \in Tasks : TaskStep(t)
    \/ \E c \in Conns : RelayStep(c) \/ LinkEnd(c)
    \/ \E c \in Conns : \E i \in 0..Len(up[c]), j \in 0..Len(down[c]) : LinkDrop(c, i, j)
LinkSpec == LinkInit /\ [][LinkNext]_linkVars
\* The event loop runs what is ready, tokio polls every connection, and the SSH
\* server answers or times out.
LinkFairSpec ==
    /\ LinkSpec
    /\ \A t \in Tasks : SF_linkVars(TaskStep(t))
    /\ \A c \in Conns : WF_linkVars(RelayStep(c))
-----------------------------------------------------------------------------
\* The connections, and that they buffer no more than MAX_STREAM_BUFFER in total; every path
\* is a link to a file.
LinkTypeOK ==
    /\ \A c \in Conns : /\ busy[c] \in Tasks \cup {None} /\ total[c] \in 0..MaxStream
                        /\ link[c] \in {"open", "closed", "ended"}
                        /\ DOMAIN wsess[c] \subseteq 1..ctr[c]
    /\ \A p \in DOMAIN fs : fs[p] \in DOMAIN ino

Buffered(w) == MapThenSumSet(LAMBDA h : w[h].n, DOMAIN w)

\* total_buffered is the sum of the buffers through every close, abort and error,
\* it stays within the cap, and no connection holds more read handles than its
\* limit (dispatch_loop).
BufferAccounted ==
    \A c \in Conns :
      /\ total[c] = Buffered(wsess[c])
      /\ total[c] <= MaxStream
      /\ Cardinality(DOMAIN rsess[c]) <= MaxReads

Ids(q) == {q[n].id : n \in {m \in DOMAIN q : ~q[m].bin}}

\* A call that waits can still be answered: its request is on its way, with the
\* relay, or the answer is on its way back, or the connection is closed.  This is
\* what _rpc() is for: a frame popped by another call is gone.
Answerable ==
    \A t \in Tasks : LET c == Conn(t) IN
      link[c] = "open" =>
        /\ Waiting(t) => \/ task[t].id \in Ids(up[c]) \cup Ids(down[c])
                         \/ pend[c] # None /\ pend[c].id = task[t].id
                         \/ remote[c] # None /\ remote[c].id = task[t].id
        /\ Waiting2(t) => \E n \in DOMAIN down[c] : down[c][n].bin

Streamed(t) == plan[t].kind \in {"upload", "stream"}

\* What an upload renamed into place is one upload, whole, unless two uploads of
\* that name had the same temporary path.
PublishedWhole ==
    \A name \in published \ clash :
      LET p == Final(name) IN
      (p \in DOMAIN fs /\ \A t \in Tasks : Name(t) = name => plan[t].kind # "write") =>
        \E t \in Tasks : /\ Streamed(t) /\ Name(t) = name
                         /\ ino[fs[p]] = [by |-> <<Conn(t), task[t].h>>, n |-> plan[t].chunks]

\* A finished download has read the whole of what it opened.
DownloadWhole ==
    \A t \in Tasks : \A u \in Tasks :
      /\ plan[t].kind \in {"download", "read"} /\ task[t].pc = "done"
      /\ \A v \in Tasks \ {u} : Name(v) = Name(t) => plan[v].kind \in {"download", "read"}
      /\ Streamed(u) /\ Name(u) = Name(t)
      => task[t].k = plan[u].chunks

\* ensure_root_folders() that returns Ok leaves every folder in place, two devices at
\* it at once included.
FoldersReady ==
    \A t \in Tasks : plan[t].kind = "folders" /\ task[t].pc = "done" =>
      \A d \in 1..Depth : Folder(d) \in dirs

\* Every task ends: no call waits for ever for a frame another one took.
TasksEnd == \A t \in Tasks : <>(task[t].pc \in {"done", "failed"})

\* What the SFTP relay and its client promise over one socket: buffers accounted for, every
\* call answerable, and folders that are there when ensure_root_folders() says so.
LinkInv == LinkTypeOK /\ BufferAccounted /\ Answerable /\ FoldersReady

\* What they promise of the files: published and read only as a whole.
TransfersWhole == PublishedWhole /\ DownloadWhole
=============================================================================
