-------------------------- MODULE ShareRelayProofs --------------------------
(***************************************************************************)
(* Proofs about ShareRelay for any number of shares, blobs, requests and   *)
(* restarts: type correctness, that no directory is left without a row,    *)
(* that a revoked share leaves nothing on the disk, that a recorded blob   *)
(* is one upload, whole, and that a published share stays to be fetched.   *)
(***************************************************************************)
EXTENDS ShareRelay, TLAPS

\* What the sweeper holds on to: the rows it works on stay until it deletes
\* them, and the directories it removed stay removed.
SweepInv ==
    /\ victims \subseteq rows
    /\ toClear \subseteq rows
    /\ toClear \cap dirs = {}

\* Files are in directories, and those of withdrawn shares are gone or were kept.
FilesInv ==
    /\ \A s \in Shares \ dirs : tmp[s] = NoFiles /\ file[s] = NoFiles
    /\ withdrawn \cap dirs \subseteq kept

\* The inductive invariant.
StoreInv == NoOrphanDir /\ SweepInv /\ FilesInv
-----------------------------------------------------------------------------
(***************************************************************************)
(* Type correctness.                                                       *)
(***************************************************************************)

\* A handler that was created or has ended is well typed.
LEMMA HandlerTypes ==
    /\ \A r \in Requests, op \in Ops, s \in Shares, b \in Blobs, pc \in Steps :
          TypeOK /\ Begin(r, op, s, b, pc) => req' \in [Requests -> Handlers]
    /\ \A r \in Requests, pc \in Steps :
          TypeOK /\ Goto(r, pc) => req' \in [Requests -> Handlers]
    /\ \A r \in Requests : TypeOK /\ Return(r) => req' \in [Requests -> Handlers]
    /\ \A r \in Requests, undo \in BOOLEAN :
          TypeOK /\ Fail(r, undo) => req' \in [Requests -> Handlers]
    /\ \A h \in Handlers : End(h) \in Handlers
<1>1. \A h \in Handlers : End(h) \in Handlers
  BY DEF End, Handlers, Ops, Blobs, Steps
<1>2. \A r \in Requests, op \in Ops, s \in Shares, b \in Blobs, pc \in Steps :
          TypeOK /\ Begin(r, op, s, b, pc) => req' \in [Requests -> Handlers]
  BY DEF Begin, TypeOK, Handlers
<1>3. \A r \in Requests, pc \in Steps :
          TypeOK /\ Goto(r, pc) => req' \in [Requests -> Handlers]
  <2>1. \A h \in Handlers, pc \in Steps : [h EXCEPT !.pc = pc] \in Handlers
    BY DEF Handlers
  <2>2. ASSUME NEW r \in Requests, NEW pc \in Steps, TypeOK, Goto(r, pc)
        PROVE  req' \in [Requests -> Handlers]
    <3>1. req \in [Requests -> Handlers] /\ [req[r] EXCEPT !.pc = pc] \in Handlers
      BY <2>1, <2>2 DEF TypeOK
    <3> QED BY <2>2, <3>1 DEF Goto
  <2> QED BY <2>2
<1>4. \A r \in Requests : TypeOK /\ Return(r) => req' \in [Requests -> Handlers]
  BY <1>1 DEF Return, TypeOK
<1>5. \A r \in Requests, undo \in BOOLEAN :
          TypeOK /\ Fail(r, undo) => req' \in [Requests -> Handlers]
  <2>1. \A h \in Handlers, undo \in BOOLEAN :
            [h EXCEPT !.pc = "cleanup", !.undo = undo] \in Handlers
    BY DEF Handlers, Steps
  <2>2. TypeOK => req \in [Requests -> Handlers]
    BY DEF TypeOK
  <2>3. ASSUME NEW r \in Requests, NEW undo \in BOOLEAN, TypeOK, Fail(r, undo)
        PROVE  req' \in [Requests -> Handlers]
    <3>1. [req[r] EXCEPT !.pc = "cleanup", !.undo = undo] \in Handlers
      BY <2>1, <2>2, <2>3
    <3> QED BY <2>2, <2>3, <3>1 DEF Fail
  <2> QED BY <2>3
<1> QED BY <1>1, <1>2, <1>3, <1>4, <1>5

\* Init establishes the type invariant.
LEMMA InitType == Init => TypeOK
<1> SUFFICES ASSUME Init PROVE TypeOK
  OBVIOUS
<1>1. (CHOOSE s \in Shares : TRUE) \in Shares
  BY SharesAssumption
<1>2. NoFiles \in [Blobs -> SUBSET Requests]
  BY DEF NoFiles
<1>3. NoBlobs \in [Blobs -> Requests \cup {NoReq}]
  BY DEF NoBlobs
<1>4. req \in [Requests -> Handlers]
  BY <1>1 DEF Init, Handlers, Ops, Blobs, Steps
<1> QED BY <1>2, <1>3, <1>4, CrashAssumption DEF Init, TypeOK

\* Every step keeps the types.
LEMMA TypeStep == TypeOK /\ [Next]_vars => TypeOK'
<1> SUFFICES ASSUME TypeOK, [Next]_vars PROVE TypeOK'
  OBVIOUS
<1>tables. /\ blobs \in [Shares -> [Blobs -> Requests \cup {NoReq}]]
           /\ tmp \in [Shares -> [Blobs -> SUBSET Requests]]
           /\ file \in [Shares -> [Blobs -> SUBSET Requests]]
           /\ req \in [Requests -> Handlers]
  BY DEF TypeOK
<1>files. /\ NoFiles \in [Blobs -> SUBSET Requests]
          /\ NoBlobs \in [Blobs -> Requests \cup {NoReq}]
  BY DEF NoFiles, NoBlobs
<1>handler. \A r \in Requests :
              /\ req[r].share \in Shares /\ req[r].blob \in Blobs
              /\ req[r].op \in Ops
  BY <1>tables DEF Handlers
<1>ids. BlobIds \subseteq Blobs /\ "main" \in Blobs /\ "_manifest" \in Blobs
  BY DEF Blobs
<1>1. ASSUME NEW r \in Requests, NEW s \in Shares, NEW made \in BOOLEAN,
             UploadB2Share(r, s, made) \/ InitBundle(r, s, made)
      PROVE  TypeOK'
  <2>1. req' \in [Requests -> Handlers]
    BY <1>1, <1>ids, HandlerTypes DEF UploadB2Share, InitBundle, Ops, Steps
  <2>2. contested' \in SUBSET (Shares \X Blobs)
    BY <1>1 DEF TypeOK, UploadB2Share, InitBundle, CreateShare
  <2> QED BY <1>1, <2>1, <2>2
          DEF TypeOK, UploadB2Share, InitBundle, CreateShare, flags, sweeper
<1>2. ASSUME NEW r \in Requests, SetBundleToken(r) PROVE TypeOK'
  <2>1. req' \in [Requests -> Handlers]
    BY <1>2, HandlerTypes DEF SetBundleToken, Steps
  <2> QED BY <1>2, <1>handler, <2>1
          DEF TypeOK, SetBundleToken, RowFound, fs, sweeper, history
<1>3. ASSUME NEW r \in Requests, NEW s \in Shares, NEW b \in Blobs,
             NEW op \in {"blob", "seal"}, BeginUpload(r, op, s, b)
      PROVE  TypeOK'
  <2>1. req' \in [Requests -> Handlers]
    <3>1. op \in Ops /\ "open" \in Steps
      BY DEF Ops, Steps
    <3> QED BY <1>3, <3>1, HandlerTypes DEF BeginUpload
  <2> QED BY <1>3, <2>1 DEF TypeOK, BeginUpload, tables, flags, fs, sweeper
<1>4. ASSUME NEW r \in Requests, OpenTmp(r) PROVE TypeOK'
  <2>1. req' \in [Requests -> Handlers]
    BY <1>4, HandlerTypes DEF OpenTmp, Steps
  <2>2. tmp' \in [Shares -> [Blobs -> SUBSET Requests]]
    <3>1. PICK s \in Shares, b \in Blobs : s = req[r].share /\ b = req[r].blob
      BY <1>handler
    <3>2. PICK v \in SUBSET Requests : v = TmpOpened(r, tmp[s][b])
      <4>1. TmpOpened(r, tmp[s][b]) \subseteq tmp[s][b] \cup {r}
        BY DEF TmpOpened
      <4>2. tmp[s][b] \subseteq Requests
        BY <1>tables
      <4> QED BY <4>1, <4>2
    <3>3. tmp' = tmp \/ tmp' = [tmp EXCEPT ![s][b] = v]
      BY <1>4, <3>1, <3>2 DEF OpenTmp
    <3>4. [tmp EXCEPT ![s][b] = v] \in [Shares -> [Blobs -> SUBSET Requests]]
      BY <1>tables
    <3> QED BY <1>tables, <3>3, <3>4
  <2> QED BY <1>4, <1>handler, <2>1, <2>2
          DEF TypeOK, OpenTmp, tables, flags, sweeper, history
<1>5. ASSUME NEW r \in Requests, NEW undo \in BOOLEAN,
             StreamEnd(r) \/ StreamFail(r, undo)
      PROVE  TypeOK'
  <2>1. req' \in [Requests -> Handlers]
    BY <1>5, HandlerTypes DEF StreamEnd, StreamFail, Steps
  <2> QED BY <1>5, <2>1 DEF TypeOK, StreamEnd, StreamFail, tables, flags, fs, sweeper, history
<1>6. ASSUME NEW r \in Requests, RenameTmp(r) \/ DropHandler(r) PROVE TypeOK'
  <2>1. req' \in [Requests -> Handlers]
    BY <1>6, HandlerTypes DEF RenameTmp, DropHandler, Steps
  <2>2. /\ tmp' \in [Shares -> [Blobs -> SUBSET Requests]]
        /\ file' \in [Shares -> [Blobs -> SUBSET Requests]]
    <3>1. PICK s \in Shares, b \in Blobs : s = req[r].share /\ b = req[r].blob
      BY <1>handler
    <3>2. PICK v \in SUBSET Requests : v = tmp[s][b]
      BY <1>tables
    <3>3. /\ tmp' = tmp \/ tmp' = [tmp EXCEPT ![s][b] = {}]
          /\ file' = file \/ file' = [file EXCEPT ![s][b] = v]
      BY <1>6, <3>1, <3>2 DEF RenameTmp, DropHandler
    <3>4. [tmp EXCEPT ![s][b] = {}] \in [Shares -> [Blobs -> SUBSET Requests]]
      BY <1>tables
    <3>5. [file EXCEPT ![s][b] = v] \in [Shares -> [Blobs -> SUBSET Requests]]
      BY <1>tables
    <3> QED BY <1>tables, <3>3, <3>4, <3>5
  <2> QED BY <1>6, <2>1, <2>2
          DEF TypeOK, RenameTmp, DropHandler, tables, flags, sweeper, history
<1>7. ASSUME NEW r \in Requests, RecordBlob(r) \/ DeleteBlobRow(r) PROVE TypeOK'
  <2>1. req' \in [Requests -> Handlers]
    BY <1>7, HandlerTypes DEF RecordBlob, DeleteBlobRow, Steps
  <2>2. blobs' \in [Shares -> [Blobs -> Requests \cup {NoReq}]]
    <3>1. PICK s \in Shares, b \in Blobs : s = req[r].share /\ b = req[r].blob
      BY <1>handler
    <3>2. PICK v \in Requests \cup {NoReq} :
              blobs' = blobs \/ blobs' = [blobs EXCEPT ![s][b] = v]
      BY <1>7, <3>1 DEF RecordBlob, DeleteBlobRow
    <3>3. [blobs EXCEPT ![s][b] = v] \in [Shares -> [Blobs -> Requests \cup {NoReq}]]
      BY <1>tables
    <3> QED BY <1>tables, <3>2, <3>3
  <2> QED BY <1>7, <2>1, <2>2
          DEF TypeOK, RecordBlob, DeleteBlobRow, flags, fs, sweeper, history
<1>8. ASSUME NEW r \in Requests, MarkSealed(r) PROVE TypeOK'
  <2>1. req' \in [Requests -> Handlers]
    BY <1>8, HandlerTypes DEF MarkSealed, Steps
  <2> QED BY <1>8, <1>handler, <2>1 DEF TypeOK, MarkSealed, RowFound, fs, sweeper
<1>9. ASSUME NEW r \in Requests, RemoveTmp(r) \/ DeleteBlobFile(r) PROVE TypeOK'
  <2>1. req' \in [Requests -> Handlers]
    BY <1>9, HandlerTypes DEF RemoveTmp, DeleteBlobFile, Steps
  <2>2. /\ tmp' \in [Shares -> [Blobs -> SUBSET Requests]]
        /\ file' \in [Shares -> [Blobs -> SUBSET Requests]]
    <3>1. PICK s \in Shares, b \in Blobs : s = req[r].share /\ b = req[r].blob
      BY <1>handler
    <3>2. /\ tmp' = tmp \/ tmp' = [tmp EXCEPT ![s][b] = {}]
          /\ file' = file \/ file' = [file EXCEPT ![s][b] = {}]
      BY <1>9, <3>1 DEF RemoveTmp, DeleteBlobFile
    <3>3. [tmp EXCEPT ![s][b] = {}] \in [Shares -> [Blobs -> SUBSET Requests]]
      BY <1>tables
    <3>4. [file EXCEPT ![s][b] = {}] \in [Shares -> [Blobs -> SUBSET Requests]]
      BY <1>tables
    <3> QED BY <1>tables, <3>2, <3>3, <3>4
  <2> QED BY <1>9, <2>1, <2>2
          DEF TypeOK, RemoveTmp, DeleteBlobFile, tables, flags, sweeper, history
<1>10. ASSUME NEW r \in Requests, NEW s \in Shares, RevokeB2Share(r, s)
       PROVE  TypeOK'
  <2>1. req' \in [Requests -> Handlers]
    BY <1>10, <1>ids, HandlerTypes DEF RevokeB2Share, Ops, Steps
  <2> QED BY <1>10, <2>1 DEF TypeOK, RevokeB2Share, tables, flags, fs, sweeper
<1>11. ASSUME NEW r \in Requests, RevokeRow(r) PROVE TypeOK'
  <2>1. req' \in [Requests -> Handlers]
    BY <1>11, HandlerTypes DEF RevokeRow, Steps
  <2>2. blobs' \in [Shares -> [Blobs -> Requests \cup {NoReq}]]
    <3>1. PICK s \in Shares : s = req[r].share
      BY <1>handler
    <3>2. blobs' = blobs \/ blobs' = [blobs EXCEPT ![s] = NoBlobs]
      BY <1>11, <3>1 DEF RevokeRow
    <3> QED BY <1>tables, <1>files, <3>2
  <2> QED BY <1>11, <1>handler, <2>1, <2>2
          DEF TypeOK, RevokeRow, RowFound, fs, sweeper, history
<1>12. ASSUME NEW r \in Requests, RevokeDir(r) PROVE TypeOK'
  <2>1. req' \in [Requests -> Handlers]
    BY <1>12, HandlerTypes DEF RevokeDir
  <2>2. /\ tmp' \in [Shares -> [Blobs -> SUBSET Requests]]
        /\ file' \in [Shares -> [Blobs -> SUBSET Requests]]
    <3>1. PICK s \in Shares : s = req[r].share
      BY <1>handler
    <3>2. /\ tmp' = tmp \/ tmp' = [tmp EXCEPT ![s] = NoFiles]
          /\ file' = file \/ file' = [file EXCEPT ![s] = NoFiles]
      BY <1>12, <3>1 DEF RevokeDir, RemoveDir, fs
    <3> QED BY <1>tables, <1>files, <3>2
  <2> QED BY <1>12, <1>handler, <2>1, <2>2
          DEF TypeOK, RevokeDir, RemoveDir, fs, tables, flags, sweeper
<1>13. ASSUME NEW r \in Requests, NEW s \in Shares, NEW b \in Blobs,
              GetShareBlob(r, s, b)
       PROVE  TypeOK'
  <2>1. req' \in [Requests -> Handlers]
    BY <1>13, HandlerTypes DEF GetShareBlob, Ops, Steps
  <2> QED BY <1>13, <2>1
          DEF TypeOK, GetShareBlob, tables, flags, fs, sweeper, history
<1>14. ASSUME NEW s \in Shares, Expire(s) \/ BecomeStale(s) PROVE TypeOK'
  BY <1>14 DEF TypeOK, Expire, BecomeStale, fs, sweeper, history
<1>15. ASSUME NEW s \in Shares, Sweep(s) PROVE TypeOK'
  <2>1. /\ tmp' \in [Shares -> [Blobs -> SUBSET Requests]]
        /\ file' \in [Shares -> [Blobs -> SUBSET Requests]]
    <3>1. /\ tmp' = tmp \/ tmp' = [tmp EXCEPT ![s] = NoFiles]
          /\ file' = file \/ file' = [file EXCEPT ![s] = NoFiles]
      BY <1>15 DEF Sweep, SweepRemove, SweepSkip, RemoveDir, fs
    <3> QED BY <1>tables, <1>files, <3>1
  <2> QED BY <1>15, <2>1
      DEF TypeOK, Sweep, SweepRemove, SweepSkip, RemoveDir, tables, flags, fs, history
<1>16. CASE SweepSelect
  BY <1>16 DEF TypeOK, SweepSelect, Purgeable, tables, flags, fs, history
<1>17. CASE SweepDelete
  <2>1. blobs' \in [Shares -> [Blobs -> Requests \cup {NoReq}]]
    BY <1>17, <1>tables, <1>files DEF SweepDelete
  <2> QED BY <1>17, <2>1 DEF TypeOK, SweepDelete, fs, history
<1>18. CASE Crash
  <2>1. req' \in [Requests -> Handlers]
    BY <1>18, <1>tables, HandlerTypes DEF Crash
  <2> QED BY <1>18, <2>1, CrashAssumption DEF TypeOK, Crash, tables, flags, fs, history
<1>19. CASE UNCHANGED vars
  BY <1>19 DEF TypeOK, vars, tables, flags, fs, sweeper, history
<1>20. ASSUME NEW r \in Requests, Handle(r) PROVE TypeOK'
  <2>1. CASE OpenFile(r)
    <3>1. req' \in [Requests -> Handlers]
      BY <2>1, HandlerTypes DEF OpenFile
    <3> QED BY <2>1, <3>1 DEF TypeOK, OpenFile, tables, flags, fs, sweeper, history
  <2>2. CASE StreamEnd(r)
    BY <2>2, <1>5
  <2> QED BY <1>20, <2>1, <2>2, <1>2, <1>4, <1>5, <1>6, <1>7, <1>8, <1>9, <1>11,
             <1>12 DEF Handle
<1>21. ASSUME NEW r \in Requests, NEW s \in Shares, Receive(r, s) PROVE TypeOK'
  <2>1. "blob" \in {"blob", "seal"} /\ "seal" \in {"blob", "seal"}
    OBVIOUS
  <2>2. ASSUME NEW b \in BlobIds, UploadBundleBlob(r, s, b) PROVE TypeOK'
    BY <2>1, <2>2, <1>3, <1>ids DEF UploadBundleBlob
  <2>3. CASE SealBundle(r, s)
    BY <2>1, <2>3, <1>3, <1>ids DEF SealBundle
  <2> QED BY <1>21, <2>2, <2>3, <1>1, <1>10, <1>13 DEF Receive
<1> QED
  BY <1>14, <1>15, <1>16, <1>17, <1>18, <1>19, <1>20, <1>21 DEF Next

\* Every reachable state of the store, the handlers and the sweeper is well
\* typed; a flag is only set on a share that has a row.
THEOREM TypeCorrect == Spec => []TypeOK
<1> QED BY InitType, TypeStep, PTL DEF Spec
-----------------------------------------------------------------------------
(***************************************************************************)
(* Directories, rows and revocation.                                       *)
(***************************************************************************)

\* A step that leaves rows and directories alone, and moves or drops files of a
\* share only if its directory is there, keeps the invariant.
LEMMA FileStep ==
    ASSUME TypeOK, StoreInv,
           UNCHANGED <<rows, dirs, victims, toClear, withdrawn, kept>>,
           \A s \in Shares \ dirs : tmp[s]' = tmp[s] /\ file[s]' = file[s]
    PROVE  StoreInv'
BY DEF TypeOK, StoreInv, NoOrphanDir, SweepInv, FilesInv, NoFiles

\* Emptying one entry of an empty table changes nothing.
LEMMA EmptyPut ==
    ASSUME NEW b \in Blobs
    PROVE  [NoFiles EXCEPT ![b] = {}] = NoFiles
BY DEF NoFiles

\* Removing a directory, and nothing else but the history, keeps the invariant.
LEMMA RemoveStep ==
    ASSUME TypeOK, StoreInv, NEW s \in Shares, RemoveDir(s),
           UNCHANGED rows,
           victims' \subseteq victims, toClear' \subseteq toClear \cup {s},
           s \in toClear' => s \in rows,
           withdrawn' \subseteq withdrawn \cup {s}
    PROVE  StoreInv'
<1>1. NoOrphanDir' /\ SweepInv'
  BY DEF StoreInv, NoOrphanDir, SweepInv, RemoveDir
<1>2. \A q \in Shares \ dirs' : tmp'[q] = NoFiles /\ file'[q] = NoFiles
  BY DEF TypeOK, StoreInv, FilesInv, RemoveDir
<1>3. (withdrawn \cap dirs)' \subseteq kept'
  BY DEF StoreInv, FilesInv, RemoveDir
<1> QED BY <1>1, <1>2, <1>3 DEF StoreInv, FilesInv

\* Every step keeps the invariant.
LEMMA StoreStep == TypeOK /\ StoreInv /\ [Next]_vars => StoreInv'
<1> SUFFICES ASSUME TypeOK, StoreInv, [Next]_vars PROVE StoreInv'
  OBVIOUS
<1>tables. /\ tmp \in [Shares -> [Blobs -> SUBSET Requests]]
           /\ file \in [Shares -> [Blobs -> SUBSET Requests]]
           /\ \A r \in Requests : req[r].share \in Shares /\ req[r].blob \in Blobs
  BY DEF TypeOK, Handlers
<1>empty. \A s \in Shares \ dirs : tmp[s] = NoFiles /\ file[s] = NoFiles
  BY DEF StoreInv, FilesInv
<1>1. ASSUME NEW s \in Shares, NEW r \in Requests, NEW made \in BOOLEAN,
             CreateShare(r, s, made)
      PROVE  StoreInv'
  <2>1. s \notin rows /\ rows' = rows \cup {s} /\ dirs' \subseteq dirs \cup {s}
        /\ dirs \subseteq dirs' /\ withdrawn' = withdrawn \ {s} /\ kept' = kept \ {s}
        /\ UNCHANGED <<tmp, file, victims, toClear>>
    BY <1>1 DEF CreateShare, sweeper
  <2>2. NoOrphanDir' /\ SweepInv'
    BY <2>1 DEF StoreInv, NoOrphanDir, SweepInv
  <2>3. FilesInv'
    BY <2>1 DEF StoreInv, FilesInv
  <2> QED BY <2>2, <2>3 DEF StoreInv
<1>2. ASSUME NEW r \in Requests, OpenTmp(r) PROVE StoreInv'
  <2>1. PICK s \in Shares, b \in Blobs : s = req[r].share /\ b = req[r].blob
    BY <1>tables
  <2>2. CASE s \in dirs
    <3>1. dirs' = dirs /\ UNCHANGED <<rows, victims, toClear, withdrawn, kept, file>>
          /\ tmp' = [tmp EXCEPT ![s][b] = TmpOpened(r, tmp[s][b])]
      BY <1>2, <2>1, <2>2 DEF OpenTmp, OpensTmp, tables, sweeper, history
    <3>2. \A q \in Shares \ dirs : tmp'[q] = tmp[q]
      BY <1>tables, <2>2, <3>1
    <3> QED BY <3>1, <3>2, FileStep
  <2>3. CASE s \notin dirs
    <3>1. UNCHANGED <<rows, dirs, victims, toClear, withdrawn, kept, tmp, file>>
      BY <1>2, <2>1, <2>3 DEF OpenTmp, OpensTmp, tables, sweeper, history
    <3> QED BY <3>1, FileStep
  <2> QED BY <2>2, <2>3
<1>3. ASSUME NEW r \in Requests, RenameTmp(r) \/ DropHandler(r) PROVE StoreInv'
  <2>1. PICK s \in Shares, b \in Blobs : s = req[r].share /\ b = req[r].blob
    BY <1>tables
  <2>2. UNCHANGED <<rows, dirs, victims, toClear, withdrawn, kept>>
    BY <1>3 DEF RenameTmp, DropHandler, tables, sweeper, history
  <2>3. \/ UNCHANGED <<tmp, file>>
        \/ s \in dirs /\ file' = [file EXCEPT ![s][b] = tmp[s][b]]
           /\ tmp' = [tmp EXCEPT ![s][b] = {}]
        \/ tmp' = [tmp EXCEPT ![s][b] = {}] /\ file' = file
    BY <1>3, <2>1 DEF RenameTmp, DropHandler
  <2>4. \A q \in Shares \ dirs : tmp'[q] = tmp[q] /\ file'[q] = file[q]
    <3> SUFFICES ASSUME NEW q \in Shares \ dirs
                 PROVE  tmp'[q] = tmp[q] /\ file'[q] = file[q]
      OBVIOUS
    <3>1. CASE tmp' = [tmp EXCEPT ![s][b] = {}] /\ file' = file
      BY <3>1, <1>tables, <1>empty, EmptyPut
    <3>2. CASE s \in dirs /\ file' = [file EXCEPT ![s][b] = tmp[s][b]]
               /\ tmp' = [tmp EXCEPT ![s][b] = {}]
      BY <3>2, <1>tables
    <3> QED BY <3>1, <3>2, <2>3
  <2> QED BY <2>2, <2>4, FileStep
<1>4. ASSUME NEW r \in Requests, RemoveTmp(r) \/ DeleteBlobFile(r) PROVE StoreInv'
  <2>1. PICK s \in Shares, b \in Blobs : s = req[r].share /\ b = req[r].blob
    BY <1>tables
  <2>2. UNCHANGED <<rows, dirs, victims, toClear, withdrawn, kept>>
    BY <1>4 DEF RemoveTmp, DeleteBlobFile, tables, sweeper, history
  <2>3. \/ tmp' = [tmp EXCEPT ![s][b] = {}] /\ file' = file
        \/ file' = [file EXCEPT ![s][b] = {}] /\ tmp' = tmp
    BY <1>4, <2>1 DEF RemoveTmp, DeleteBlobFile
  <2>4. \A q \in Shares \ dirs : tmp'[q] = tmp[q] /\ file'[q] = file[q]
    BY <2>3, <1>tables, <1>empty, EmptyPut
  <2> QED BY <2>2, <2>4, FileStep
<1>5. ASSUME NEW r \in Requests, RevokeDir(r) PROVE StoreInv'
  <2>1. PICK s \in Shares : s = req[r].share
    BY <1>tables
  <2>2. UNCHANGED <<rows, victims, toClear>>
    BY <1>5 DEF RevokeDir, tables, sweeper
  <2>3. CASE RemoveDir(s) /\ withdrawn' \subseteq withdrawn \cup {s}
    BY <2>2, <2>3, RemoveStep DEF StoreInv, SweepInv
  <2>4. CASE /\ UNCHANGED <<dirs, tmp, file>>
             /\ \/ UNCHANGED <<withdrawn, kept>>
                \/ withdrawn' = withdrawn \cup {s} /\ kept' = kept \cup {s}
    <3>1. NoOrphanDir' /\ SweepInv'
      BY <2>2, <2>4 DEF StoreInv, NoOrphanDir, SweepInv
    <3>2. (withdrawn \cap dirs)' \subseteq kept'
      BY <2>4 DEF StoreInv, FilesInv
    <3>3. \A q \in Shares \ dirs' : tmp'[q] = NoFiles /\ file'[q] = NoFiles
      BY <1>empty, <2>4
    <3> QED BY <3>1, <3>2, <3>3 DEF StoreInv, FilesInv
  <2> QED BY <1>5, <2>1, <2>3, <2>4 DEF RevokeDir, fs
<1>6. ASSUME NEW s \in Shares, SweepRemove(s) PROVE StoreInv'
  <2>1. s \in rows
    BY <1>6 DEF SweepRemove, StoreInv, SweepInv
  <2> QED BY <1>6, <2>1, RemoveStep DEF SweepRemove, tables, history
<1>7. ASSUME NEW s \in Shares, SweepSkip(s) PROVE StoreInv'
  BY <1>7 DEF StoreInv, NoOrphanDir, SweepInv, FilesInv, SweepSkip, tables, fs,
              history, NoFiles
<1>8. CASE SweepSelect
  BY <1>8 DEF TypeOK, StoreInv, NoOrphanDir, SweepInv, FilesInv, SweepSelect,
              Purgeable, tables, fs, history, NoFiles
<1>9. CASE SweepDelete
  BY <1>9 DEF StoreInv, NoOrphanDir, SweepInv, FilesInv, SweepDelete, fs, history,
              NoFiles
<1>10. CASE Crash
  BY <1>10 DEF StoreInv, NoOrphanDir, SweepInv, FilesInv, Crash, tables, fs,
               history, NoFiles
<1>11. CASE UNCHANGED <<rows, fs, victims, toClear, withdrawn, kept>>
  BY <1>11, FileStep DEF fs
<1>12. ASSUME NEW r \in Requests, Handle(r) PROVE StoreInv'
  <2>1. \/ OpenTmp(r) \/ RenameTmp(r) \/ DropHandler(r) \/ RemoveTmp(r)
        \/ DeleteBlobFile(r) \/ RevokeDir(r)
        \/ UNCHANGED <<rows, fs, victims, toClear, withdrawn, kept>>
    BY <1>12 DEF Handle, SetBundleToken, StreamEnd, StreamFail, RecordBlob,
                 MarkSealed, DeleteBlobRow, RevokeRow, OpenFile, tables, sweeper,
                 history
  <2> QED BY <2>1, <1>2, <1>3, <1>4, <1>5, <1>11
<1>13. ASSUME NEW r \in Requests, NEW s \in Shares, Receive(r, s) PROVE StoreInv'
  <2>1. \/ \E made \in BOOLEAN : CreateShare(r, s, made)
        \/ UNCHANGED <<rows, fs, victims, toClear, withdrawn, kept>>
    BY <1>13 DEF Receive, UploadB2Share, InitBundle, UploadBundleBlob, SealBundle,
                 BeginUpload, RevokeB2Share, GetShareBlob, tables, sweeper, history
  <2> QED BY <2>1, <1>1, <1>11
<1>14. ASSUME NEW s \in Shares, Expire(s) \/ BecomeStale(s) PROVE StoreInv'
  BY <1>14, <1>11 DEF Expire, BecomeStale, sweeper, history
<1>15. CASE UNCHANGED vars
  BY <1>15, <1>11 DEF vars, tables, sweeper, history
<1> QED BY <1>6, <1>7, <1>8, <1>9, <1>10, <1>12, <1>13, <1>14, <1>15 DEF Next, Sweep

\* The inductive invariant holds in every reachable state.
LEMMA StoreInvariant == Spec => []StoreInv
<1>1. Init => StoreInv
  BY DEF Init, StoreInv, NoOrphanDir, SweepInv, FilesInv, NoFiles
<1> QED BY <1>1, StoreStep, TypeCorrect, PTL DEF Spec

\* No crash, failed removal or dropped upload leaves a share directory that no
\* row leads the sweeper to (create_share, purge_expired_and_revoked).
THEOREM NoDirectoryOrphaned == Spec => []NoOrphanDir
<1>1. StoreInv => NoOrphanDir
  BY DEF StoreInv
<1> QED BY <1>1, StoreInvariant, PTL

\* A share that is revoked or being revoked, and not taken over, has its row marked.
MarkedAt(s) ==
    /\ s \in rows \ late
    /\ s \in withdrawn \/ \E q \in Requests : req[q].pc = "rmdir" /\ req[q].share = s
    => s \in revoked
MarkedInv == \A s \in Shares : MarkedAt(s)

\* A step after which no more handlers remove a directory, and no more shares are
\* withdrawn or taken for current, keeps what is marked.
LEMMA MarkedFrame ==
    ASSUME MarkedInv, revoked \cap rows' \subseteq revoked', rows' \ late' \subseteq rows \ late,
           withdrawn' \subseteq withdrawn,
           \A q \in Requests : req'[q].pc = "rmdir" =>
               req[q].pc = "rmdir" /\ req'[q].share = req[q].share
    PROVE  MarkedInv'
BY DEF MarkedInv, MarkedAt

LEMMA MarkedStep == TypeOK /\ StoreInv /\ MarkedInv /\ [Next]_vars => MarkedInv'
<1> SUFFICES ASSUME TypeOK, StoreInv, MarkedInv, [Next]_vars PROVE MarkedInv'
  OBVIOUS
<1>req. req \in [Requests -> Handlers]
  BY DEF TypeOK
<1>1. ASSUME NEW r \in Requests, NEW s \in Shares, NEW made \in BOOLEAN,
             UploadB2Share(r, s, made) \/ InitBundle(r, s, made)
      PROVE  MarkedInv'
  <2>1. CreateShare(r, s, made) /\ req[r].pc = "idle" /\ req'[r].pc # "rmdir"
        /\ \A q \in Requests \ {r} : req'[q] = req[q]
    BY <1>1, <1>req DEF UploadB2Share, InitBundle, Begin
  <2>2. /\ rows' = rows \cup {s} /\ withdrawn' = withdrawn \ {s} /\ revoked' = revoked
        /\ late' = IF \E q \in Requests : InFlight(q) /\ req[q].share = s
                     THEN late \cup {s} ELSE late \ {s}
    BY <2>1 DEF CreateShare, flags
  <2>3. \A q \in Requests : req'[q].pc = "rmdir" =>
            req[q].pc = "rmdir" /\ req'[q].share = req[q].share /\ InFlight(q)
    BY <2>1 DEF InFlight
  <2> SUFFICES ASSUME NEW t \in Shares PROVE MarkedAt(t)'
    BY DEF MarkedInv
  <2>4. CASE t = s
    BY <2>2, <2>3, <2>4 DEF MarkedAt
  <2>5. CASE t # s
    BY <2>2, <2>3, <2>5 DEF MarkedAt, MarkedInv
  <2> QED BY <2>4, <2>5
<1>2. ASSUME NEW r \in Requests, RevokeRow(r) PROVE MarkedInv'
  <2>1. /\ \A q \in Requests \ {r} : req'[q] = req[q]
        /\ req'[r].pc = "rmdir" => req'[r].share = req[r].share /\ req[r].share \in revoked'
    BY <1>2, <1>req DEF RevokeRow, Goto, Return, End, Handlers
  <2>2. UNCHANGED <<rows, late, withdrawn>> /\ revoked \subseteq revoked'
    BY <1>2 DEF RevokeRow, history
  <2> QED BY <2>1, <2>2 DEF MarkedInv, MarkedAt
<1>3. ASSUME NEW r \in Requests, RevokeDir(r) PROVE MarkedInv'
  <2>1. /\ \A q \in Requests \ {r} : req'[q] = req[q]
        /\ req'[r].pc # "rmdir" /\ req[r].pc = "rmdir"
    BY <1>3, <1>req DEF RevokeDir, Return, End, Handlers
  <2>2. UNCHANGED <<rows, late, revoked>> /\ withdrawn' \subseteq withdrawn \cup {req[r].share}
    BY <1>3 DEF RevokeDir, tables, flags
  <2> QED BY <2>1, <2>2 DEF MarkedInv, MarkedAt
<1>4. ASSUME NEW r \in Requests,
             \/ SetBundleToken(r) \/ OpenTmp(r) \/ StreamEnd(r)
             \/ (\E undo \in BOOLEAN : StreamFail(r, undo)) \/ RenameTmp(r) \/ RecordBlob(r)
             \/ MarkSealed(r) \/ RemoveTmp(r) \/ DeleteBlobRow(r) \/ DeleteBlobFile(r)
             \/ DropHandler(r) \/ OpenFile(r)
      PROVE  MarkedInv'
  <2>1. \A q \in Requests \ {r} : req'[q] = req[q]
    BY <1>4, <1>req DEF SetBundleToken, OpenTmp, StreamEnd, StreamFail, RenameTmp, RecordBlob,
       MarkSealed, RemoveTmp, DeleteBlobRow, DeleteBlobFile, DropHandler, OpenFile, Goto, Return, Fail
  <2>2. req'[r].pc # "rmdir"
    BY <1>4, <1>req DEF SetBundleToken, OpenTmp, StreamEnd, StreamFail, RenameTmp, RecordBlob,
       MarkSealed, RemoveTmp, DeleteBlobRow, DeleteBlobFile, DropHandler, OpenFile, Goto, Return, Fail,
       End, Handlers
  <2>3. UNCHANGED <<rows, revoked, withdrawn>> /\ late \subseteq late'
    BY <1>4 DEF SetBundleToken, OpenTmp, StreamEnd, StreamFail, RenameTmp, RecordBlob,
       MarkSealed, RemoveTmp, DeleteBlobRow, DeleteBlobFile, DropHandler, OpenFile, tables, flags, history
  <2> QED BY <2>1, <2>2, <2>3, MarkedFrame
<1>5. ASSUME NEW r \in Requests, NEW s \in Shares, Receive(r, s) PROVE MarkedInv'
  <2>1. CASE \E made \in BOOLEAN : UploadB2Share(r, s, made) \/ InitBundle(r, s, made)
    BY <1>1, <2>1
  <2>2. CASE \/ \E b \in BlobIds : UploadBundleBlob(r, s, b)
             \/ SealBundle(r, s) \/ RevokeB2Share(r, s)
             \/ \E b \in Blobs : GetShareBlob(r, s, b)
    <3>1. /\ \A q \in Requests \ {r} : req'[q] = req[q]
          /\ req'[r].pc # "rmdir"
      BY <2>2, <1>req DEF UploadBundleBlob, SealBundle, BeginUpload, RevokeB2Share, GetShareBlob, Begin
    <3>2. UNCHANGED <<rows, revoked, withdrawn, late>>
      BY <2>2 DEF UploadBundleBlob, SealBundle, BeginUpload, RevokeB2Share, GetShareBlob, tables,
                  flags, history
    <3> QED BY <3>1, <3>2, MarkedFrame
  <2> QED BY <1>5, <2>1, <2>2 DEF Receive
<1>6. CASE Crash
  <2>1. \A q \in Requests : req'[q].pc = "rmdir" => req'[q] = req[q]
    BY <1>6, <1>req DEF Crash, End, Handlers, InFlight
  <2>2. UNCHANGED <<rows, revoked, withdrawn, late>>
    BY <1>6 DEF Crash, tables, flags, history
  <2> QED BY <2>1, <2>2, MarkedFrame
<1>7. CASE SweepDelete
  BY <1>7, MarkedFrame DEF SweepDelete, history
<1>8. CASE \/ SweepSelect \/ UNCHANGED vars
           \/ \E s \in Shares : Expire(s) \/ BecomeStale(s) \/ Sweep(s)
  <2>1. UNCHANGED <<rows, revoked, withdrawn, late, req>>
    BY <1>8 DEF SweepSelect, Expire, BecomeStale, Sweep, SweepRemove, SweepSkip, tables, flags,
                history, vars
  <2> QED BY <2>1, MarkedFrame
<1>9. ASSUME NEW r \in Requests, Handle(r) PROVE MarkedInv'
  BY <1>2, <1>3, <1>4, <1>9 DEF Handle
<1> QED BY <1>5, <1>6, <1>7, <1>8, <1>9 DEF Next

LEMMA MarkedInvariant == Spec => []MarkedInv
<1>1. Init => MarkedInv
  BY DEF Init, MarkedInv, MarkedAt
<1> QED BY <1>1, MarkedStep, StoreInvariant, TypeCorrect, PTL DEF Spec

\* Once a revocation is answered, its row stays marked for as long as there is one,
\* and nothing of the share is on the disk unless the removal failed, whatever
\* uploads were in flight (revoke_share, File::create and the rename).
THEOREM RevokedLeavesNothing == Spec => []RevokedIsGone
<1>1. TypeOK /\ StoreInv /\ MarkedInv => RevokedIsGone
  BY DEF TypeOK, StoreInv, FilesInv, RevokedIsGone, MarkedInv, MarkedAt
<1> QED BY <1>1, StoreInvariant, MarkedInvariant, TypeCorrect, PTL
-----------------------------------------------------------------------------
(***************************************************************************)
(* What is recorded and published.  A share is current while no request of *)
(* an earlier share of its id, and no upload past its lifetime, met it.    *)
(***************************************************************************)
Current(s) == s \in rows \ late
Serves(q, s, ops) == InFlight(q) /\ req[q].share = s /\ req[q].op \in ops
UploadOps == {"file", "blob", "seal"}
CreateOps == UploadOps \cup {"init"}

\* What a handler at a step can be.
RoleAt(q) ==
    InFlight(q) =>
      /\ req[q].pc \in {"open", "stream", "rename", "record", "cleanup"} => req[q].op \in UploadOps
      /\ req[q].pc = "seal" => req[q].op \in {"file", "seal"}
      /\ req[q].pc = "token" => req[q].op = "init"
      /\ req[q].pc \in {"revoke", "rmdir"} => req[q].op \in {"file", "init", "revoke"}
      /\ req[q].pc \in {"unrecord", "unlink"} => req[q].op \in {"blob", "seal"}
      /\ req[q].pc = "get" => req[q].op = "get"
      /\ req[q].op = "file" => req[q].blob = "main"
      /\ req[q].op = "blob" => req[q].blob \in BlobIds
      /\ req[q].op = "seal" => req[q].blob = "_manifest"
      /\ req[q].op = "seal" /\ req[q].pc = "cleanup" => ~req[q].undo
RolesInv == \A q \in Requests : RoleAt(q)

\* Bytes in a temporary file are of a request that opened it.
TmpInv ==
    \A s \in Shares, b \in Blobs : \A q \in tmp[s][b] :
      /\ req[q].pc \notin {"idle", "open"}
      /\ req[q].pc = "stream" => req[q].share = s /\ req[q].blob = b

\* A share without a row has no blobs; the blob of a file share is never contested;
\* the sweeper works on what is to go.
RecordsInv ==
    /\ \A s \in Shares \ rows : blobs[s] = NoBlobs
    /\ \A s \in Shares : <<s, "main">> \notin contested
    /\ victims \cup toClear \subseteq revoked \cup expired \cup stale

\* A blob that is not contested has one upload at most: it records the blob last,
\* and until then the temporary file and the renamed one are its own.
WholeAt(s, b) ==
    /\ \A q, p \in Requests : Uploading(q, s, b) /\ Uploading(p, s, b) => q = p
    /\ \A q \in Requests : Uploading(q, s, b) =>
         /\ req[q].pc # "seal" => blobs[s][b] = NoReq
         /\ req[q].pc \in {"stream", "rename"} /\ s \in dirs => tmp[s][b] = {q}
         /\ req[q].pc = "record" /\ s \in dirs => file[s][b] = {q}
    /\ blobs[s][b] # NoReq /\ s \in dirs => file[s][b] = {blobs[s][b]}
WholeInv ==
    \A s \in Shares, b \in Blobs : Current(s) /\ <<s, b>> \notin contested => WholeAt(s, b)

\* The requests under way on a current share are those of its kind.
KindAt(s, q) ==
    /\ Serves(q, s, {"file"}) => s \notin bundles \cup published
    /\ Serves(q, s, {"blob", "seal", "init"}) => s \in bundles
    /\ Serves(q, s, {"init"}) =>
         /\ req[q].pc = "token" /\ s \notin bundleToken \cup sealed
         /\ \A p \in Requests : Serves(p, s, CreateOps) => p = q
    /\ Serves(q, s, {"seal"}) => req[q].pc \notin {"unrecord", "unlink"}
    /\ Serves(q, s, Ops) /\ req[q].pc = "rmdir" => s \in revoked
KindInv == \A s \in Shares, q \in Requests : Current(s) => KindAt(s, q)

\* A share that can still be filled has its directory.
HomeAt(s) ==
    s \notin expired \cup stale =>
      /\ s \in bundleToken => s \in dirs
      /\ \A q \in Requests : Serves(q, s, CreateOps) => s \in dirs

\* The last blob of it, once renamed, stays there.
LastAt(s) ==
    \A q \in Requests :
      Serves(q, s, {"file", "seal"}) /\ req[q].pc \in {"record", "seal"} /\ s \in dirs =>
        file[s][req[q].blob] # {}
PlaceInv == \A s \in Shares : Current(s) /\ s \notin revoked => HomeAt(s) /\ LastAt(s)

\* A published share is nobody's to revoke or to purge.
ServedAt(s) ==
    /\ s \in rows /\ s \in dirs /\ s \in sealed
    /\ s \notin revoked /\ s \notin expired /\ s \notin stale
    /\ file[s][IF s \in bundles THEN "_manifest" ELSE "main"] # {}
    /\ \A q \in Requests : ~Serves(q, s, {"revoke"})
ServedInv == \A s \in published \ late : ServedAt(s)

\* The inductive invariant of the uploads.
UploadInv ==
    /\ RolesInv /\ TmpInv /\ RecordsInv /\ WholeInv /\ KindInv /\ PlaceInv /\ ServedInv
-----------------------------------------------------------------------------
\* What the four ways to move a handler do to it, field by field.
LEMMA Moves ==
    ASSUME TypeOK, NEW r \in Requests
    PROVE  /\ \A pc \in Steps : Goto(r, pc) =>
                /\ req'[r].op = req[r].op /\ req'[r].share = req[r].share
                /\ req'[r].blob = req[r].blob /\ req'[r].pc = pc
                /\ \A q \in Requests : q # r => req'[q] = req[q]
           /\ Return(r) =>
                /\ req'[r].pc = "done" /\ req'[r].share = req[r].share
                /\ \A q \in Requests : q # r => req'[q] = req[q]
           /\ \A undo : Fail(r, undo) =>
                /\ req'[r].op = req[r].op /\ req'[r].share = req[r].share
                /\ req'[r].blob = req[r].blob /\ req'[r].pc = "cleanup" /\ req'[r].undo = undo
                /\ \A q \in Requests : q # r => req'[q] = req[q]
           /\ \A op, s, b, pc : Begin(r, op, s, b, pc) =>
                /\ req[r].pc = "idle" /\ req'[r].op = op /\ req'[r].share = s
                /\ req'[r].blob = b /\ req'[r].pc = pc
                /\ \A q \in Requests : q # r => req'[q] = req[q]
<1>1. req \in [Requests -> Handlers]
  BY DEF TypeOK
<1>2. \A pc \in Steps : Goto(r, pc) =>
        /\ req'[r].op = req[r].op /\ req'[r].share = req[r].share
        /\ req'[r].blob = req[r].blob /\ req'[r].pc = pc
        /\ \A q \in Requests : q # r => req'[q] = req[q]
  BY <1>1 DEF Goto, Handlers
<1>3. Return(r) => /\ req'[r].pc = "done" /\ req'[r].share = req[r].share
                   /\ \A q \in Requests : q # r => req'[q] = req[q]
  BY <1>1 DEF Return, End, Handlers
<1>4. \A undo : Fail(r, undo) =>
        /\ req'[r].op = req[r].op /\ req'[r].share = req[r].share
        /\ req'[r].blob = req[r].blob /\ req'[r].pc = "cleanup" /\ req'[r].undo = undo
        /\ \A q \in Requests : q # r => req'[q] = req[q]
  BY <1>1 DEF Fail, Handlers
<1>5. \A op, s, b, pc : Begin(r, op, s, b, pc) =>
        /\ req[r].pc = "idle" /\ req'[r].op = op /\ req'[r].share = s
        /\ req'[r].blob = b /\ req'[r].pc = pc
        /\ \A q \in Requests : q # r => req'[q] = req[q]
  BY <1>1 DEF Begin, Handlers
<1> QED BY <1>2, <1>3, <1>4, <1>5

\* A crash ends every handler.
LEMMA CrashEnds ==
    ASSUME TypeOK, Crash, NEW q \in Requests
    PROVE  ~InFlight(q)' /\ (req'[q].pc = "idle" => req[q].pc = "idle")
           /\ req'[q].pc \notin {"open", "stream"}
<1>1. req[q] \in Handlers /\ req'[q] = IF InFlight(q) THEN End(req[q]) ELSE req[q]
  BY DEF TypeOK, Crash
<1>2. End(req[q]).pc = "done"
  BY <1>1 DEF End, Handlers
<1> QED BY <1>1, <1>2 DEF InFlight

\* Every step keeps the roles.
LEMMA RolesStep == TypeOK /\ RolesInv /\ [Next]_vars => RolesInv'
<1> SUFFICES ASSUME TypeOK, RolesInv, [Next]_vars PROVE RolesInv'
  OBVIOUS
<1>f. ASSUME NEW r \in Requests, RoleAt(r)', \A q \in Requests : q # r => req'[q] = req[q]
      PROVE  RolesInv'
  BY <1>f DEF RolesInv, RoleAt, InFlight
<1>d. ASSUME NEW r \in Requests, Return(r) PROVE RolesInv'
  <2>1. RoleAt(r)' /\ \A q \in Requests : q # r => req'[q] = req[q]
    BY <1>d, Moves DEF RoleAt, InFlight
  <2> QED BY <1>f, <2>1
<1>g. ASSUME NEW r \in Requests, NEW pc \in Steps \ {"cleanup"}, Goto(r, pc), InFlight(r),
             pc \in {"open", "stream", "rename", "record"} => req[r].op \in UploadOps,
             pc = "seal" => req[r].op \in {"file", "seal"}, pc # "token", pc # "get",
             pc \in {"revoke", "rmdir"} => req[r].op \in {"file", "init", "revoke"},
             pc \in {"unrecord", "unlink"} => req[r].op \in {"blob", "seal"}
      PROVE  RolesInv'
  <2>1. RoleAt(r)' /\ \A q \in Requests : q # r => req'[q] = req[q]
    BY <1>g, Moves DEF RolesInv, RoleAt, InFlight
  <2> QED BY <1>f, <2>1
<1>x. ASSUME NEW r \in Requests, NEW undo \in BOOLEAN, Fail(r, undo), InFlight(r),
             req[r].op \in UploadOps, req[r].op = "seal" => undo = FALSE
      PROVE  RolesInv'
  <2>1. /\ req'[r].op = req[r].op /\ req'[r].blob = req[r].blob /\ req'[r].pc = "cleanup"
        /\ req'[r].undo = undo /\ \A q \in Requests : q # r => req'[q] = req[q]
    BY <1>x, Moves
  <2>2. RoleAt(r)'
    <3>1. req'[r].op = "seal" => ~req'[r].undo
      BY <1>x, <2>1
    <3> QED BY <1>x, <2>1, <3>1 DEF RolesInv, RoleAt, InFlight, UploadOps
  <2> QED BY <1>f, <2>1, <2>2
<1>b. ASSUME NEW r \in Requests, NEW op, NEW s, NEW b, NEW pc, Begin(r, op, s, b, pc),
             \/ pc = "done"
             \/ pc = "open" /\ op = "file" /\ b = "main"
             \/ pc = "open" /\ op = "blob" /\ b \in BlobIds
             \/ pc = "open" /\ op = "seal" /\ b = "_manifest"
             \/ pc = "token" /\ op = "init"
             \/ pc = "revoke" /\ op = "revoke"
             \/ pc = "get" /\ op = "get"
      PROVE  RolesInv'
  <2>1. RoleAt(r)' /\ \A q \in Requests : q # r => req'[q] = req[q]
    BY <1>b, Moves DEF RoleAt, InFlight, UploadOps
  <2> QED BY <1>f, <2>1
<1>1. ASSUME NEW r \in Requests, NEW s \in Shares, Receive(r, s) PROVE RolesInv'
  <2>1. ASSUME NEW made \in BOOLEAN, UploadB2Share(r, s, made) PROVE RolesInv'
    <3>1. PICK pc \in {"open", "done"} : Begin(r, "file", s, "main", pc)
      BY <2>1 DEF UploadB2Share
    <3> QED BY <1>b, <3>1
  <2>2. ASSUME NEW made \in BOOLEAN, InitBundle(r, s, made) PROVE RolesInv'
    <3>1. PICK pc \in {"token", "done"} : Begin(r, "init", s, "main", pc)
      BY <2>2 DEF InitBundle
    <3> QED BY <1>b, <3>1
  <2>3. ASSUME NEW b \in BlobIds, UploadBundleBlob(r, s, b) PROVE RolesInv'
    BY <1>b, <2>3 DEF UploadBundleBlob, BeginUpload
  <2>4. CASE SealBundle(r, s)
    BY <1>b, <2>4 DEF SealBundle, BeginUpload
  <2>5. CASE RevokeB2Share(r, s)
    BY <1>b, <2>5 DEF RevokeB2Share
  <2>6. ASSUME NEW b \in Blobs, GetShareBlob(r, s, b) PROVE RolesInv'
    BY <1>b, <2>6 DEF GetShareBlob
  <2> QED BY <1>1, <2>1, <2>2, <2>3, <2>4, <2>5, <2>6 DEF Receive
<1>2. ASSUME NEW r \in Requests, Handle(r) PROVE RolesInv'
  <2>r. RoleAt(r) /\ req[r].op \in Ops
    BY DEF RolesInv, TypeOK, Handlers
  <2>1. CASE SetBundleToken(r)
    BY <1>d, <1>g, <2>1, <2>r DEF SetBundleToken, RoleAt, InFlight, Steps
  <2>2. CASE OpenTmp(r)
    <3>1. req[r].pc = "open" /\ InFlight(r) /\ req[r].op \in UploadOps
      BY <2>2, <2>r DEF OpenTmp, RoleAt, InFlight
    <3>2. Goto(r, "stream") \/ Fail(r, req[r].op # "seal")
      BY <2>2 DEF OpenTmp
    <3>3. ASSUME Fail(r, req[r].op # "seal") PROVE RolesInv'
      <4>1. PICK undo \in BOOLEAN : undo = (req[r].op # "seal")
        OBVIOUS
      <4> QED BY <1>x, <3>1, <3>3, <4>1
    <3> QED BY <1>g, <3>1, <3>2, <3>3 DEF Steps, UploadOps
  <2>3. CASE StreamEnd(r)
    BY <1>g, <2>3, <2>r DEF StreamEnd, RoleAt, InFlight, Steps
  <2>4. ASSUME NEW undo \in BOOLEAN, StreamFail(r, undo) PROVE RolesInv'
    <3>1. InFlight(r) /\ req[r].op \in UploadOps /\ Fail(r, undo)
      BY <2>4, <2>r DEF StreamFail, RoleAt, InFlight
    <3>2. req[r].op = "seal" => undo = FALSE
      BY <2>4 DEF StreamFail
    <3> QED BY <1>x, <3>1, <3>2
  <2>5. CASE RenameTmp(r)
    <3>1. req[r].pc = "rename" /\ InFlight(r) /\ req[r].op \in UploadOps
      BY <2>5, <2>r DEF RenameTmp, RoleAt, InFlight
    <3>2. Goto(r, "record") \/ Fail(r, req[r].op = "file")
      BY <2>5 DEF RenameTmp
    <3>3. ASSUME Fail(r, req[r].op = "file") PROVE RolesInv'
      <4>1. PICK undo \in BOOLEAN : undo = (req[r].op = "file")
        OBVIOUS
      <4> QED BY <1>x, <3>1, <3>3, <4>1
    <3> QED BY <1>g, <3>1, <3>2, <3>3 DEF Steps, UploadOps
  <2>6. CASE RecordBlob(r)
    BY <1>d, <1>g, <2>6, <2>r DEF RecordBlob, RoleAt, InFlight, Steps, UploadOps
  <2>7. CASE MarkSealed(r)
    BY <1>d, <1>g, <2>7, <2>r DEF MarkSealed, RoleAt, InFlight, Steps, UploadOps
  <2>8. CASE RemoveTmp(r)
    BY <1>d, <1>g, <2>8, <2>r DEF RemoveTmp, RoleAt, InFlight, Steps, UploadOps
  <2>9. CASE DeleteBlobRow(r)
    BY <1>g, <2>9, <2>r DEF DeleteBlobRow, RoleAt, InFlight, Steps
  <2>10. CASE DeleteBlobFile(r) \/ DropHandler(r) \/ RevokeDir(r) \/ OpenFile(r)
    BY <1>d, <2>10 DEF DeleteBlobFile, DropHandler, RevokeDir, OpenFile
  <2>11. CASE RevokeRow(r)
    BY <1>d, <1>g, <2>11, <2>r DEF RevokeRow, RoleAt, InFlight, Steps
  <2> QED BY <1>2, <2>1, <2>2, <2>3, <2>4, <2>5, <2>6, <2>7, <2>8, <2>9, <2>10, <2>11 DEF Handle
<1>3. CASE Crash
  BY <1>3, CrashEnds DEF RolesInv, RoleAt
<1>4. CASE UNCHANGED req
  BY <1>4 DEF RolesInv, RoleAt, InFlight
<1>5. ASSUME NEW s \in Shares, Expire(s) \/ BecomeStale(s) \/ Sweep(s) PROVE UNCHANGED req
  BY <1>5 DEF Expire, BecomeStale, Sweep, SweepRemove, SweepSkip
<1>6. SweepSelect \/ SweepDelete \/ UNCHANGED vars => UNCHANGED req
  BY DEF SweepSelect, SweepDelete, vars
<1> QED BY <1>1, <1>2, <1>3, <1>4, <1>5, <1>6 DEF Next

\* Every step keeps what is known of temporary files.
LEMMA TmpStep == TypeOK /\ TmpInv /\ [Next]_vars => TmpInv'
<1> SUFFICES ASSUME TypeOK, TmpInv, [Next]_vars PROVE TmpInv'
  OBVIOUS
<1>t. /\ tmp \in [Shares -> [Blobs -> SUBSET Requests]]
      /\ \A r \in Requests : req[r].share \in Shares /\ req[r].blob \in Blobs
  BY DEF TypeOK, Handlers
<1>f. ASSUME NEW r \in Requests, \A q \in Requests : q # r => req'[q] = req[q],
             req[r].pc \in {"idle", "open"} \/ req'[r].pc \notin {"idle", "open", "stream"},
             \A s \in Shares, b \in Blobs : tmp'[s][b] \subseteq tmp[s][b]
      PROVE  TmpInv'
  BY <1>f, <1>t DEF TmpInv
<1>e. ASSUME NEW s \in Shares, tmp' = tmp \/ tmp' = [tmp EXCEPT ![s] = NoFiles]
      PROVE  \A x \in Shares, b \in Blobs : tmp'[x][b] \subseteq tmp[x][b]
  BY <1>e, <1>t DEF NoFiles
<1>g. ASSUME NEW s \in Shares, NEW b \in Blobs, tmp' = tmp \/ tmp' = [tmp EXCEPT ![s][b] = {}]
      PROVE  \A x \in Shares, y \in Blobs : tmp'[x][y] \subseteq tmp[x][y]
  BY <1>g, <1>t
<1>1. ASSUME NEW r \in Requests, NEW s \in Shares, Receive(r, s) PROVE TmpInv'
  <2>1. /\ \E op, b, pc : Begin(r, op, s, b, pc)
        /\ tmp' = tmp
    BY <1>1 DEF Receive, UploadB2Share, InitBundle, CreateShare, UploadBundleBlob, SealBundle,
                BeginUpload, RevokeB2Share, GetShareBlob, fs
  <2>2. req[r].pc = "idle" /\ \A q \in Requests : q # r => req'[q] = req[q]
    BY <2>1, Moves
  <2> QED BY <1>f, <2>1, <2>2
<1>2. ASSUME NEW r \in Requests, OpenTmp(r) PROVE TmpInv'
  <2>1. PICK s \in Shares, b \in Blobs : s = req[r].share /\ b = req[r].blob
    BY <1>t
  <2>2. CASE OpensTmp(s)
    <3>1. /\ req'[r].pc = "stream" /\ req'[r].share = s /\ req'[r].blob = b
          /\ \A q \in Requests : q # r => req'[q] = req[q]
      BY <1>2, <2>1, <2>2, Moves DEF OpenTmp, Steps
    <3>2. tmp' = [tmp EXCEPT ![s][b] = TmpOpened(r, tmp[s][b])]
      BY <1>2, <2>1, <2>2 DEF OpenTmp
    <3>3. TmpOpened(r, tmp[s][b]) \subseteq tmp[s][b] \cup {r}
      BY DEF TmpOpened
    <3>4. \A x \in Shares, y \in Blobs :
            tmp'[x][y] \subseteq tmp[x][y] \cup (IF x = s /\ y = b THEN {r} ELSE {})
      BY <1>t, <3>2, <3>3
    <3>5. req[r].pc = "open" /\ \A x \in Shares, y \in Blobs : r \notin tmp[x][y]
      BY <1>2 DEF OpenTmp, TmpInv
    <3> QED BY <1>t, <3>1, <3>4, <3>5 DEF TmpInv
  <2>3. CASE ~OpensTmp(s)
    <3>1. tmp' = tmp /\ req'[r].pc = "cleanup" /\ \A q \in Requests : q # r => req'[q] = req[q]
      BY <1>2, <2>1, <2>3, Moves DEF OpenTmp
    <3> QED BY <1>f, <3>1
  <2> QED BY <2>2, <2>3
<1>3. ASSUME NEW r \in Requests, Handle(r), ~OpenTmp(r) PROVE TmpInv'
  <2>1. PICK s \in Shares, b \in Blobs : s = req[r].share /\ b = req[r].blob
    BY <1>t
  <2>2. /\ req'[r].pc \notin {"idle", "open", "stream"}
        /\ \A q \in Requests : q # r => req'[q] = req[q]
    <3>1. \/ Return(r) \/ (\E undo : Fail(r, undo))
          \/ \E pc \in Steps \ {"idle", "open", "stream"} : Goto(r, pc)
      BY <1>3 DEF Handle, SetBundleToken, StreamEnd, StreamFail, RenameTmp, RecordBlob, MarkSealed,
                  RemoveTmp, DeleteBlobRow, DeleteBlobFile, DropHandler, RevokeRow, RevokeDir,
                  OpenFile, Steps
    <3> QED BY <3>1, Moves
  <2>3. \/ tmp' = tmp \/ tmp' = [tmp EXCEPT ![s][b] = {}] \/ tmp' = [tmp EXCEPT ![s] = NoFiles]
    BY <1>3, <2>1 DEF Handle, SetBundleToken, StreamEnd, StreamFail, RenameTmp, RecordBlob, MarkSealed,
                  RemoveTmp, DeleteBlobRow, DeleteBlobFile, DropHandler, RevokeRow, RevokeDir,
                  OpenFile, RemoveDir, fs
  <2>4. \A x \in Shares, y \in Blobs : tmp'[x][y] \subseteq tmp[x][y]
    BY <1>e, <1>g, <2>3
  <2> QED BY <1>f, <2>2, <2>4
<1>4. CASE Crash
  <2>1. tmp' = tmp
    BY <1>4 DEF Crash, fs
  <2> QED BY <1>4, <1>t, <2>1, CrashEnds DEF TmpInv
<1>5. ASSUME UNCHANGED req, \A s \in Shares, b \in Blobs : tmp'[s][b] \subseteq tmp[s][b]
      PROVE  TmpInv'
  BY <1>5, <1>t DEF TmpInv
<1>6. ASSUME NEW s \in Shares, Expire(s) \/ BecomeStale(s) \/ Sweep(s) PROVE TmpInv'
  <2>1. UNCHANGED req /\ (tmp' = tmp \/ tmp' = [tmp EXCEPT ![s] = NoFiles])
    BY <1>6 DEF Expire, BecomeStale, Sweep, SweepRemove, SweepSkip, RemoveDir, fs
  <2> QED BY <1>5, <1>e, <2>1
<1>7. ASSUME SweepSelect \/ SweepDelete \/ UNCHANGED vars PROVE TmpInv'
  <2>1. UNCHANGED <<req, tmp>>
    BY <1>7 DEF SweepSelect, SweepDelete, vars, fs
  <2> QED BY <1>5, <2>1
<1> QED BY <1>1, <1>2, <1>3, <1>4, <1>6, <1>7 DEF Next

\* Every step keeps the records.
LEMMA RecordsStep == TypeOK /\ RecordsInv /\ [Next]_vars => RecordsInv'
<1> SUFFICES ASSUME TypeOK, RecordsInv, [Next]_vars PROVE RecordsInv'
  OBVIOUS
<1>t. /\ blobs \in [Shares -> [Blobs -> Requests \cup {NoReq}]]
      /\ revoked \subseteq Shares /\ expired \subseteq Shares /\ stale \subseteq Shares
      /\ \A r \in Requests : req[r].share \in Shares /\ req[r].blob \in Blobs
  BY DEF TypeOK, Handlers
<1>f. ASSUME blobs' = blobs, rows \subseteq rows', contested' \subseteq contested,
             victims' \cup toClear' \subseteq victims \cup toClear,
             revoked \subseteq revoked', expired \subseteq expired', stale \subseteq stale'
      PROVE  RecordsInv'
  BY <1>f DEF RecordsInv
<1>1. ASSUME NEW r \in Requests, NEW s \in Shares, Receive(r, s) PROVE RecordsInv'
  <2>1. ASSUME NEW b \in Blobs \ {"main"}, NEW op, BeginUpload(r, op, s, b) PROVE RecordsInv'
    <3>1. /\ contested' \subseteq contested \cup {<<s, b>>}
          /\ UNCHANGED <<blobs, rows, victims, toClear, revoked, expired, stale>>
      BY <2>1 DEF BeginUpload, tables, flags, sweeper
    <3>2. \A x \in Shares : <<x, "main">> \notin contested'
      BY <2>1, <3>1 DEF RecordsInv
    <3> QED BY <3>1, <3>2 DEF RecordsInv
  <2>2. ASSUME NEW b \in BlobIds, UploadBundleBlob(r, s, b) PROVE RecordsInv'
    BY <2>1, <2>2, BlobIdsAssumption DEF UploadBundleBlob, Blobs
  <2>3. CASE SealBundle(r, s)
    BY <2>1, <2>3 DEF SealBundle, Blobs
  <2>4. ASSUME \/ \E made \in BOOLEAN : UploadB2Share(r, s, made) \/ InitBundle(r, s, made)
               \/ RevokeB2Share(r, s) \/ \E b \in Blobs : GetShareBlob(r, s, b)
        PROVE  RecordsInv'
    <3>1. /\ blobs' = blobs /\ rows \subseteq rows' /\ contested' \subseteq contested
          /\ UNCHANGED <<victims, toClear, revoked, expired, stale>>
      BY <2>4 DEF UploadB2Share, InitBundle, CreateShare, RevokeB2Share, GetShareBlob, tables,
                  flags, sweeper, history
    <3> QED BY <1>f, <3>1
  <2> QED BY <1>1, <2>2, <2>3, <2>4 DEF Receive
<1>2. ASSUME NEW r \in Requests, RecordBlob(r) \/ DeleteBlobRow(r) \/ RevokeRow(r)
      PROVE  RecordsInv'
  <2>1. PICK s \in Shares, b \in Blobs : s = req[r].share /\ b = req[r].blob
    BY <1>t
  <2>2. \/ blobs' = blobs
        \/ s \in rows /\ (blobs' = [blobs EXCEPT ![s][b] = r] \/ blobs' = [blobs EXCEPT ![s] = NoBlobs])
        \/ blobs' = [blobs EXCEPT ![s][b] = NoReq]
    BY <1>2, <2>1 DEF RecordBlob, DeleteBlobRow, RevokeRow, RowFound
  <2>3. /\ UNCHANGED <<rows, contested, victims, toClear, expired, stale>>
        /\ revoked \subseteq revoked'
    BY <1>2 DEF RecordBlob, DeleteBlobRow, RevokeRow, flags, sweeper, history
  <2>4. [NoBlobs EXCEPT ![b] = NoReq] = NoBlobs
    BY DEF NoBlobs
  <2>5. \A x \in Shares \ rows : blobs'[x] = NoBlobs
    <3> SUFFICES ASSUME NEW x \in Shares \ rows PROVE blobs'[x] = NoBlobs
      OBVIOUS
    <3>1. blobs[x] = NoBlobs
      BY DEF RecordsInv
    <3> QED BY <1>t, <2>2, <2>4, <3>1
  <2> QED BY <2>3, <2>5 DEF RecordsInv
<1>3. ASSUME NEW r \in Requests, Handle(r), ~(RecordBlob(r) \/ DeleteBlobRow(r) \/ RevokeRow(r))
      PROVE  RecordsInv'
  <2>1. UNCHANGED <<blobs, rows, contested, victims, toClear, revoked, expired, stale>>
    BY <1>3 DEF Handle, SetBundleToken, OpenTmp, StreamEnd, StreamFail, RenameTmp, MarkSealed,
                RemoveTmp, DeleteBlobFile, DropHandler, RevokeDir, OpenFile, tables, flags,
                sweeper, history
  <2> QED BY <1>f, <2>1
<1>4. ASSUME NEW s \in Shares, Expire(s) \/ BecomeStale(s) \/ SweepSkip(s) \/ SweepRemove(s)
      PROVE  RecordsInv'
  <2>1. /\ UNCHANGED <<blobs, rows, contested, revoked>>
        /\ victims' \cup toClear' \subseteq victims \cup toClear
        /\ expired \subseteq expired' /\ stale \subseteq stale'
    BY <1>4 DEF Expire, BecomeStale, SweepSkip, SweepRemove, tables, flags, sweeper, history
  <2> QED BY <1>f, <2>1
<1>5. CASE SweepSelect
  BY <1>5 DEF SweepSelect, Purgeable, RecordsInv, tables, flags, history
<1>6. CASE SweepDelete
  BY <1>6, <1>t DEF SweepDelete, RecordsInv, history
<1>7. CASE Crash \/ UNCHANGED vars
  <2>1. /\ UNCHANGED <<blobs, rows, contested, revoked, expired, stale>>
        /\ victims' \cup toClear' \subseteq victims \cup toClear
    BY <1>7 DEF Crash, vars, tables, flags, sweeper, history
  <2> QED BY <1>f, <2>1
<1> QED BY <1>1, <1>2, <1>3, <1>4, <1>5, <1>6, <1>7 DEF Next, Sweep

\* A step of one handler keeps a blob whole when the handler is its only upload, or
\* leaves the blob alone.
LEMMA WholeMove ==
    ASSUME NEW r \in Requests, NEW s, NEW b, WholeAt(s, b),
           \A q \in Requests : q # r => req'[q] = req[q],
           s \in dirs' => s \in dirs,
           Uploading(r, s, b)' => Uploading(r, s, b),
           \/ /\ ~Uploading(r, s, b)
              /\ blobs'[s][b] \in {blobs[s][b], NoReq}
              /\ s \in dirs' => tmp'[s][b] = tmp[s][b] /\ file'[s][b] = file[s][b]
           \/ /\ Uploading(r, s, b)
              /\ Uploading(r, s, b)' =>
                   /\ req'[r].pc # "seal" => blobs'[s][b] = NoReq
                   /\ req'[r].pc \in {"stream", "rename"} /\ s \in dirs' => tmp'[s][b] = {r}
                   /\ req'[r].pc = "record" /\ s \in dirs' => file'[s][b] = {r}
              /\ blobs'[s][b] # NoReq /\ s \in dirs' => file'[s][b] = {blobs'[s][b]}
    PROVE  WholeAt(s, b)'
<1>1. \A q \in Requests : Uploading(q, s, b)' => Uploading(q, s, b)
  BY DEF Uploading, InFlight
<1>2. \A q, p \in Requests : Uploading(q, s, b)' /\ Uploading(p, s, b)' => q = p
  BY <1>1 DEF WholeAt
<1>3. CASE Uploading(r, s, b)
  <2>1. \A q \in Requests : Uploading(q, s, b)' => q = r
    BY <1>1, <1>3 DEF WholeAt
  <2> QED BY <1>2, <1>3, <2>1 DEF WholeAt
<1>4. CASE ~Uploading(r, s, b)
  <2>1. \A q \in Requests : Uploading(q, s, b)' => Uploading(q, s, b) /\ q # r /\ req'[q] = req[q]
    BY <1>1, <1>4
  <2> QED BY <1>2, <1>4, <2>1 DEF WholeAt
<1> QED BY <1>3, <1>4

\* Every step of a handler keeps the blobs whole.
LEMMA WholeHandle ==
    ASSUME TypeOK, StoreInv, RolesInv, TmpInv, RecordsInv, WholeInv,
           NEW r \in Requests, Handle(r)
    PROVE  WholeInv'
<1> SUFFICES ASSUME NEW s \in Shares, NEW b \in Blobs, Current(s)', <<s, b>> \notin contested'
             PROVE  WholeAt(s, b)'
  BY DEF WholeInv
<1>t. /\ blobs \in [Shares -> [Blobs -> Requests \cup {NoReq}]]
      /\ tmp \in [Shares -> [Blobs -> SUBSET Requests]]
      /\ file \in [Shares -> [Blobs -> SUBSET Requests]]
      /\ req[r].share \in Shares /\ req[r].blob \in Blobs
  BY DEF TypeOK, Handlers
<1>0. /\ s \in rows /\ s \notin late /\ <<s, b>> \notin contested /\ WholeAt(s, b)
      /\ (s \in dirs' => s \in dirs)
  <2>1. UNCHANGED <<rows, contested>> /\ late \subseteq late'
    BY DEF Handle, SetBundleToken, OpenTmp, StreamEnd, StreamFail, RenameTmp, RecordBlob, MarkSealed,
           RemoveTmp, DeleteBlobRow, DeleteBlobFile, DropHandler, RevokeRow, RevokeDir, OpenFile,
           tables, history
  <2>2. s \in dirs' => s \in dirs
    BY DEF Handle, SetBundleToken, OpenTmp, OpensTmp, StreamEnd, StreamFail, RenameTmp, RecordBlob,
           MarkSealed, RemoveTmp, DeleteBlobRow, DeleteBlobFile, DropHandler, RevokeRow, RevokeDir,
           RemoveDir, OpenFile, fs
  <2> QED BY <2>1, <2>2 DEF Current, WholeInv
<1>r. RoleAt(r)
  BY DEF RolesInv
<1>m. /\ req'[r].share = req[r].share /\ \A q \in Requests : q # r => req'[q] = req[q]
      /\ InFlight(r)' => req'[r].op = req[r].op /\ req'[r].blob = req[r].blob
      /\ InFlight(r)
  <2>1. \/ Return(r) \/ (\E undo : Fail(r, undo)) \/ \E pc \in Steps : Goto(r, pc)
    BY DEF Handle, SetBundleToken, OpenTmp, StreamEnd, StreamFail, RenameTmp, RecordBlob, MarkSealed,
           RemoveTmp, DeleteBlobRow, DeleteBlobFile, DropHandler, RevokeRow, RevokeDir, OpenFile, Steps
  <2>2. InFlight(r)
    BY DEF Handle, SetBundleToken, OpenTmp, StreamEnd, StreamFail, RenameTmp, RecordBlob, MarkSealed,
           RemoveTmp, DeleteBlobRow, DeleteBlobFile, DropHandler, RevokeRow, RevokeDir, OpenFile, InFlight
  <2>3. InFlight(r)' => req'[r].pc # "done"
    BY DEF InFlight
  <2> QED BY <2>1, <2>2, <2>3, Moves
<1>u. Uploading(r, s, b)' => Uploading(r, s, b)
  BY <1>m DEF Uploading
\* The handler is not an upload of this blob.
<1>1. CASE ~Uploading(r, s, b)
  <2>1. \/ req[r].share # s \/ req[r].blob # b \/ req[r].op \notin UploadOps
    BY <1>1, <1>m DEF Uploading, UploadOps
  <2>2. blobs'[s][b] \in {blobs[s][b], NoReq}
    <3>1. CASE RecordBlob(r) \/ DeleteBlobRow(r)
      <4>1. req[r].op \in UploadOps
        BY <1>r, <3>1 DEF RecordBlob, DeleteBlobRow, RoleAt, InFlight, UploadOps
      <4>2. \/ blobs' = blobs \/ \E v : blobs' = [blobs EXCEPT ![req[r].share][req[r].blob] = v]
        BY <3>1 DEF RecordBlob, DeleteBlobRow
      <4>3. ASSUME NEW v, blobs' = [blobs EXCEPT ![req[r].share][req[r].blob] = v]
            PROVE  blobs'[s][b] = blobs[s][b]
        BY <1>t, <2>1, <4>1, <4>3
      <4> QED BY <4>2, <4>3
    <3>2. CASE RevokeRow(r)
      BY <1>t, <3>2 DEF RevokeRow, NoBlobs
    <3>3. CASE ~(RecordBlob(r) \/ DeleteBlobRow(r) \/ RevokeRow(r))
      BY <3>3 DEF Handle, SetBundleToken, OpenTmp, StreamEnd, StreamFail, RenameTmp, MarkSealed,
                  RemoveTmp, DeleteBlobFile, DropHandler, RevokeDir, OpenFile, tables
    <3> QED BY <3>1, <3>2, <3>3
  <2>3. s \in dirs' => tmp'[s][b] = tmp[s][b] /\ file'[s][b] = file[s][b]
    <3>1. CASE OpenTmp(r) \/ RenameTmp(r) \/ RemoveTmp(r) \/ DeleteBlobFile(r) \/ DropHandler(r)
      <4>1. \/ req[r].op \in UploadOps \/ UNCHANGED <<tmp, file>>
        BY <1>r, <3>1 DEF OpenTmp, RenameTmp, RemoveTmp, DeleteBlobFile, DropHandler, RoleAt,
                          InFlight, UploadOps
      <4>2. /\ tmp' = tmp \/ \E v : tmp' = [tmp EXCEPT ![req[r].share][req[r].blob] = v]
            /\ file' = file \/ \E v : file' = [file EXCEPT ![req[r].share][req[r].blob] = v]
        BY <3>1 DEF OpenTmp, RenameTmp, RemoveTmp, DeleteBlobFile, DropHandler
      <4>3. ASSUME NEW v, tmp' = [tmp EXCEPT ![req[r].share][req[r].blob] = v],
                   req[r].op \in UploadOps
            PROVE  tmp'[s][b] = tmp[s][b]
        BY <1>t, <2>1, <4>3
      <4>4. ASSUME NEW v, file' = [file EXCEPT ![req[r].share][req[r].blob] = v],
                   req[r].op \in UploadOps
            PROVE  file'[s][b] = file[s][b]
        BY <1>t, <2>1, <4>4
      <4> QED BY <4>1, <4>2, <4>3, <4>4
    <3>2. CASE RevokeDir(r)
      BY <1>t, <3>2 DEF RevokeDir, RemoveDir, fs
    <3>3. CASE ~(OpenTmp(r) \/ RenameTmp(r) \/ RemoveTmp(r) \/ DeleteBlobFile(r) \/ DropHandler(r)
                 \/ RevokeDir(r))
      BY <3>3 DEF Handle, SetBundleToken, StreamEnd, StreamFail, RecordBlob, MarkSealed,
                  DeleteBlobRow, RevokeRow, OpenFile, fs
    <3> QED BY <3>1, <3>2, <3>3
  <2> QED BY <1>0, <1>1, <1>m, <1>u, <2>2, <2>3, WholeMove
\* The handler is the only upload of this blob.
<1>2. CASE Uploading(r, s, b)
  <2>0. /\ req[r].share = s /\ req[r].blob = b /\ req[r].op \in UploadOps
        /\ req[r].pc # "seal" => blobs[s][b] = NoReq
        /\ req[r].pc \in {"stream", "rename"} /\ s \in dirs => tmp[s][b] = {r}
        /\ req[r].pc = "record" /\ s \in dirs => file[s][b] = {r}
        /\ blobs[s][b] # NoReq /\ s \in dirs => file[s][b] = {blobs[s][b]}
        /\ \A q \in Requests : Uploading(q, s, b) => q = r
    BY <1>0, <1>2 DEF WholeAt, Uploading, UploadOps
  <2> SUFFICES /\ Uploading(r, s, b)' =>
                    /\ req'[r].pc # "seal" => blobs'[s][b] = NoReq
                    /\ req'[r].pc \in {"stream", "rename"} /\ s \in dirs' => tmp'[s][b] = {r}
                    /\ req'[r].pc = "record" /\ s \in dirs' => file'[s][b] = {r}
               /\ blobs'[s][b] # NoReq /\ s \in dirs' => file'[s][b] = {blobs'[s][b]}
    BY <1>0, <1>2, <1>m, <1>u, WholeMove
  <2>1. CASE SetBundleToken(r) \/ OpenFile(r)
    BY <1>r, <2>0, <2>1 DEF SetBundleToken, OpenFile, RoleAt, InFlight, UploadOps
  <2>2. CASE OpenTmp(r)
    <3>1. blobs' = blobs /\ req[r].pc = "open"
      BY <2>2 DEF OpenTmp, tables
    <3>2. CASE OpensTmp(s)
      <4>1. req'[r].pc = "stream" /\ tmp' = [tmp EXCEPT ![s][b] = TmpOpened(r, tmp[s][b])]
        BY <2>0, <2>2, <3>2, Moves DEF OpenTmp, Steps
      <4>2. TmpOpened(r, tmp[s][b]) = {r}
        <5>1. ASSUME NEW q \in tmp[s][b], req[q].pc = "stream" PROVE FALSE
          <6>1. q \in Requests /\ req[q].share = s /\ req[q].blob = b
            BY <1>t, <5>1 DEF TmpInv
          <6>2. Uploading(q, s, b)
            BY <5>1, <6>1 DEF RolesInv, RoleAt, Uploading, InFlight, UploadOps
          <6> QED BY <2>0, <3>1, <5>1, <6>1, <6>2
        <5> QED BY <5>1 DEF TmpOpened
      <4> QED BY <1>t, <2>0, <3>1, <4>1, <4>2
    <3>3. CASE ~OpensTmp(s)
      <4>1. req'[r].pc = "cleanup"
        BY <2>0, <2>2, <3>3, Moves DEF OpenTmp
      <4> QED BY <2>0, <3>1, <4>1
    <3> QED BY <3>2, <3>3
  <2>3. CASE StreamEnd(r)
    <3>1. UNCHANGED <<blobs, tmp, dirs>> /\ req[r].pc = "stream" /\ req'[r].pc = "rename"
      BY <2>3, Moves DEF StreamEnd, Steps, tables, fs
    <3> QED BY <2>0, <3>1
  <2>4. ASSUME NEW undo \in BOOLEAN, StreamFail(r, undo)
        PROVE  blobs'[s][b] = NoReq /\ req'[r].pc = "cleanup"
    BY <2>0, <2>4, Moves DEF StreamFail, tables
  <2>5. CASE RenameTmp(r)
    <3>1. UNCHANGED <<blobs, dirs>> /\ req[r].pc = "rename"
      BY <2>5 DEF RenameTmp, tables
    <3>2. \/ req'[r].pc = "cleanup"
          \/ req'[r].pc = "record" /\ s \in dirs /\ file' = [file EXCEPT ![s][b] = tmp[s][b]]
      BY <2>0, <2>5, Moves DEF RenameTmp, Steps
    <3> QED BY <1>t, <2>0, <3>1, <3>2
  <2>6. CASE RecordBlob(r)
    <3>1. /\ blobs' = [blobs EXCEPT ![s][b] = r] /\ req'[r].pc \in {"seal", "done"}
          /\ UNCHANGED <<file, dirs>> /\ req[r].pc = "record"
      BY <1>0, <2>0, <2>6, Moves DEF RecordBlob, RowFound, Steps, fs
    <3>2. blobs'[s][b] = r
      BY <1>t, <3>1
    <3> QED BY <2>0, <3>1, <3>2 DEF Uploading, InFlight
  <2>7. CASE MarkSealed(r)
    <3>1. req'[r].pc = "done" /\ UNCHANGED <<blobs, file, dirs>>
      BY <1>0, <2>0, <2>7, Moves DEF MarkSealed, RowFound, fs
    <3> QED BY <2>0, <3>1 DEF Uploading, InFlight
  <2>8. CASE RemoveTmp(r) \/ DeleteBlobFile(r) \/ DropHandler(r) \/ RevokeDir(r)
    <3>1. blobs' = blobs /\ req[r].pc # "seal" /\ req'[r].pc \in {"revoke", "unrecord", "done"}
      BY <2>8, Moves DEF RemoveTmp, DeleteBlobFile, DropHandler, RevokeDir, Steps, tables
    <3> QED BY <2>0, <3>1
  <2>9. CASE DeleteBlobRow(r) \/ RevokeRow(r)
    <3>1. \/ blobs' = [blobs EXCEPT ![s][b] = NoReq] \/ blobs' = [blobs EXCEPT ![s] = NoBlobs]
          \/ blobs' = blobs
      BY <2>0, <2>9 DEF DeleteBlobRow, RevokeRow
    <3>2. req[r].pc # "seal" /\ req'[r].pc \in {"unlink", "rmdir", "done"}
      BY <2>9, Moves DEF DeleteBlobRow, RevokeRow, Steps
    <3>3. blobs'[s][b] = NoReq
      BY <1>t, <2>0, <3>1, <3>2 DEF NoBlobs
    <3> QED BY <3>2, <3>3
  <2> QED BY <2>1, <2>2, <2>3, <2>4, <2>5, <2>6, <2>7, <2>8, <2>9 DEF Handle
<1> QED BY <1>1, <1>2

\* A new request finds no upload of its blob, or contests it.
LEMMA WholeReceive ==
    ASSUME TypeOK, RecordsInv, WholeInv, NEW r \in Requests, NEW t \in Shares, Receive(r, t)
    PROVE  WholeInv'
<1> SUFFICES ASSUME NEW s \in Shares, NEW b \in Blobs, Current(s)', <<s, b>> \notin contested'
             PROVE  WholeAt(s, b)'
  BY DEF WholeInv
<1>1. PICK op, c, pc : Begin(r, op, t, c, pc)
  BY DEF Receive, UploadB2Share, InitBundle, UploadBundleBlob, SealBundle, BeginUpload,
         RevokeB2Share, GetShareBlob
<1>m. /\ req[r].pc = "idle" /\ req'[r].op = op /\ req'[r].share = t
      /\ req'[r].blob = c /\ req'[r].pc = pc
      /\ \A q \in Requests : q # r => req'[q] = req[q]
  BY <1>1, Moves
<1>n. ~InFlight(r) /\ ~Uploading(r, s, b)
  BY <1>m DEF Uploading, InFlight
<1>f. UNCHANGED <<blobs, tmp, file>> /\ blobs \in [Shares -> [Blobs -> Requests \cup {NoReq}]]
  BY DEF Receive, UploadB2Share, InitBundle, CreateShare, UploadBundleBlob, SealBundle, BeginUpload,
         RevokeB2Share, GetShareBlob, tables, fs, TypeOK
\* The share is known, and the request does not upload this blob.
<1>k. ASSUME Current(s), <<s, b>> \notin contested, s \in dirs' => s \in dirs, ~Uploading(r, s, b)'
      PROVE  WholeAt(s, b)'
  <2>1. WholeAt(s, b)
    BY <1>k DEF WholeInv
  <2> QED BY <1>f, <1>k, <1>m, <1>n, <2>1, WholeMove
\* Nobody uploads this blob yet, and it is not recorded.
<1>z. ASSUME blobs[s][b] = NoReq, \A q \in Requests : ~Uploading(q, s, b),
             Uploading(r, s, b)' => req'[r].pc = "open"
      PROVE  WholeAt(s, b)'
  <2>1. \A q \in Requests : Uploading(q, s, b)' => q = r
    BY <1>m, <1>z DEF Uploading, InFlight
  <2> QED BY <1>f, <1>z, <2>1 DEF WholeAt
<1>2. ASSUME NEW made \in BOOLEAN, UploadB2Share(r, t, made) \/ InitBundle(r, t, made)
      PROVE  WholeAt(s, b)'
  <2>1. CreateShare(r, t, made)
    BY <1>2 DEF UploadB2Share, InitBundle
  <2>2. CASE s = t
    <3>1. s \notin rows /\ \A q \in Requests : ~(InFlight(q) /\ req[q].share = s)
      BY <2>1, <2>2 DEF CreateShare, Current
    <3>2. blobs[s][b] = NoReq
      BY <3>1 DEF RecordsInv, NoBlobs
    <3>3. Uploading(r, s, b)' => req'[r].pc = "open"
      <4>1. \/ Begin(r, "file", t, "main", "open") \/ Begin(r, "file", t, "main", "done")
            \/ Begin(r, "init", t, "main", "token") \/ Begin(r, "init", t, "main", "done")
        BY <1>2 DEF UploadB2Share, InitBundle
      <4>2. \/ req'[r].pc \in {"open", "done"} \/ req'[r].op = "init"
        BY <4>1, Moves
      <4> QED BY <4>2 DEF Uploading, InFlight
    <3> QED BY <1>z, <3>1, <3>2, <3>3 DEF Uploading
  <2>3. CASE s # t
    <3>1. Current(s) /\ <<s, b>> \notin contested /\ (s \in dirs' => s \in dirs)
      BY <2>1, <2>3 DEF CreateShare, Current
    <3> QED BY <1>k, <1>m, <2>3, <3>1 DEF Uploading
  <2> QED BY <2>2, <2>3
<1>3. ASSUME NEW x \in Blobs, NEW o, BeginUpload(r, o, t, x)
      PROVE  WholeAt(s, b)'
  <2>1. UNCHANGED <<rows, late, dirs>> /\ contested \subseteq contested'
    BY <1>3 DEF BeginUpload, tables, fs
  <2>2. req'[r].blob = x /\ req'[r].pc = "open"
    BY <1>3, Moves DEF BeginUpload
  <2>3. CASE s = t /\ b = x
    <3>1. blobs[s][b] = NoReq /\ \A q \in Requests : ~Uploading(q, s, b)
      BY <1>3, <2>3 DEF BeginUpload
    <3> QED BY <1>z, <2>2, <3>1
  <2>4. CASE s # t \/ b # x
    BY <1>k, <1>m, <2>1, <2>2, <2>4 DEF Current, Uploading
  <2> QED BY <2>3, <2>4
<1>4. ASSUME RevokeB2Share(r, t) \/ \E x \in Blobs : GetShareBlob(r, t, x)
      PROVE  WholeAt(s, b)'
  <2>1. req'[r].op \in {"revoke", "get"}
    BY <1>4, Moves DEF RevokeB2Share, GetShareBlob
  <2>2. UNCHANGED <<rows, late, dirs, contested>>
    BY <1>4 DEF RevokeB2Share, GetShareBlob, tables, fs, history
  <2> QED BY <1>k, <2>1, <2>2 DEF Current, Uploading
<1> QED BY <1>2, <1>3, <1>4 DEF Receive, UploadBundleBlob, SealBundle, Blobs

\* Every step keeps the blobs whole.
LEMMA WholeStep ==
    TypeOK /\ StoreInv /\ RolesInv /\ TmpInv /\ RecordsInv /\ WholeInv /\ [Next]_vars => WholeInv'
<1> SUFFICES ASSUME TypeOK, StoreInv, RolesInv, TmpInv, RecordsInv, WholeInv, [Next]_vars
             PROVE  WholeInv'
  OBVIOUS
<1>t. /\ tmp \in [Shares -> [Blobs -> SUBSET Requests]]
      /\ file \in [Shares -> [Blobs -> SUBSET Requests]]
  BY DEF TypeOK
<1>1. ASSUME UNCHANGED <<req, late, contested>>, rows' \subseteq rows, dirs' \subseteq dirs,
             \A s \in rows' : blobs'[s] = blobs[s],
             \A s \in dirs' : tmp'[s] = tmp[s] /\ file'[s] = file[s]
      PROVE  WholeInv'
  <2> SUFFICES ASSUME NEW s \in Shares, NEW b \in Blobs, Current(s)', <<s, b>> \notin contested'
               PROVE  WholeAt(s, b)'
    BY DEF WholeInv
  <2>1. WholeAt(s, b) /\ blobs'[s] = blobs[s]
    BY <1>1 DEF WholeInv, Current
  <2> QED BY <1>1, <2>1 DEF WholeAt, Uploading, InFlight
<1>2. ASSUME NEW s \in Shares, Expire(s) \/ BecomeStale(s) \/ Sweep(s) PROVE WholeInv'
  <2>1. /\ UNCHANGED <<req, late, contested, rows, blobs>> /\ dirs' \subseteq dirs
        /\ \/ tmp' = tmp /\ file' = file
           \/ /\ s \notin dirs'
              /\ tmp' = [tmp EXCEPT ![s] = NoFiles] /\ file' = [file EXCEPT ![s] = NoFiles]
    BY <1>2 DEF Expire, BecomeStale, Sweep, SweepRemove, SweepSkip, RemoveDir, tables, fs, history
  <2>2. \A x \in dirs' : tmp'[x] = tmp[x] /\ file'[x] = file[x]
    BY <1>t, <2>1 DEF TypeOK
  <2> QED BY <1>1, <2>1, <2>2
<1>3. CASE SweepSelect \/ UNCHANGED vars
  BY <1>1, <1>3 DEF SweepSelect, vars, tables, fs, history
<1>4. CASE SweepDelete
  BY <1>1, <1>4 DEF SweepDelete, TypeOK, fs, history
<1>5. CASE Crash
  <2> SUFFICES ASSUME NEW s \in Shares, NEW b \in Blobs, Current(s)', <<s, b>> \notin contested'
               PROVE  WholeAt(s, b)'
    BY DEF WholeInv
  <2>1. UNCHANGED <<rows, late, contested, blobs, dirs, file>>
    BY <1>5 DEF Crash, tables, fs, history
  <2>2. \A q \in Requests : ~Uploading(q, s, b)'
    BY <1>5, CrashEnds DEF Uploading
  <2>3. WholeAt(s, b)
    BY <2>1 DEF WholeInv, Current
  <2> QED BY <2>1, <2>2, <2>3 DEF WholeAt
<1> QED BY <1>2, <1>3, <1>4, <1>5, WholeHandle, WholeReceive DEF Next

\* A step of one handler that stays what it is, or leaves the share.
LEMMA KindMove ==
    ASSUME NEW r \in Requests, NEW s, \A q \in Requests : KindAt(s, q),
           \A q \in Requests : q # r => req'[q] = req[q],
           s \in bundles' <=> s \in bundles,
           s \in published' => s \in published \/ \A q \in Requests : ~Serves(q, s, {"file"})',
           s \in bundleToken' \cup sealed' =>
             s \in bundleToken \cup sealed \/ \A q \in Requests : ~Serves(q, s, {"init"})',
           s \in revoked => s \in revoked',
           InFlight(r)' /\ req'[r].share = s =>
             /\ InFlight(r) /\ req[r].share = s /\ req'[r].op = req[r].op
             /\ req[r].op = "init" => req'[r].pc = "token"
             /\ req[r].op = "seal" => req'[r].pc \notin {"unrecord", "unlink"}
             /\ req'[r].pc = "rmdir" => s \in revoked'
    PROVE  \A q \in Requests : KindAt(s, q)'
<1>1. \A q \in Requests : \A ops : Serves(q, s, ops)' => Serves(q, s, ops)
  BY DEF Serves, InFlight
<1> SUFFICES ASSUME NEW q \in Requests PROVE KindAt(s, q)'
  OBVIOUS
<1>2. Serves(q, s, {"file"})' => s \notin bundles' \cup published'
  BY <1>1 DEF KindAt
<1>3. Serves(q, s, {"blob", "seal", "init"})' => s \in bundles'
  BY <1>1 DEF KindAt
<1>4. Serves(q, s, {"init"})' =>
        /\ req'[q].pc = "token" /\ s \notin bundleToken' \cup sealed'
        /\ \A p \in Requests : Serves(p, s, CreateOps)' => p = q
  <2> SUFFICES ASSUME Serves(q, s, {"init"})'
               PROVE  /\ req'[q].pc = "token" /\ s \notin bundleToken' \cup sealed'
                      /\ \A p \in Requests : Serves(p, s, CreateOps)' => p = q
    OBVIOUS
  <2>1. /\ Serves(q, s, {"init"}) /\ req[q].pc = "token" /\ s \notin bundleToken \cup sealed
        /\ \A p \in Requests : Serves(p, s, CreateOps) => p = q
    BY <1>1 DEF KindAt
  <2>2. req'[q].pc = "token"
    BY <2>1 DEF Serves
  <2> QED BY <1>1, <2>1, <2>2
<1>5. Serves(q, s, {"seal"})' => req'[q].pc \notin {"unrecord", "unlink"}
  BY <1>1 DEF KindAt, Serves
<1>6. Serves(q, s, Ops)' /\ req'[q].pc = "rmdir" => s \in revoked'
  BY <1>1 DEF KindAt, Serves
<1> QED BY <1>2, <1>3, <1>4, <1>5, <1>6 DEF KindAt, Serves

\* Every step of a handler keeps the kinds.
LEMMA KindHandle ==
    ASSUME TypeOK, RolesInv, RecordsInv, WholeInv, KindInv, NEW r \in Requests, Handle(r)
    PROVE  KindInv'
<1> SUFFICES ASSUME NEW s \in Shares, Current(s)'
             PROVE  \A q \in Requests : KindAt(s, q)'
  BY DEF KindInv
<1>0. s \in rows /\ s \notin late /\ \A q \in Requests : KindAt(s, q)
  <2>1. UNCHANGED rows /\ late \subseteq late'
    BY DEF Handle, SetBundleToken, OpenTmp, StreamEnd, StreamFail, RenameTmp, RecordBlob, MarkSealed,
           RemoveTmp, DeleteBlobRow, DeleteBlobFile, DropHandler, RevokeRow, RevokeDir, OpenFile,
           tables, history
  <2> QED BY <2>1 DEF Current, KindInv
<1>r. RoleAt(r) /\ InFlight(r) /\ KindAt(s, r)
  <2>1. InFlight(r)
    BY DEF Handle, SetBundleToken, OpenTmp, StreamEnd, StreamFail, RenameTmp, RecordBlob, MarkSealed,
           RemoveTmp, DeleteBlobRow, DeleteBlobFile, DropHandler, RevokeRow, RevokeDir, OpenFile, InFlight
  <2> QED BY <1>0, <2>1 DEF RolesInv
<1>k. req[r].share = s =>
        /\ req[r].op = "init" => req[r].pc = "token" /\ s \notin bundleToken \cup sealed
        /\ req[r].op = "seal" => req[r].pc \notin {"unrecord", "unlink"} /\ s \in bundles
        /\ req[r].pc = "rmdir" => s \in revoked
  BY <1>r DEF KindAt, Serves, RoleAt, Ops
<1>m. /\ req'[r].share = req[r].share /\ \A q \in Requests : q # r => req'[q] = req[q]
      /\ InFlight(r)' => req'[r].op = req[r].op
  <2>1. \/ Return(r) \/ (\E undo : Fail(r, undo)) \/ \E pc \in Steps : Goto(r, pc)
    BY DEF Handle, SetBundleToken, OpenTmp, StreamEnd, StreamFail, RenameTmp, RecordBlob, MarkSealed,
           RemoveTmp, DeleteBlobRow, DeleteBlobFile, DropHandler, RevokeRow, RevokeDir, OpenFile, Steps
  <2>2. InFlight(r)' => req'[r].pc # "done"
    BY DEF InFlight
  <2> QED BY <2>1, <2>2, Moves
\* Where the handler goes.
<1>p. InFlight(r)' /\ req[r].share = s =>
        /\ req[r].op = "init" => req'[r].pc = "token"
        /\ req[r].op = "seal" => req'[r].pc \notin {"unrecord", "unlink"}
        /\ req'[r].pc = "rmdir" => s \in revoked'
  <2> SUFFICES ASSUME InFlight(r)', req[r].share = s
               PROVE  /\ req[r].op = "init" => req'[r].pc = "token"
                      /\ req[r].op = "seal" => req'[r].pc \notin {"unrecord", "unlink"}
                      /\ req'[r].pc = "rmdir" => s \in revoked'
    OBVIOUS
  <2>0. req'[r].pc # "done"
    BY DEF InFlight
  <2>1. CASE SetBundleToken(r)
    <3>1. req[r].op = "init"
      BY <1>r, <2>1 DEF SetBundleToken, RoleAt, InFlight
    <3>2. Return(r)
      BY <1>0, <1>k, <2>1, <3>1 DEF SetBundleToken, RowFound
    <3> QED BY <2>0, <3>2, Moves
  <2>2. CASE OpenTmp(r) \/ StreamEnd(r) \/ (\E undo \in BOOLEAN : StreamFail(r, undo)) \/ RenameTmp(r)
    <3>1. req[r].op \in UploadOps
      BY <1>r, <2>2 DEF OpenTmp, StreamEnd, StreamFail, RenameTmp, RoleAt, InFlight
    <3>2. req'[r].pc \in {"stream", "rename", "record", "cleanup"}
      BY <2>2, Moves DEF OpenTmp, StreamEnd, StreamFail, RenameTmp, Steps
    <3> QED BY <3>1, <3>2 DEF UploadOps
  <2>3. CASE RecordBlob(r) \/ MarkSealed(r)
    <3>1. req[r].op \in UploadOps
      BY <1>r, <2>3 DEF RecordBlob, MarkSealed, RoleAt, InFlight, UploadOps
    <3>2. req'[r].pc \in {"seal", "done"}
      BY <1>0, <2>3, Moves DEF RecordBlob, MarkSealed, RowFound, Steps
    <3> QED BY <3>1, <3>2 DEF UploadOps
  <2>4. CASE RemoveTmp(r)
    <3>1. req[r].op \in UploadOps /\ (req[r].op = "seal" => ~req[r].undo)
      BY <1>r, <2>4 DEF RemoveTmp, RoleAt, InFlight
    <3>2. req[r].op = "seal" => Return(r)
      BY <2>4, <3>1 DEF RemoveTmp
    <3>3. Return(r) \/ Goto(r, "revoke") \/ Goto(r, "unrecord")
      BY <2>4 DEF RemoveTmp
    <3>4. req'[r].pc \in {"revoke", "unrecord"} /\ req[r].op # "seal"
      BY <2>0, <3>2, <3>3, Moves DEF Steps
    <3> QED BY <3>1, <3>4 DEF UploadOps
  <2>5. CASE DeleteBlobRow(r)
    <3>1. req[r].op \in {"blob", "seal"} /\ req'[r].pc = "unlink" /\ req[r].pc = "unrecord"
      BY <1>r, <2>5, Moves DEF DeleteBlobRow, RoleAt, InFlight, Steps
    <3> QED BY <1>k, <3>1
  <2>6. CASE DeleteBlobFile(r) \/ DropHandler(r) \/ RevokeDir(r) \/ OpenFile(r)
    BY <2>0, <2>6, Moves DEF DeleteBlobFile, DropHandler, RevokeDir, OpenFile
  <2>7. CASE RevokeRow(r)
    <3>1. req[r].pc = "revoke" /\ req[r].op \in {"file", "init", "revoke"}
      BY <1>r, <2>7 DEF RevokeRow, RoleAt, InFlight
    <3>2. s \in revoked' /\ req[r].op # "init"
      BY <1>0, <1>k, <2>7, <3>1 DEF RevokeRow, RowFound
    <3> QED BY <3>1, <3>2
  <2> QED BY <2>1, <2>2, <2>3, <2>4, <2>5, <2>6, <2>7 DEF Handle
<1>v. bundles' = bundles /\ revoked \subseteq revoked'
  BY DEF Handle, SetBundleToken, OpenTmp, StreamEnd, StreamFail, RenameTmp, RecordBlob, MarkSealed,
         RemoveTmp, DeleteBlobRow, DeleteBlobFile, DropHandler, RevokeRow, RevokeDir, OpenFile,
         tables, flags
<1>w. s \in bundleToken' \cup sealed' =>
        s \in bundleToken \cup sealed \/ \A q \in Requests : ~Serves(q, s, {"init"})'
  <2>1. CASE SetBundleToken(r) /\ req[r].share = s
    <3>1. req[r].op = "init"
      BY <1>r, <2>1 DEF SetBundleToken, RoleAt, InFlight
    <3>2. \A q \in Requests : Serves(q, s, CreateOps) => q = r
      BY <1>r, <2>1, <3>1 DEF KindAt, Serves
    <3>3. ~InFlight(r)'
      <4>1. Return(r)
        BY <1>0, <1>k, <2>1, <3>1 DEF SetBundleToken, RowFound
      <4> QED BY <4>1, Moves DEF InFlight
    <3>4. \A q \in Requests : ~Serves(q, s, {"init"})'
      BY <1>m, <3>2, <3>3 DEF Serves, InFlight, CreateOps
    <3> QED BY <3>4
  <2>2. CASE MarkSealed(r) /\ req[r].share = s
    <3>1. req[r].op \in {"file", "seal"}
      BY <1>r, <2>2 DEF MarkSealed, RoleAt, InFlight
    <3>2. Serves(r, s, CreateOps)
      BY <1>r, <2>2, <3>1 DEF Serves, CreateOps, UploadOps
    <3>3. ASSUME NEW q \in Requests, Serves(q, s, {"init"})' PROVE FALSE
      <4>1. q # r /\ Serves(q, s, {"init"})
        BY <1>m, <3>1, <3>3 DEF Serves, InFlight
      <4> QED BY <1>0, <3>2, <4>1 DEF KindAt
    <3> QED BY <3>3
  <2>3. CASE ~((SetBundleToken(r) \/ MarkSealed(r)) /\ req[r].share = s)
    <3>1. CASE SetBundleToken(r) \/ MarkSealed(r)
      <4>1. /\ SetBundleToken(r) => UNCHANGED sealed /\ bundleToken' \subseteq bundleToken \cup {req[r].share}
            /\ MarkSealed(r) => bundleToken' \subseteq bundleToken /\ sealed' \subseteq sealed \cup {req[r].share}
        BY DEF SetBundleToken, MarkSealed
      <4> QED BY <2>3, <3>1, <4>1
    <3>2. CASE ~(SetBundleToken(r) \/ MarkSealed(r))
      <4>1. UNCHANGED <<bundleToken, sealed>>
        <5>1. CASE OpenTmp(r) \/ StreamEnd(r) \/ (\E undo \in BOOLEAN : StreamFail(r, undo))
          BY <5>1 DEF OpenTmp, StreamEnd, StreamFail, tables, flags
        <5>2. CASE RenameTmp(r) \/ RecordBlob(r) \/ RemoveTmp(r)
          BY <5>2 DEF RenameTmp, RecordBlob, RemoveTmp, tables, flags
        <5>3. CASE DeleteBlobRow(r) \/ DeleteBlobFile(r) \/ DropHandler(r)
          BY <5>3 DEF DeleteBlobRow, DeleteBlobFile, DropHandler, tables, flags
        <5>4. CASE RevokeRow(r) \/ RevokeDir(r) \/ OpenFile(r)
          BY <5>4 DEF RevokeRow, RevokeDir, OpenFile, tables, flags
        <5> QED BY <3>2, <5>1, <5>2, <5>3, <5>4 DEF Handle
      <4> QED BY <4>1
    <3> QED BY <3>1, <3>2
  <2> QED BY <2>1, <2>2, <2>3
<1>x. s \in published' => s \in published \/ \A q \in Requests : ~Serves(q, s, {"file"})'
  <2>1. CASE MarkSealed(r) /\ req[r].share = s
    <3>1. ASSUME NEW q \in Requests, Serves(q, s, {"file"})' PROVE FALSE
      <4>1. q # r
        <5>1. req'[r].pc = "done"
          BY <1>0, <2>1, Moves DEF MarkSealed, RowFound
        <5> QED BY <3>1, <5>1 DEF Serves, InFlight
      <4>2. Serves(q, s, {"file"}) /\ req[r].op \in {"file", "seal"}
        BY <1>m, <1>r, <2>1, <3>1, <4>1 DEF Serves, InFlight, MarkSealed, RoleAt
      <4>3. s \notin bundles
        BY <1>0, <4>2 DEF KindAt
      <4>4. req[r].op = "file"
        BY <1>k, <2>1, <4>2, <4>3
      <4>5. Uploading(q, s, "main") /\ Uploading(r, s, "main")
        <5>1. req[q].blob = "main" /\ req[r].blob = "main"
          BY <1>r, <4>2, <4>4 DEF RolesInv, RoleAt, Serves
        <5> QED BY <1>r, <2>1, <4>2, <4>4, <5>1 DEF Uploading, Serves
      <4>6. WholeAt(s, "main")
        BY <1>0 DEF WholeInv, RecordsInv, Current, Blobs
      <4> QED BY <4>1, <4>5, <4>6 DEF WholeAt
    <3> QED BY <3>1
  <2>2. CASE ~(MarkSealed(r) /\ req[r].share = s)
    <3>1. s \in published' => s \in published
      BY <2>2 DEF Handle, SetBundleToken, OpenTmp, StreamEnd, StreamFail, RenameTmp, RecordBlob,
                  MarkSealed, RemoveTmp, DeleteBlobRow, DeleteBlobFile, DropHandler, RevokeRow,
                  RevokeDir, OpenFile, history
    <3> QED BY <3>1
  <2> QED BY <2>1, <2>2
<1> QED BY <1>0, <1>m, <1>p, <1>r, <1>v, <1>w, <1>x, KindMove

\* A new request is of the kind of its share.
LEMMA KindReceive ==
    ASSUME TypeOK, KindInv, NEW r \in Requests, NEW t \in Shares, Receive(r, t)
    PROVE  KindInv'
<1> SUFFICES ASSUME NEW s \in Shares, Current(s)'
             PROVE  \A q \in Requests : KindAt(s, q)'
  BY DEF KindInv
<1>m. req[r].pc = "idle" /\ req'[r].share = t /\ \A q \in Requests : q # r => req'[q] = req[q]
  <2>1. \E op, c, pc : Begin(r, op, t, c, pc)
    BY DEF Receive, UploadB2Share, InitBundle, UploadBundleBlob, SealBundle, BeginUpload,
           RevokeB2Share, GetShareBlob
  <2> QED BY <2>1, Moves
<1>f. UNCHANGED <<bundleToken, sealed, revoked>>
  BY DEF Receive, UploadB2Share, InitBundle, CreateShare, UploadBundleBlob, SealBundle, BeginUpload,
         RevokeB2Share, GetShareBlob, tables, flags
\* Another share.
<1>o. CASE s # t
  <2>1. /\ s \in rows' => s \in rows
        /\ s \in late => s \in late'
        /\ s \in bundles' <=> s \in bundles
        /\ s \in published' => s \in published
    BY <1>o DEF Receive, UploadB2Share, InitBundle, CreateShare, UploadBundleBlob, SealBundle, BeginUpload,
           RevokeB2Share, GetShareBlob, tables, history
  <2>2. \A q \in Requests : KindAt(s, q)
    BY <2>1 DEF KindInv, Current
  <2> QED BY <1>f, <1>m, <1>o, <2>1, <2>2, KindMove
<1>2. ASSUME NEW made \in BOOLEAN, UploadB2Share(r, t, made) \/ InitBundle(r, t, made), s = t
      PROVE  \A q \in Requests : KindAt(s, q)'
  <2>1. /\ s \notin rows /\ s \notin published' /\ s \notin late'
        /\ \A q \in Requests : ~(InFlight(q) /\ req[q].share = s)
    BY <1>2 DEF UploadB2Share, InitBundle, CreateShare, Current
  <2>2. \A q \in Requests : InFlight(q)' /\ req'[q].share = s => q = r
    BY <1>m, <2>1 DEF InFlight
  <2>3. s \notin bundleToken' /\ s \notin sealed'
    BY <1>f, <2>1 DEF TypeOK
  <2>4. CASE UploadB2Share(r, t, made)
    <3>1. req'[r].op = "file" /\ req'[r].pc # "rmdir"
      BY <2>4, Moves DEF UploadB2Share
    <3>2. s \notin bundles'
      BY <2>1, <2>4 DEF UploadB2Share, TypeOK
    <3> QED BY <2>1, <2>2, <3>1, <3>2 DEF KindAt, Serves
  <2>5. CASE InitBundle(r, t, made)
    <3>1. req'[r].op = "init" /\ req'[r].pc \in {"token", "done"}
      BY <2>5, Moves DEF InitBundle
    <3>2. s \in bundles'
      BY <1>2, <2>5 DEF InitBundle
    <3> QED BY <2>2, <2>3, <3>1, <3>2 DEF KindAt, Serves, InFlight
  <2> QED BY <1>2, <2>4, <2>5
<1>3. ASSUME NEW x, NEW o \in {"blob", "seal"}, BeginUpload(r, o, t, x), s = t
      PROVE  \A q \in Requests : KindAt(s, q)'
  <2>1. /\ UNCHANGED <<rows, late, bundles, published>> /\ s \in bundles /\ s \in bundleToken
        /\ req'[r].op = o /\ req'[r].pc = "open"
    BY <1>3, Moves DEF BeginUpload, VerifyBundleToken, tables
  <2>2. \A q \in Requests : KindAt(s, q)
    BY <2>1 DEF KindInv, Current
  <2>3. \A q \in Requests : ~Serves(q, s, {"init"})
    BY <2>1, <2>2 DEF KindAt
  <2>4. \A q \in Requests : q # r => (\A ops : Serves(q, s, ops)' <=> Serves(q, s, ops)) /\ req'[q] = req[q]
    BY <1>m DEF Serves, InFlight
  <2>5. \A q \in Requests : ~Serves(q, s, {"init"})'
    BY <2>1, <2>3, <2>4 DEF Serves
  <2> SUFFICES ASSUME NEW q \in Requests PROVE KindAt(s, q)'
    OBVIOUS
  <2>6. CASE q = r
    BY <2>1, <2>5, <2>6 DEF KindAt, Serves
  <2>7. CASE q # r
    BY <1>f, <2>1, <2>2, <2>4, <2>5, <2>7 DEF KindAt
  <2> QED BY <2>6, <2>7
<1>4. ASSUME RevokeB2Share(r, t) \/ \E x \in Blobs : GetShareBlob(r, t, x), s = t
      PROVE  \A q \in Requests : KindAt(s, q)'
  <2>1. req'[r].op \in {"revoke", "get"} /\ req'[r].pc \in {"revoke", "get"}
    BY <1>4, Moves DEF RevokeB2Share, GetShareBlob
  <2>2. UNCHANGED <<rows, late, bundles>> /\ published' \subseteq published
    BY <1>4 DEF RevokeB2Share, GetShareBlob, tables, history
  <2>3. \A q \in Requests : KindAt(s, q)
    BY <2>2 DEF KindInv, Current
  <2>4. \A q \in Requests : q # r => (\A ops : Serves(q, s, ops)' <=> Serves(q, s, ops)) /\ req'[q] = req[q]
    BY <1>m DEF Serves, InFlight
  <2> SUFFICES ASSUME NEW q \in Requests PROVE KindAt(s, q)'
    OBVIOUS
  <2>5. CASE q = r
    BY <2>1, <2>5 DEF KindAt, Serves
  <2>6. CASE q # r
    <3>1. ~Serves(r, s, CreateOps)'
      BY <2>1 DEF Serves, CreateOps, UploadOps
    <3>2. \A p \in Requests : Serves(p, s, CreateOps)' => Serves(p, s, CreateOps)
      BY <2>4, <3>1
    <3> QED BY <1>f, <2>2, <2>3, <2>4, <2>6, <3>2 DEF KindAt
  <2> QED BY <2>5, <2>6
<1> QED BY <1>2, <1>3, <1>4, <1>o DEF Receive, UploadBundleBlob, SealBundle

\* Every step keeps the kinds.
LEMMA KindStep ==
    TypeOK /\ RolesInv /\ RecordsInv /\ WholeInv /\ KindInv /\ [Next]_vars => KindInv'
<1> SUFFICES ASSUME TypeOK, RolesInv, RecordsInv, WholeInv, KindInv, [Next]_vars
             PROVE  KindInv'
  OBVIOUS
<1>1. ASSUME UNCHANGED <<req, late>>, rows' \subseteq rows, published' \subseteq published,
             \A s \in rows' : /\ s \in bundles' <=> s \in bundles
                              /\ s \in bundleToken' <=> s \in bundleToken
                              /\ s \in sealed' <=> s \in sealed
                              /\ s \in revoked' <=> s \in revoked
      PROVE  KindInv'
  <2> SUFFICES ASSUME NEW s \in Shares, NEW q \in Requests, Current(s)' PROVE KindAt(s, q)'
    BY DEF KindInv
  <2>1. KindAt(s, q) /\ s \in rows'
    BY <1>1 DEF KindInv, Current
  <2>2. \A p \in Requests : \A ops : Serves(p, s, ops)' <=> Serves(p, s, ops)
    BY <1>1 DEF Serves, InFlight
  <2> QED BY <1>1, <2>1, <2>2 DEF KindAt
<1>2. ASSUME NEW s \in Shares, Expire(s) \/ BecomeStale(s) \/ Sweep(s) PROVE KindInv'
  BY <1>1, <1>2 DEF Expire, BecomeStale, Sweep, SweepRemove, SweepSkip, tables, flags, history
<1>3. CASE SweepSelect \/ UNCHANGED vars
  BY <1>1, <1>3 DEF SweepSelect, vars, tables, flags, history
<1>4. CASE SweepDelete
  BY <1>1, <1>4 DEF SweepDelete, history
<1>5. CASE Crash
  <2>1. \A q \in Requests : ~InFlight(q)'
    BY <1>5, CrashEnds
  <2> QED BY <2>1 DEF KindInv, KindAt, Serves
<1> QED BY <1>2, <1>3, <1>4, <1>5, KindHandle, KindReceive DEF Next

\* No handler takes away the directory or the last blob of a share that is not revoked.
LEMMA PlaceHandle ==
    ASSUME TypeOK, RolesInv, KindInv, PlaceInv, NEW r \in Requests, Handle(r)
    PROVE  PlaceInv'
<1> SUFFICES ASSUME NEW s \in Shares, Current(s)', s \notin revoked'
             PROVE  HomeAt(s)' /\ LastAt(s)'
  BY DEF PlaceInv
<1>0. /\ s \notin revoked /\ s \in rows /\ HomeAt(s) /\ LastAt(s) /\ UNCHANGED <<expired, stale>>
      /\ \A q \in Requests : KindAt(s, q)
  <2>1. UNCHANGED <<rows, expired, stale>> /\ late \subseteq late' /\ revoked \subseteq revoked'
    BY DEF Handle, SetBundleToken, OpenTmp, StreamEnd, StreamFail, RenameTmp, RecordBlob, MarkSealed,
           RemoveTmp, DeleteBlobRow, DeleteBlobFile, DropHandler, RevokeRow, RevokeDir, OpenFile,
           tables, flags, history
  <2> QED BY <2>1 DEF Current, KindInv, PlaceInv
<1>r. RoleAt(r) /\ InFlight(r) /\ req[r].op \in Ops /\ req[r].share \in Shares /\ req[r].blob \in Blobs
  <2>1. InFlight(r)
    BY DEF Handle, SetBundleToken, OpenTmp, StreamEnd, StreamFail, RenameTmp, RecordBlob, MarkSealed,
           RemoveTmp, DeleteBlobRow, DeleteBlobFile, DropHandler, RevokeRow, RevokeDir, OpenFile, InFlight
  <2>2. req[r] \in Handlers
    BY DEF TypeOK
  <2> QED BY <2>1, <2>2 DEF RolesInv, Handlers
<1>m. /\ req'[r].share = req[r].share /\ \A q \in Requests : q # r => req'[q] = req[q]
      /\ InFlight(r)' => req'[r].op = req[r].op /\ req'[r].blob = req[r].blob
  <2>1. \/ Return(r) \/ (\E undo : Fail(r, undo)) \/ \E pc \in Steps : Goto(r, pc)
    BY DEF Handle, SetBundleToken, OpenTmp, StreamEnd, StreamFail, RenameTmp, RecordBlob, MarkSealed,
           RemoveTmp, DeleteBlobRow, DeleteBlobFile, DropHandler, RevokeRow, RevokeDir, OpenFile, Steps
  <2>2. InFlight(r)' => req'[r].pc # "done"
    BY DEF InFlight
  <2> QED BY <2>1, <2>2, Moves
<1>d. s \in dirs' <=> s \in dirs
  <2>1. CASE RevokeDir(r)
    <3>1. req[r].share # s
      BY <1>0, <1>r, <2>1 DEF RevokeDir, KindAt, Serves
    <3> QED BY <2>1, <3>1 DEF RevokeDir, RemoveDir, fs
  <2>2. CASE ~RevokeDir(r)
    BY <2>2 DEF Handle, SetBundleToken, OpenTmp, StreamEnd, StreamFail, RenameTmp, RecordBlob, MarkSealed,
           RemoveTmp, DeleteBlobRow, DeleteBlobFile, DropHandler, RevokeRow, OpenFile, OpensTmp, fs
  <2> QED BY <2>1, <2>2
<1>s. \A q \in Requests : \A ops : Serves(q, s, ops)' => Serves(q, s, ops)
  BY <1>m, <1>r DEF Serves, InFlight
<1>h. HomeAt(s)'
  <2>1. s \in bundleToken' => s \in bundleToken \/ Serves(r, s, CreateOps)
    <3>1. CASE SetBundleToken(r)
      <4>1. req[r].op = "init"
        BY <1>r, <3>1 DEF SetBundleToken, RoleAt
      <4> QED BY <1>r, <3>1, <4>1 DEF SetBundleToken, Serves, CreateOps
    <3>2. CASE ~SetBundleToken(r)
      BY <3>2 DEF Handle, OpenTmp, StreamEnd, StreamFail, RenameTmp, RecordBlob, MarkSealed,
             RemoveTmp, DeleteBlobRow, DeleteBlobFile, DropHandler, RevokeRow, RevokeDir, OpenFile,
             tables, flags
    <3> QED BY <3>1, <3>2
  <2> QED BY <1>0, <1>d, <1>s, <2>1 DEF HomeAt
<1>l. LastAt(s)'
  <2> SUFFICES ASSUME NEW q \in Requests, Serves(q, s, {"file", "seal"})',
                      req'[q].pc \in {"record", "seal"}, s \in dirs'
               PROVE  file'[s][req'[q].blob] # {}
    BY DEF LastAt
  <2>0. Serves(q, s, {"file", "seal"}) /\ s \in dirs /\ req'[q].blob = req[q].blob
    BY <1>d, <1>m, <1>s DEF Serves
  <2>b. PICK b \in {"main", "_manifest"} : b = req[q].blob
    BY <2>0 DEF RolesInv, RoleAt, Serves
  <2>f. b \in Blobs /\ file[s] \in [Blobs -> SUBSET Requests] /\ file \in [Shares -> [Blobs -> SUBSET Requests]]
    BY DEF Blobs, TypeOK
  <2>1. CASE RenameTmp(r) \/ DropHandler(r)
    <3>1. file'[s][b] = file[s][b] \/ file'[s][b] # {}
      <4>0. PICK t \in Shares, c \in Blobs : t = req[r].share /\ c = req[r].blob
        BY <1>r
      <4>1. PICK v : t = req[r].share /\ c = req[r].blob /\ v = tmp[t][c]
        BY <4>0
      <4>2. file' = file \/ (v # {} /\ file' = [file EXCEPT ![t][c] = v])
        BY <2>1, <4>1 DEF RenameTmp, DropHandler
      <4> QED BY <2>f, <4>2
    <3>2. req[q].pc \in {"record", "seal"} \/ file'[s][b] # {}
      <4>1. CASE q # r
        BY <1>m, <4>1
      <4>2. CASE q = r
        <5>1. req'[r].pc \in {"record", "done", "cleanup"}
          BY <2>1, Moves DEF RenameTmp, DropHandler, Steps
        <5>2. req'[r].pc = "record"
          BY <4>2, <5>1
        <5>3. ~Return(r) /\ ~Fail(r, req[r].op = "file")
          BY <5>2, Moves
        <5>0. PICK t \in Shares, c \in Blobs : t = req[r].share /\ c = req[r].blob
          BY <1>r
        <5>4. PICK v : t = req[r].share /\ c = req[r].blob /\ v = tmp[t][c]
          BY <5>0
        <5>5. v # {} /\ file' = [file EXCEPT ![t][c] = v]
          BY <2>1, <5>3, <5>4 DEF RenameTmp, DropHandler
        <5>6. t = s /\ c = b
          BY <2>0, <2>b, <4>2, <5>4 DEF Serves
        <5> QED BY <2>f, <5>5, <5>6
      <4> QED BY <4>1, <4>2
    <3> QED BY <1>0, <2>0, <2>b, <3>1, <3>2 DEF LastAt
  <2>2. CASE ~(RenameTmp(r) \/ DropHandler(r))
    <3>1. req[q].pc \in {"record", "seal"}
      <4>1. CASE q # r
        BY <1>m, <4>1
      <4>2. CASE q = r
        <5>1. CASE RecordBlob(r)
          BY <4>2, <5>1 DEF RecordBlob
        <5>2. CASE ~RecordBlob(r)
          <6>1. \/ Return(r) \/ (\E undo : Fail(r, undo))
                \/ \E pc \in Steps \ {"record", "seal"} : Goto(r, pc)
            BY <2>2, <5>2 DEF Handle, SetBundleToken, OpenTmp, StreamEnd, StreamFail, MarkSealed,
               RemoveTmp, DeleteBlobRow, DeleteBlobFile, RevokeRow, RevokeDir, OpenFile, Steps
          <6>2. req'[r].pc \notin {"record", "seal"}
            BY <6>1, Moves
          <6> QED BY <4>2, <6>2
        <5> QED BY <5>1, <5>2
      <4> QED BY <4>1, <4>2
    <3>2. file'[s][b] = file[s][b]
      <4>1. CASE DeleteBlobFile(r)
        <5>1. req[r].op \in {"blob", "seal"} /\ req[r].pc = "unlink"
          BY <1>r, <4>1 DEF DeleteBlobFile, RoleAt
        <5>2. req[r].share = s => req[r].op # "seal"
          BY <1>0, <1>r, <5>1 DEF KindAt, Serves
        <5>3. req[r].share # s \/ req[r].blob # b
          BY <1>r, <5>1, <5>2, BlobIdsAssumption DEF RoleAt
        <5>4. PICK t \in Shares, c \in Blobs : t = req[r].share /\ c = req[r].blob
          BY <1>r
        <5>5. file' = [file EXCEPT ![t][c] = {}]
          BY <4>1, <5>4 DEF DeleteBlobFile
        <5> QED BY <2>f, <5>3, <5>4, <5>5
      <4>2. CASE RevokeDir(r)
        <5>1. req[r].share # s
          BY <1>0, <1>r, <4>2 DEF RevokeDir, KindAt, Serves
        <5> QED BY <2>f, <4>2, <5>1 DEF RevokeDir, RemoveDir, fs
      <4>3. CASE ~(DeleteBlobFile(r) \/ RevokeDir(r))
        BY <2>2, <4>3 DEF Handle, SetBundleToken, OpenTmp, StreamEnd, StreamFail, RecordBlob,
           MarkSealed, RemoveTmp, DeleteBlobRow, RevokeRow, OpenFile, fs
      <4> QED BY <4>1, <4>2, <4>3
    <3> QED BY <1>0, <2>0, <2>b, <3>1, <3>2 DEF LastAt
  <2> QED BY <2>1, <2>2
<1> QED BY <1>h, <1>l

\* A new request finds the directory.
LEMMA PlaceReceive ==
    ASSUME TypeOK, PlaceInv, NEW r \in Requests, NEW t \in Shares, Receive(r, t)
    PROVE  PlaceInv'
<1> SUFFICES ASSUME NEW s \in Shares, Current(s)', s \notin revoked'
             PROVE  HomeAt(s)' /\ LastAt(s)'
  BY DEF PlaceInv
<1>m. req[r].pc = "idle" /\ req'[r].share = t /\ \A q \in Requests : q # r => req'[q] = req[q]
  <2>1. \E op, c, pc : Begin(r, op, t, c, pc)
    BY DEF Receive, UploadB2Share, InitBundle, UploadBundleBlob, SealBundle, BeginUpload,
           RevokeB2Share, GetShareBlob
  <2> QED BY <2>1, Moves
<1>f. UNCHANGED <<bundleToken, revoked, expired, stale, file>>
  BY DEF Receive, UploadB2Share, InitBundle, CreateShare, UploadBundleBlob, SealBundle, BeginUpload,
         RevokeB2Share, GetShareBlob, tables, flags, fs
<1>g. ASSUME s \in dirs' <=> s \in dirs, Current(s),
             /\ Serves(r, s, CreateOps)' => s \in dirs
             /\ Serves(r, s, {"file", "seal"})' => req'[r].pc \notin {"record", "seal"}
      PROVE  HomeAt(s)' /\ LastAt(s)'
  <2>1. HomeAt(s) /\ LastAt(s)
    BY <1>f, <1>g DEF PlaceInv
  <2>2. \A q \in Requests : q # r => (\A ops : Serves(q, s, ops)' <=> Serves(q, s, ops)) /\ req'[q] = req[q]
    BY <1>m DEF Serves, InFlight
  <2>3. HomeAt(s)'
    BY <1>f, <1>g, <2>1, <2>2 DEF HomeAt
  <2>4. LastAt(s)'
    BY <1>f, <1>g, <2>1, <2>2 DEF LastAt
  <2> QED BY <2>3, <2>4
<1>1. CASE s # t
  <2>1. /\ s \in rows' => s \in rows
        /\ s \in late => s \in late'
        /\ s \in dirs' <=> s \in dirs
    BY <1>1 DEF Receive, UploadB2Share, InitBundle, CreateShare, UploadBundleBlob, SealBundle, BeginUpload,
           RevokeB2Share, GetShareBlob, tables, history, fs
  <2>2. \A ops : ~Serves(r, s, ops)'
    BY <1>1, <1>m DEF Serves
  <2> QED BY <1>g, <2>1, <2>2 DEF Current
<1>2. ASSUME NEW made \in BOOLEAN, UploadB2Share(r, t, made) \/ InitBundle(r, t, made), s = t
      PROVE  HomeAt(s)' /\ LastAt(s)'
  <2>1. s \notin rows /\ \A q \in Requests : ~(InFlight(q) /\ req[q].share = s)
    BY <1>2 DEF UploadB2Share, InitBundle, CreateShare, Current
  <2>2. \A q \in Requests : InFlight(q)' /\ req'[q].share = s => q = r
    BY <1>m, <2>1 DEF InFlight
  <2>3. s \notin bundleToken'
    BY <1>f, <2>1 DEF TypeOK
  <2>4. InFlight(r)' => s \in dirs' /\ req'[r].pc \in {"open", "token"}
    <3>1. made => s \in dirs'
      BY <1>2 DEF UploadB2Share, InitBundle, CreateShare
    <3>2. req'[r].pc \in {"open", "token", "done"} /\ (~made => req'[r].pc = "done")
      BY <1>2, Moves DEF UploadB2Share, InitBundle
    <3> QED BY <3>1, <3>2 DEF InFlight
  <2> QED BY <2>2, <2>3, <2>4 DEF HomeAt, LastAt, Serves
<1>3. ASSUME NEW x, NEW o \in {"blob", "seal"}, BeginUpload(r, o, t, x), s = t
      PROVE  HomeAt(s)' /\ LastAt(s)'
  <2>1. /\ UNCHANGED <<rows, late, dirs>> /\ s \in bundleToken /\ s \notin expired \cup stale \cup revoked
        /\ req'[r].pc = "open"
    BY <1>3, Moves DEF BeginUpload, VerifyBundleToken, tables, fs
  <2>2. s \in dirs
    BY <2>1 DEF PlaceInv, HomeAt, Current
  <2> QED BY <1>g, <2>1, <2>2 DEF Current
<1>4. ASSUME RevokeB2Share(r, t) \/ \E x \in Blobs : GetShareBlob(r, t, x), s = t
      PROVE  HomeAt(s)' /\ LastAt(s)'
  <2>1. UNCHANGED <<rows, late, dirs>> /\ req'[r].op \in {"revoke", "get"}
    BY <1>4, Moves DEF RevokeB2Share, GetShareBlob, tables, fs, history
  <2> QED BY <1>g, <2>1 DEF Current, Serves, CreateOps, UploadOps
<1> QED BY <1>1, <1>2, <1>3, <1>4 DEF Receive, UploadBundleBlob, SealBundle

\* Every step keeps the place of what is being filled.
LEMMA PlaceStep ==
    TypeOK /\ RolesInv /\ RecordsInv /\ KindInv /\ PlaceInv /\ [Next]_vars => PlaceInv'
<1> SUFFICES ASSUME TypeOK, RolesInv, RecordsInv, KindInv, PlaceInv, [Next]_vars
             PROVE  PlaceInv'
  OBVIOUS
<1>1. ASSUME UNCHANGED <<req, late>>, rows' \subseteq rows,
             \A s \in rows' : /\ s \in bundleToken' <=> s \in bundleToken
                              /\ s \in revoked' <=> s \in revoked
                              /\ s \in expired \cup stale => s \in expired' \cup stale'
                              /\ \/ (s \in dirs' <=> s \in dirs) /\ file'[s] = file[s]
                                 \/ s \notin dirs' /\ s \in revoked \cup expired \cup stale
      PROVE  PlaceInv'
  <2> SUFFICES ASSUME NEW s \in Shares, Current(s)', s \notin revoked' PROVE HomeAt(s)' /\ LastAt(s)'
    BY DEF PlaceInv
  <2>1. HomeAt(s) /\ LastAt(s) /\ s \in rows'
    BY <1>1 DEF PlaceInv, Current
  <2>2. \A p \in Requests : \A ops : Serves(p, s, ops)' <=> Serves(p, s, ops)
    BY <1>1 DEF Serves, InFlight
  <2>3. HomeAt(s)'
    BY <1>1, <2>1, <2>2 DEF HomeAt
  <2>4. LastAt(s)'
    BY <1>1, <2>1, <2>2 DEF LastAt
  <2> QED BY <2>3, <2>4
<1>2. ASSUME NEW s \in Shares, Expire(s) \/ BecomeStale(s) \/ SweepSkip(s) PROVE PlaceInv'
  BY <1>1, <1>2 DEF Expire, BecomeStale, SweepSkip, tables, flags, fs, history
<1>3. ASSUME NEW s \in Shares, SweepRemove(s) PROVE PlaceInv'
  <2>1. s \in revoked \cup expired \cup stale
    BY <1>3 DEF SweepRemove, RecordsInv
  <2>2. dirs' = dirs \ {s} /\ \A t \in Shares : t # s => file'[t] = file[t]
    BY <1>3 DEF SweepRemove, RemoveDir, TypeOK
  <2>3. UNCHANGED <<req, late, rows, bundleToken, revoked, expired, stale>>
    BY <1>3 DEF SweepRemove, tables, flags, history
  <2> QED BY <1>1, <2>1, <2>2, <2>3 DEF TypeOK
<1>4. CASE SweepSelect \/ UNCHANGED vars
  BY <1>1, <1>4 DEF SweepSelect, vars, tables, flags, fs, history
<1>5. CASE SweepDelete
  BY <1>1, <1>5 DEF SweepDelete, fs, history
<1>6. CASE Crash
  <2>1. \A q \in Requests : ~InFlight(q)'
    BY <1>6, CrashEnds
  <2> QED BY <1>6, <2>1 DEF Crash, PlaceInv, HomeAt, LastAt, Serves, Current, tables, flags, fs, history
<1> QED BY <1>2, <1>3, <1>4, <1>5, <1>6, PlaceHandle, PlaceReceive DEF Next, Sweep
-----------------------------------------------------------------------------
\* No handler takes a published share back, and a share is published complete.
LEMMA ServedHandle ==
    ASSUME TypeOK, RolesInv, KindInv, PlaceInv, ServedInv, NEW r \in Requests, Handle(r)
    PROVE  ServedInv'
<1> SUFFICES ASSUME NEW s \in published' \ late' PROVE ServedAt(s)'
  BY DEF ServedInv
<1>v. /\ UNCHANGED <<rows, bundles, expired, stale>> /\ late \subseteq late' /\ sealed \subseteq sealed'
      /\ InFlight(r) /\ s \notin late
  BY DEF Handle, SetBundleToken, OpenTmp, StreamEnd, StreamFail, RenameTmp, RecordBlob, MarkSealed,
         RemoveTmp, DeleteBlobRow, DeleteBlobFile, DropHandler, RevokeRow, RevokeDir, OpenFile,
         tables, flags, history, InFlight
<1>r. /\ RoleAt(r) /\ req[r].op \in Ops /\ req[r].share \in Shares /\ req[r].blob \in Blobs
      /\ file \in [Shares -> [Blobs -> SUBSET Requests]]
  <2>1. req[r] \in Handlers /\ file \in [Shares -> [Blobs -> SUBSET Requests]]
    BY DEF TypeOK
  <2> QED BY <2>1 DEF RolesInv, Handlers
<1>m. /\ req'[r].share = req[r].share /\ \A q \in Requests : q # r => req'[q] = req[q]
      /\ InFlight(r)' => req'[r].op = req[r].op
  <2>1. \/ Return(r) \/ (\E undo : Fail(r, undo)) \/ \E pc \in Steps : Goto(r, pc)
    BY DEF Handle, SetBundleToken, OpenTmp, StreamEnd, StreamFail, RenameTmp, RecordBlob, MarkSealed,
           RemoveTmp, DeleteBlobRow, DeleteBlobFile, DropHandler, RevokeRow, RevokeDir, OpenFile, Steps
  <2>2. InFlight(r)' => req'[r].pc # "done"
    BY DEF InFlight
  <2> QED BY <2>1, <2>2, Moves
<1>s. \A q \in Requests : Serves(q, s, {"revoke"})' => Serves(q, s, {"revoke"})
  BY <1>m, <1>v DEF Serves, InFlight
<1>1. CASE s \in published
  <2>1. ServedAt(s) /\ s \in Shares /\ Current(s) /\ KindAt(s, r)
    <3>1. ServedAt(s) /\ s \in Shares
      BY <1>1, <1>v DEF ServedInv, TypeOK
    <3>2. Current(s)
      BY <1>v, <3>1 DEF ServedAt, Current
    <3> QED BY <3>1, <3>2 DEF KindInv
  <2>2. PICK b \in {"main", "_manifest"} : b = IF s \in bundles THEN "_manifest" ELSE "main"
    OBVIOUS
  <2>b. b \in Blobs /\ file[s] \in [Blobs -> SUBSET Requests] /\ file[s][b] # {}
    BY <1>r, <2>1, <2>2 DEF Blobs, ServedAt
  <2>3. s \notin revoked'
    <3>1. CASE RevokeRow(r) /\ req[r].share = s
      <4>1. req[r].pc = "revoke" /\ req[r].op \in {"file", "init", "revoke"}
        BY <1>r, <1>v, <3>1 DEF RevokeRow, RoleAt
      <4>2. req[r].op # "revoke"
        BY <1>v, <2>1, <3>1 DEF ServedAt, Serves
      <4>3. req[r].op # "file" /\ req[r].op # "init"
        BY <1>1, <1>v, <2>1, <3>1, <4>1 DEF KindAt, Serves
      <4> QED BY <4>1, <4>2, <4>3
    <3>2. CASE ~(RevokeRow(r) /\ req[r].share = s)
      <4>1. s \in revoked' => s \in revoked
        BY <3>2 DEF Handle, SetBundleToken, OpenTmp, StreamEnd, StreamFail, RenameTmp, RecordBlob,
           MarkSealed, RemoveTmp, DeleteBlobRow, DeleteBlobFile, DropHandler, RevokeRow, RevokeDir,
           OpenFile, tables, flags
      <4> QED BY <2>1, <4>1 DEF ServedAt
    <3> QED BY <3>1, <3>2
  <2>4. RevokeDir(r) => req[r].share # s
    BY <1>r, <1>v, <2>1 DEF RevokeDir, KindAt, Serves, ServedAt
  <2>5. s \in dirs'
    <3>1. s \in dirs
      BY <2>1 DEF ServedAt
    <3> QED BY <2>4, <3>1
      DEF Handle, SetBundleToken, OpenTmp, StreamEnd, StreamFail, RenameTmp, RecordBlob, MarkSealed,
          RemoveTmp, DeleteBlobRow, DeleteBlobFile, DropHandler, RevokeRow, RevokeDir, RemoveDir,
          OpenFile, fs
  <2>6. file'[s][b] # {}
    <3>z. PICK t \in Shares, c \in Blobs : t = req[r].share /\ c = req[r].blob
      BY <1>r
    <3>0. PICK v : t = req[r].share /\ c = req[r].blob /\ v = tmp[t][c]
      BY <3>z
    <3>1. CASE RenameTmp(r) \/ DropHandler(r)
      <4>1. file' = file \/ (v # {} /\ file' = [file EXCEPT ![t][c] = v])
        BY <3>0, <3>1 DEF RenameTmp, DropHandler
      <4> QED BY <1>r, <2>1, <2>b, <4>1
    <3>2. CASE DeleteBlobFile(r)
      <4>1. req[r].op \in {"blob", "seal"} /\ req[r].pc = "unlink"
        BY <1>r, <1>v, <3>2 DEF DeleteBlobFile, RoleAt
      <4>2. req[r].share = s => req[r].op # "seal"
        BY <1>v, <2>1, <4>1 DEF KindAt, Serves
      <4>3. t # s \/ c # b
        BY <1>r, <1>v, <3>0, <4>1, <4>2, BlobIdsAssumption DEF RoleAt
      <4>4. file' = [file EXCEPT ![t][c] = {}]
        BY <3>0, <3>2 DEF DeleteBlobFile
      <4> QED BY <1>r, <2>b, <4>3, <4>4
    <3>3. CASE RevokeDir(r)
      BY <1>r, <2>1, <2>b, <2>4, <3>3 DEF RevokeDir, RemoveDir, fs
    <3>4. CASE ~(RenameTmp(r) \/ DropHandler(r) \/ DeleteBlobFile(r) \/ RevokeDir(r))
      BY <2>b, <3>4 DEF Handle, SetBundleToken, OpenTmp, StreamEnd, StreamFail, RecordBlob,
         MarkSealed, RemoveTmp, DeleteBlobRow, RevokeRow, OpenFile, fs
    <3> QED BY <3>1, <3>2, <3>3, <3>4
  <2> QED BY <1>s, <1>v, <2>1, <2>2, <2>3, <2>5, <2>6 DEF ServedAt
<1>2. CASE s \notin published
  <2>1. /\ MarkSealed(r) /\ s = req[r].share /\ s \in rows /\ ~Leaving(s) /\ s \notin stale
        /\ s \in sealed' /\ UNCHANGED <<revoked, dirs, file>>
    <3>1. MarkSealed(r)
      BY <1>2 DEF Handle, SetBundleToken, OpenTmp, StreamEnd, StreamFail, RenameTmp, RecordBlob,
         RemoveTmp, DeleteBlobRow, DeleteBlobFile, DropHandler, RevokeRow, RevokeDir, OpenFile, history
    <3> QED BY <1>2, <3>1 DEF MarkSealed, RowFound, fs
  <2>2. s \in Shares /\ Current(s) /\ s \notin revoked \cup expired /\ \A q \in Requests : KindAt(s, q)
    BY <1>r, <1>v, <2>1 DEF Current, KindInv, Leaving
  <2>3. req[r].pc = "seal" /\ req[r].op \in {"file", "seal"} /\ Serves(r, s, {"file", "seal"})
    BY <1>r, <1>v, <2>1 DEF MarkSealed, RoleAt, Serves
  <2>4. HomeAt(s) /\ LastAt(s) /\ Serves(r, s, CreateOps)
    BY <2>2, <2>3 DEF PlaceInv, Serves, CreateOps, UploadOps
  <2>5. s \in dirs /\ file[s][req[r].blob] # {}
    BY <2>1, <2>2, <2>3, <2>4 DEF HomeAt, LastAt
  <2>6. req[r].blob = IF s \in bundles THEN "_manifest" ELSE "main"
    BY <1>r, <1>v, <2>2, <2>3 DEF RoleAt, KindAt, Serves
  <2>7. \A q \in Requests : ~Serves(q, s, {"revoke"})
    BY <2>1 DEF Leaving, Serves
  <2> QED BY <1>s, <1>v, <2>1, <2>2, <2>5, <2>6, <2>7 DEF ServedAt
<1> QED BY <1>1, <1>2

\* Every step keeps what is published.
LEMMA ServedStep ==
    TypeOK /\ RolesInv /\ RecordsInv /\ KindInv /\ PlaceInv /\ ServedInv /\ [Next]_vars => ServedInv'
<1> SUFFICES ASSUME TypeOK, RolesInv, RecordsInv, KindInv, PlaceInv, ServedInv, [Next]_vars
             PROVE  ServedInv'
  OBVIOUS
<1>g. ASSUME \A s \in published' \ late' :
                /\ s \in published \ late
                /\ s \in rows => s \in rows'
                /\ s \in dirs => s \in dirs'
                /\ s \in sealed => s \in sealed'
                /\ s \in revoked' => s \in revoked
                /\ s \in expired' => s \in expired
                /\ s \in stale' => s \in stale
                /\ s \in bundles' <=> s \in bundles
                /\ file'[s] = file[s]
                /\ \A q \in Requests : Serves(q, s, {"revoke"})' => Serves(q, s, {"revoke"})
      PROVE  ServedInv'
  <2> SUFFICES ASSUME NEW s \in published' \ late' PROVE ServedAt(s)'
    BY DEF ServedInv
  <2>1. ServedAt(s)
    BY <1>g DEF ServedInv
  <2> QED BY <1>g, <2>1 DEF ServedAt
<1>n. req' = req => \A q \in Requests : \A s : Serves(q, s, {"revoke"})' <=> Serves(q, s, {"revoke"})
  BY DEF Serves, InFlight
<1>t. ASSUME NEW s \in Shares, NEW q \in Requests, NEW r \in Requests,
             \E op, c, pc : Begin(r, op, s, c, pc), req'[r].op # "revoke", NEW u,
             Serves(q, u, {"revoke"})'
      PROVE  Serves(q, u, {"revoke"})
  <2>1. \A p \in Requests : p # r => req'[p] = req[p]
    BY <1>t, Moves
  <2> QED BY <1>t, <2>1 DEF Serves, InFlight
<1>1. ASSUME NEW r \in Requests, NEW t \in Shares, Receive(r, t) PROVE ServedInv'
  <2>1. ASSUME NEW made \in BOOLEAN, UploadB2Share(r, t, made) \/ InitBundle(r, t, made) PROVE ServedInv'
    <3>1. (\E op, c, pc : Begin(r, op, t, c, pc)) /\ req'[r].op # "revoke"
      BY <2>1, Moves DEF UploadB2Share, InitBundle
    <3>2. \A s \in published' \ late' : s # t /\ s \in published \ late
      BY <2>1 DEF UploadB2Share, InitBundle, CreateShare
    <3>3. /\ UNCHANGED <<sealed, revoked, expired, stale, file>>
          /\ rows \subseteq rows' /\ dirs \subseteq dirs'
          /\ \A s : s # t => (s \in bundles' <=> s \in bundles)
      BY <2>1 DEF UploadB2Share, InitBundle, CreateShare, flags
    <3> QED BY <1>g, <1>t, <3>1, <3>2, <3>3
  <2>2. ASSUME NEW x, NEW o \in {"blob", "seal"}, BeginUpload(r, o, t, x) PROVE ServedInv'
    <3>1. (\E op, c, pc : Begin(r, op, t, c, pc)) /\ req'[r].op # "revoke"
      BY <2>2, Moves DEF BeginUpload
    <3>2. UNCHANGED <<published, late, tables, fs>>
      BY <2>2 DEF BeginUpload
    <3> QED BY <1>g, <1>t, <3>1, <3>2 DEF tables, flags, fs
  <2>3. ASSUME NEW b \in Blobs, GetShareBlob(r, t, b) PROVE ServedInv'
    <3>1. (\E op, c, pc : Begin(r, op, t, c, pc)) /\ req'[r].op # "revoke"
      BY <2>3, Moves DEF GetShareBlob
    <3>2. UNCHANGED <<published, late, tables, fs>>
      BY <2>3 DEF GetShareBlob, history
    <3> QED BY <1>g, <1>t, <3>1, <3>2 DEF tables, flags, fs
  <2>4. CASE RevokeB2Share(r, t)
    <3>1. /\ req[r].pc = "idle" /\ req'[r].share = t
          /\ \A p \in Requests : p # r => req'[p] = req[p]
      BY <2>4, Moves DEF RevokeB2Share
    <3>2. published' = published \ {t} /\ UNCHANGED <<late, tables, fs>>
      BY <2>4 DEF RevokeB2Share
    <3>3. \A s \in published', q \in Requests : Serves(q, s, {"revoke"})' => Serves(q, s, {"revoke"})
      BY <3>1, <3>2 DEF Serves, InFlight
    <3> QED BY <1>g, <3>2, <3>3 DEF tables, flags, fs
  <2> QED BY <1>1, <2>1, <2>2, <2>3, <2>4 DEF Receive, UploadBundleBlob, SealBundle
<1>2. ASSUME NEW s \in Shares, Expire(s) PROVE ServedInv'
  <2>1. published' = published \ {s} /\ expired' = expired \cup {s}
        /\ UNCHANGED <<rows, dirs, sealed, revoked, stale, bundles, file, req, late>>
    BY <1>2 DEF Expire, fs
  <2> QED BY <1>g, <1>n, <2>1
<1>3. ASSUME NEW s \in Shares, BecomeStale(s) PROVE ServedInv'
  <2>1. /\ stale' = stale \cup {s} /\ s \notin sealed
        /\ UNCHANGED <<rows, dirs, sealed, revoked, expired, bundles, file, req, published, late>>
    BY <1>3 DEF BecomeStale, fs, history
  <2>2. \A t \in published \ late : t # s
    BY <2>1 DEF ServedInv, ServedAt
  <2> QED BY <1>g, <1>n, <2>1, <2>2
<1>4. ASSUME NEW s \in Shares, SweepSkip(s) PROVE ServedInv'
  <2>1. UNCHANGED <<tables, fs, req, published, late>>
    BY <1>4 DEF SweepSkip, history
  <2> QED BY <1>g, <1>n, <2>1 DEF tables, flags, fs
<1>5. ASSUME NEW s \in Shares, SweepRemove(s) PROVE ServedInv'
  <2>1. UNCHANGED <<tables, req, published, late>> /\ RemoveDir(s)
    BY <1>5 DEF SweepRemove, history
  <2>2. s \in revoked \cup expired \cup stale
    BY <1>5 DEF SweepRemove, RecordsInv
  <2>3. \A t \in published \ late : t # s
    BY <2>2 DEF ServedInv, ServedAt
  <2>4. \A t \in Shares : t # s => file'[t] = file[t]
    BY <2>1 DEF RemoveDir, TypeOK
  <2> QED BY <1>g, <1>n, <2>1, <2>3, <2>4 DEF tables, flags, RemoveDir, TypeOK
<1>6. CASE SweepSelect \/ UNCHANGED vars
  <2>1. UNCHANGED <<tables, fs, req, published, late>>
    BY <1>6 DEF SweepSelect, vars, history
  <2> QED BY <1>g, <1>n, <2>1 DEF tables, flags, fs
<1>7. CASE SweepDelete
  <2>1. /\ UNCHANGED <<fs, req, published, late>> /\ rows' = rows \ toClear
        /\ sealed' = sealed \ toClear /\ bundles' = bundles \ toClear
        /\ revoked' \subseteq revoked /\ expired' \subseteq expired /\ stale' \subseteq stale
    BY <1>7 DEF SweepDelete, history
  <2>2. \A t \in published \ late : t \notin toClear
    BY DEF RecordsInv, ServedInv, ServedAt
  <2> QED BY <1>g, <1>n, <2>1, <2>2 DEF fs
<1>8. CASE Crash
  <2>1. \A q \in Requests : \A s : ~Serves(q, s, {"revoke"})'
    BY <1>8, CrashEnds DEF Serves
  <2>2. UNCHANGED <<tables, fs, published, late>>
    BY <1>8 DEF Crash, history
  <2> QED BY <1>g, <2>1, <2>2 DEF tables, flags, fs
<1> QED BY <1>1, <1>2, <1>3, <1>4, <1>5, <1>6, <1>7, <1>8, ServedHandle DEF Next, Sweep
-----------------------------------------------------------------------------
\* The invariant of the uploads holds in every reachable state.
LEMMA UploadInvariant == Spec => []UploadInv
<1>1. Init => UploadInv
  <2> SUFFICES ASSUME Init PROVE UploadInv
    OBVIOUS
  <2>1. \A q \in Requests : ~InFlight(q)
    BY DEF Init, InFlight
  <2>2. RolesInv
    BY <2>1 DEF RolesInv, RoleAt
  <2>3. \A s \in Shares, b \in Blobs : tmp[s][b] = {} /\ blobs[s][b] = NoReq
    BY DEF Init, NoFiles, NoBlobs
  <2>4. TmpInv
    BY <2>3 DEF TmpInv
  <2>5. RecordsInv
    BY DEF RecordsInv, Init
  <2>6. WholeInv /\ KindInv /\ PlaceInv /\ ServedInv
    BY DEF Init, WholeInv, KindInv, PlaceInv, ServedInv, Current
  <2> QED BY <2>2, <2>4, <2>5, <2>6 DEF UploadInv
<1>2. TypeOK /\ StoreInv /\ UploadInv /\ [Next]_vars => UploadInv'
  BY RolesStep, TmpStep, RecordsStep, WholeStep, KindStep, PlaceStep, ServedStep DEF UploadInv
<1> QED BY <1>1, <1>2, TypeCorrect, StoreInvariant, PTL DEF Spec

\* A blob that is recorded is on the disk and is what one upload sent, whole,
\* whatever failed, was dropped, retried or crashed before (record_blob after
\* the rename, delete_blob), unless two uploads of it met.
THEOREM RecordedWhole == Spec => []RecordedIsWhole
<1>1. TypeOK /\ UploadInv => RecordedIsWhole
  BY DEF TypeOK, UploadInv, WholeInv, WholeAt, Current, RecordedIsWhole
<1> QED BY <1>1, TypeCorrect, UploadInvariant, PTL

\* A share whose upload or seal was answered can be fetched until its owner
\* revokes it or it expires: no rollback of a concurrent upload, no sweep and
\* no crash takes it away (mark_sealed, revoke_share, purge_expired_and_revoked).
THEOREM PublishedServed == Spec => []PublishedIsServed
<1>1. UploadInv => PublishedIsServed
  BY DEF UploadInv, ServedInv, ServedAt, PublishedIsServed
<1> QED BY <1>1, UploadInvariant, PTL
=============================================================================
