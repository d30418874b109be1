---------------------------- MODULE ProviderMove ----------------------------
(***************************************************************************)
(* A file moved from one provider to another: its blob is copied, its row  *)
(* repointed, the old blob deleted.  Each step may be the last one before  *)
(* the tab dies; the next unlock rebuilds the row from the bodies and the  *)
(* write-ahead logs and decides which pending deletes to make.             *)
(*                                                                         *)
(* One file is followed.  Its row is <<provider_id, storage_ref>>.  The    *)
(* revocation of its shares before the copy concerns the relay only.  The  *)
(* cloud journal is left out: it is flushed by a save, before the bodies.  *)
(***************************************************************************)
EXTENDS Maps, FiniteSets, FiniteSetsExt, Sequences, SequencesExt

CONSTANTS
    MvProviders,    \* provider_ids
    MvRefs,         \* storage_refs, 1..n: every upload gets the next one
    MvSessions      \* bound: unlocks of a behaviour

ASSUME MoveAssumption ==
    /\ MvProviders # {} /\ IsFiniteSet(MvProviders)
    /\ MvRefs \subseteq Nat /\ 1 \in MvRefs /\ MvSessions \in Nat
    /\ None \notin MvProviders /\ None \notin MvRefs /\ None \notin MvProviders \X MvRefs

VARIABLES
    mvBlobs,    \* the blobs on the providers that hold the content
    mvBody,     \* the ref of the file's row in vault_<p>.sc, None without one
    mvWal,      \* the log under vault_id:p
    mvFlag,     \* providers whose dirty flag is in IndexedDB
    mvFlagQ,    \* flag writes that nobody awaits
    mvRow,      \* the row in _db, None when there is none
    mvOpen,     \* the vault is unlocked
    mvDirty,    \* _dirtyProviders
    mvMove,     \* the move under way: its step, source row, destination
    mvSave,     \* the save under way: bodies to upload and uploaded
    mvAgain,    \* _dirtyDuringSave
    mvNext,     \* the next ref
    mvLeft,     \* unlocks left
    mvOrder,    \* the providers in the order of the manifest
    mvActive,   \* activeProviderId
    mvFound,    \* history: the row was readable when the vault was opened
    mvSplit     \* history: the last update was logged while another provider's log held one

moveVars == <<mvBlobs, mvBody, mvWal, mvFlag, mvFlagQ, mvRow, mvOpen, mvDirty, mvMove, mvSave,
              mvAgain, mvNext, mvLeft, mvOrder, mvActive, mvFound, mvSplit>>
\* What no step but the switch, the log of an update and the unlock touches.
mvRest == <<mvLeft, mvOrder, mvActive, mvFound, mvSplit>>

NoMove == [step |-> "idle", src |-> None, dst |-> None, ref |-> None, log |-> None]
NoSave == [step |-> "idle", todo |-> {}, done |-> {}]

\* The rows, blobs, logs and steps; a move or a save is under way only in an open vault.
MvTypeOK ==
    /\ mvBlobs \in SUBSET (MvProviders \X MvRefs)
    /\ mvBody \in [MvProviders -> MvRefs \cup {None}]
    /\ {mvFlag, mvFlagQ, mvDirty, mvAgain, mvSave.todo, mvSave.done} \subseteq SUBSET MvProviders
    /\ mvRow \in (MvProviders \X MvRefs) \cup {None}
    /\ mvMove.step \in {"idle", "copy", "update", "run", "journal", "delete", "mark"}
    /\ mvSave.step \in {"idle", "bodies", "manifest", "clear", "flag"}
    /\ (mvMove.step # "idle" \/ mvSave.step # "idle") => mvOpen

Orders == {s \in [1..Cardinality(MvProviders) -> MvProviders] : \A a, b \in DOMAIN s : s[a] = s[b] => a = b}

MoveInit ==
    \E p \in MvProviders :
        /\ mvBlobs = {<<p, 1>>} /\ mvBody = [q \in MvProviders |-> IF q = p THEN 1 ELSE None]
        /\ mvWal = [q \in MvProviders |-> <<>>] /\ mvFlag = {} /\ mvFlagQ = {}
        /\ mvRow = None /\ mvOpen = FALSE /\ mvDirty = {} /\ mvMove = NoMove /\ mvSave = NoSave
        /\ mvAgain = {} /\ mvNext = 2 /\ mvLeft = MvSessions
        /\ mvOrder \in Orders /\ mvActive \in MvProviders /\ mvFound = TRUE /\ mvSplit = FALSE
-----------------------------------------------------------------------------
(* crossProviderMove().  The steps of CrossProviderMovePlan::build() for   *)
(* the two vaults are one here: the row is in one database.                *)
AfterSwapped(step) ==
    CASE step = "copy" -> "journal" [] step = "journal" -> "delete" [] step = "delete" -> "update"
      [] step = "update" -> "run" [] OTHER -> "mark"
After(step) ==
    CASE step = "copy" -> "update" [] step = "update" -> "run" [] step = "run" -> "journal"
      [] step = "journal" -> "delete" [] OTHER -> "mark"
Advance(ref, log) ==
    mvMove' = [mvMove EXCEPT !.step = After(mvMove.step), !.ref = ref, !.log = log]
Advances1 == Advance(mvMove.ref, mvMove.log)

\* setActiveProviderId(): the user looks at another provider.
MvSwitch(p) ==
    /\ mvOpen /\ mvActive # p /\ mvActive' = p
    /\ UNCHANGED <<mvBlobs, mvBody, mvWal, mvFlag, mvFlagQ, mvRow, mvOpen, mvDirty, mvMove,
                   mvSave, mvAgain, mvNext, mvLeft, mvOrder, mvFound, mvSplit>>

MvStart(dst) ==
    /\ mvOpen /\ mvMove = NoMove /\ mvRow # None /\ mvRow[1] # dst
    /\ mvMove' = [step |-> "copy", src |-> mvRow, dst |-> dst, ref |-> None, log |-> None]
    /\ UNCHANGED <<mvBlobs, mvBody, mvWal, mvFlag, mvFlagQ, mvRow, mvOpen, mvDirty, mvSave,
                   mvAgain, mvNext, mvRest>>

\* byoCrossProviderStreamCopy(), or the pipe: without the source, or when a call fails, it throws.
\* onMutate() follows at once and takes the provider that is active then.
CopyThrowsNever(ok) == FALSE
CopyThrows(ok) == ~ok
MvCopy(ok) ==
    /\ mvMove.step = "copy" /\ mvNext \in MvRefs /\ (ok => mvMove.src \in mvBlobs)
    /\ IF CopyThrows(ok) THEN mvMove' = NoMove ELSE Advance(mvNext, mvActive)
    /\ mvBlobs' = IF ok THEN mvBlobs \cup {<<mvMove.dst, mvNext>>} ELSE mvBlobs
    /\ mvNext' = mvNext + 1
    /\ UNCHANGED <<mvBody, mvWal, mvFlag, mvFlagQ, mvRow, mvOpen, mvDirty, mvSave, mvAgain,
                   mvRest>>

\* onMutate() logs the update under the provider that was active, whichever it moves between.
Updated == [op |-> "row", row |-> <<mvMove.dst, mvMove.ref>>]
RowEntries(log) == {k \in DOMAIN log : log[k].op = "row"}
MvUpdate ==
    /\ mvMove.step = "update" /\ Advances1
    /\ mvWal' = [mvWal EXCEPT ![mvMove.log] = Append(@, Updated)]
    /\ mvSplit' = (\E q \in MvProviders \ {mvMove.log} : RowEntries(mvWal[q]) # {})
    /\ UNCHANGED <<mvBlobs, mvBody, mvFlag, mvFlagQ, mvRow, mvOpen, mvDirty, mvSave, mvAgain, mvNext,
                   mvLeft, mvOrder, mvActive, mvFound>>

\* db.run().
MvRun ==
    /\ mvMove.step = "run" /\ mvRow' = Updated.row /\ Advances1
    /\ UNCHANGED <<mvBlobs, mvBody, mvWal, mvFlag, mvFlagQ, mvOpen, mvDirty, mvSave, mvAgain, mvNext,
                   mvRest>>

\* appendWalBlobDelete() under the SOURCE provider; a failure is ignored.
MvJournal(ok) ==
    /\ mvMove.step = "journal" /\ Advances1
    /\ mvWal' = IF ok THEN [mvWal EXCEPT ![mvMove.src[1]] = Append(@, [op |-> "del", row |-> mvMove.src])]
                ELSE mvWal
    /\ UNCHANGED <<mvBlobs, mvBody, mvFlag, mvFlagQ, mvRow, mvOpen, mvDirty, mvSave, mvAgain,
                   mvNext, mvRest>>

\* srcProvider.delete(), best effort.
MvDelete(ok) ==
    /\ mvMove.step = "delete" /\ Advances1
    /\ mvBlobs' = IF ok THEN mvBlobs \ {mvMove.src} ELSE mvBlobs
    /\ UNCHANGED <<mvBody, mvWal, mvFlag, mvFlagQ, mvRow, mvOpen, mvDirty, mvSave, mvAgain,
                   mvNext, mvRest>>

\* markDirty() of both: the flags reach IndexedDB later.
MvMark ==
    LET both == {mvMove.src[1], mvMove.dst}
    IN  /\ mvMove.step = "mark" /\ mvMove' = NoMove
        /\ mvDirty' = mvDirty \cup both /\ mvFlagQ' = mvFlagQ \cup both
        /\ mvAgain' = IF mvSave = NoSave THEN mvAgain ELSE mvAgain \cup both
        /\ UNCHANGED <<mvBlobs, mvBody, mvWal, mvFlag, mvRow, mvOpen, mvSave, mvNext, mvRest>>

MvFlagCommits(p) ==
    /\ p \in mvFlagQ /\ mvFlagQ' = mvFlagQ \ {p} /\ mvFlag' = mvFlag \cup {p}
    /\ UNCHANGED <<mvBlobs, mvBody, mvWal, mvRow, mvOpen, mvDirty, mvMove, mvSave, mvAgain,
                   mvNext, mvRest>>
-----------------------------------------------------------------------------
(* _doSave().                                                              *)
MvSaveStart ==
    /\ mvOpen /\ mvSave = NoSave /\ mvDirty # {}
    /\ mvSave' = [step |-> "bodies", todo |-> mvDirty, done |-> {}] /\ mvAgain' = {}
    /\ UNCHANGED <<mvBlobs, mvBody, mvWal, mvFlag, mvFlagQ, mvRow, mvOpen, mvDirty, mvMove,
                   mvNext, mvRest>>

\* copyProviderRows() and the upload of the body.
RowOf(p) == IF mvRow = None THEN None ELSE IF mvRow[1] = p THEN mvRow[2] ELSE None
MvSaveBody(p) ==
    /\ mvSave.step = "bodies" /\ p \in mvSave.todo
    /\ mvBody' = [mvBody EXCEPT ![p] = RowOf(p)]
    /\ mvSave' = [step |-> IF mvSave.todo = {p} THEN "manifest" ELSE "bodies",
                  todo |-> mvSave.todo \ {p}, done |-> mvSave.done \cup {p}]
    /\ UNCHANGED <<mvBlobs, mvWal, mvFlag, mvFlagQ, mvRow, mvOpen, mvDirty, mvMove, mvAgain,
                   mvNext, mvRest>>

MvManifest ==
    /\ mvSave.step = "manifest" /\ mvSave' = [mvSave EXCEPT !.step = "clear"]
    /\ UNCHANGED <<mvBlobs, mvBody, mvWal, mvFlag, mvFlagQ, mvRow, mvOpen, mvDirty, mvMove,
                   mvAgain, mvNext, mvRest>>

\* Phase 5, for each uploaded body: its log, then its flag.  Flag writes commit in order.
MvClearWal(p) ==
    /\ mvSave.step = "clear" /\ p \in mvSave.done
    /\ mvSave' = [step |-> "flag", todo |-> {p}, done |-> mvSave.done \ {p}]
    /\ mvWal' = [q \in MvProviders |-> IF q \in {p} THEN <<>> ELSE mvWal[q]]
    /\ UNCHANGED <<mvBlobs, mvBody, mvFlag, mvFlagQ, mvRow, mvOpen, mvDirty, mvMove, mvAgain,
                   mvNext, mvRest>>
MvClearFlag(p) ==
    /\ mvSave.step = "flag" /\ p \in mvSave.todo
    /\ mvSave' = [mvSave EXCEPT !.step = "clear", !.todo = {}]
    /\ mvFlag' = (mvFlag \cup mvFlagQ) \ {p} /\ mvFlagQ' = {} /\ mvDirty' = mvDirty \ {p}
    /\ UNCHANGED <<mvBlobs, mvBody, mvWal, mvRow, mvOpen, mvMove, mvAgain, mvNext, mvRest>>

\* What ends a save, also a failed one: what was marked meanwhile is dirty again.
SaveOver ==
    /\ mvSave' = NoSave /\ mvAgain' = {}
    /\ mvDirty' = mvDirty \cup mvAgain /\ mvFlagQ' = mvFlagQ \cup mvAgain
    /\ UNCHANGED <<mvBlobs, mvBody, mvWal, mvFlag, mvRow, mvOpen, mvMove, mvNext, mvRest>>
MvSaved == mvSave.step = "clear" /\ mvSave.done = {} /\ SaveOver
\* A body upload, or the manifest upload to the primary, fails.
MvSaveFails == mvSave.step \in {"bodies", "manifest"} /\ SaveOver
-----------------------------------------------------------------------------
(* The next unlock.                                                        *)

\* decide_replay() of a DeleteSourceBlob step, "unknown" for the source blob.
DecideReplayAlways(dstFileExists) == "Retry"
DecideReplay(dstFileExists) == IF dstFileExists THEN "Retry" ELSE "Abort"

\* mergeProviderDb(): INSERT OR IGNORE, the bodies in the order of the manifest.
FirstRow(order) ==
    LET has == {k \in DOMAIN order : mvBody[order[k]] # None}
    IN  IF has = {} THEN None ELSE <<order[Min(has)], mvBody[order[Min(has)]]>>

\* replayWal(): the last UPDATE decides; of a row that is not there it changes nothing.
Replayed(row, log) ==
    IF row = None \/ RowEntries(log) = {} THEN row ELSE log[Max(RowEntries(log))].row

\* The entries of one log whose delete plan_reconcile() retries.
Reconciled(row, p) ==
    {e.row : e \in {x \in ToSet(mvWal[p]) :
        x.op = "del" /\ DecideReplay(row # None /\ row[1] # p) = "Retry"}}

\* The loop over the providers: a log whose flag is set is replayed and reconciled, then cleared.
RowAfter(order, row) ==
    LET at[k \in 0..Len(order)] ==
            IF k = 0 THEN row
            ELSE IF order[k] \in mvFlag THEN Replayed(at[k - 1], mvWal[order[k]]) ELSE at[k - 1]
    IN  at
Recover(order, row) ==
    [row |-> RowAfter(order, row)[Len(order)],
     del |-> UNION {Reconciled(RowAfter(order, row)[k], order[k]) :
                        k \in {j \in DOMAIN order : order[j] \in mvFlag}}]

\* The active provider is the one of the last session, as sessionStorage has it.
MvUnlock(order, failed) ==
    LET r == Recover(order, FirstRow(order))
    IN  /\ ~mvOpen /\ mvLeft > 0 /\ order = mvOrder /\ failed \subseteq r.del
        /\ mvOpen' = TRUE /\ mvRow' = r.row /\ mvLeft' = mvLeft - 1
        /\ mvBlobs' = mvBlobs \ (r.del \ failed)
        /\ mvWal' = [p \in MvProviders |-> IF p \in mvFlag THEN <<>> ELSE mvWal[p]]
        /\ mvFlag' = {} /\ mvFound' = (r.row \in mvBlobs')
        /\ UNCHANGED <<mvBody, mvFlagQ, mvDirty, mvMove, mvSave, mvAgain, mvNext, mvOrder, mvActive,
                       mvSplit>>

\* The tab is closed or dies.
MvCrashMidway ==
    /\ mvOpen /\ mvOpen' = FALSE /\ mvRow' = None
    /\ UNCHANGED <<mvBlobs, mvBody, mvWal, mvFlag, mvFlagQ, mvDirty, mvMove, mvSave, mvAgain,
                   mvNext, mvRest>>
MvCrash ==
    /\ mvOpen /\ mvOpen' = FALSE /\ mvRow' = None /\ mvDirty' = {} /\ mvMove' = NoMove
    /\ mvSave' = NoSave /\ mvAgain' = {} /\ mvFlagQ' = {}
    /\ UNCHANGED <<mvBlobs, mvBody, mvWal, mvFlag, mvNext, mvRest>>

Pending == {e.row : e \in {x \in UNION {ToSet(mvWal[p]) : p \in MvProviders} : x.op = "del"}}

MoveNext ==
    \/ \E p \in MvProviders : MvSwitch(p) \/ MvStart(p) \/ MvFlagCommits(p) \/ MvSaveBody(p)
    \/ \E p \in MvProviders : MvClearWal(p) \/ MvClearFlag(p)
    \/ MvUpdate \/ MvRun
    \/ \E ok \in BOOLEAN : MvCopy(ok) \/ MvJournal(ok) \/ MvDelete(ok)
    \/ MvMark
    \/ MvSaveStart
    \/ MvManifest
    \/ MvSaved
    \/ MvSaveFails
    \/ \E failed \in SUBSET Pending : MvUnlock(mvOrder, failed)
    \/ MvCrash

MoveSpec == MoveInit /\ [][MoveNext]_moveVars
-----------------------------------------------------------------------------
\* The content is never lost: whatever fails and wherever the tab dies, some provider holds
\* a blob of the file (the source is deleted after the copy, and by the reconciler only
\* when the row has moved on).
ContentKept == mvBlobs # {}

\* While the vault is open the file can be read if it could be read when it was opened
\* (mvFound): no step of a session points the row at a blob a move has not written or has
\* already deleted.  An unlock may do so: it can come to the row of an older move, whose blob
\* is gone, from a body or a log that is behind.
SessionReadable == mvOpen /\ mvFound => mvRow \in mvBlobs

\* Unlocking does not delete the blob of the row it opens with, whatever bodies, logs and flags
\* the crash left (decide_replay() retries a delete only when the row is elsewhere), unless
\* the last update was logged while another provider's log held one: replayed one provider
\* after the other, an older move may then bring back a row whose delete was retried just
\* before.
UnlockKeepsBlob ==
    [][~mvOpen /\ mvOpen' /\ ~mvSplit => (mvRow' \in mvBlobs => mvRow' \in mvBlobs')]_moveVars

\* What a cross-provider move promises at every step, crash and replay: a copy of the file
\* always exists, and the row names one throughout a session that opened with such a row.
MoveInv == MvTypeOK /\ ContentKept /\ SessionReadable
=============================================================================
