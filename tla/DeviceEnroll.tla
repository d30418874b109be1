---------------------------- MODULE DeviceEnroll ----------------------------
(***************************************************************************)
(* A new device is enrolled: an existing device shows a QR code, the two   *)
(* meet in a relay channel, derive keys, let their users compare a code,   *)
(* and the vault's shard and the provider's configuration are handed over; *)
(* the new device then writes its slot into the header of the manifest.    *)
(*                                                                         *)
(* Cryptography is ideal: two sessions derive the same keys and the same   *)
(* code exactly when each used the other's public key and both the same    *)
(* channel id, and an envelope opens only under the keys that sealed it.   *)
(* A session's keys are therefore named <<channel, joiner, attempt>>.  A   *)
(* user confirms a code when another device shows the same one.  The eight *)
(* slots of the header are never all in use.                               *)
(***************************************************************************)
EXTENDS Maps, FiniteSets, Sequences

CONSTANTS
    Joiners,        \* new devices
    EnTries,        \* bound: times a device tries again, all devices together
    EnFaults,       \* bound: sockets that break or cannot be had
    EnSaves         \* bound: saves of other devices

ASSUME EnrollAssumption ==
    /\ None \notin Joiners /\ {EnTries, EnFaults, EnSaves} \subseteq Nat
    /\ None \notin Nat \X Joiners \X Nat

\* One channel for the enrolment that starts with the page, two for each "Try again".
Channels == 1..(2 * EnTries + 1)

VARIABLES
    xd,         \* the existing device's page: its globals
    ses,        \* its enrollment sessions, by channel, each with the socket made for it
    jn,         \* the new devices: page, session and socket
    inbox,      \* messages the relay has forwarded to a new device
    xbox,       \* messages the relay has forwarded to a socket of the existing device
    nTries,     \* times a device has tried again so far
    nFaults,    \* sockets broken so far
    hdr,        \* the header of vault_manifest.sc: version and device slots
    atomic,     \* the provider compares expectedVersion and stores in one step
    saver,      \* a save of another device: the slots of the header it read
    nSaves,     \* saves so far
    compared,   \* history: the keys whose code the user of xd has confirmed
    crossed,    \* history: keys sealed while the page showed the code of another session
    trampled,   \* history: joiners whose slot a save has overwritten
    raced       \* history: joiners whose slot an upload compared before has overwritten

enBounds == <<nTries, nFaults>>
hdrVars == <<hdr, atomic, saver, nSaves, trampled, raced>>
enrVars == <<xd, ses, jn, inbox, xbox, enBounds, hdrVars, compared, crossed>>

\* The page: enrolments being opened, enrollmentSessionId, qrData, ws (0 for none), the code it
\* shows, the envelopes being sealed, the stall timer.
FreshX == [step |-> "qr-display", starts |-> 1, made |-> 0, sid |-> 0, qr |-> 0,
           ws |-> 0, code |-> None, sealing |-> <<>>, timer |-> FALSE]
\* A WasmEnrollmentSession with its socket; due is a code derived and not shown yet.
NoSession == [sock |-> "none", sk |-> FALSE, key |-> None, due |-> None]
FreshJ(provider) == [step |-> "qr-scan", try |-> 1, ch |-> 0, key |-> None, conn |-> FALSE,
                     shard |-> None, shardReceived |-> FALSE, config |-> FALSE,
                     provider |-> provider, read |-> None]
KeysOf(n) == <<jn[n].ch, n, jn[n].try>>

XSteps == {"qr-display", "sas", "sas-confirmed", "done", "error"}
Socks == {"none", "cookie", "connecting", "open", "closed"}
JSteps == {"qr-scan", "waiting-peer", "sas", "sas-confirmed", "hydrating", "passphrase",
           "unlocking", "writing", "storing", "enrolled", "error"}

\* A session has its secret key until it has keys, and the existing device does not wait for the
\* other one unless its stall timer runs or the continuation that arms it is still to come.
EnTypeOK ==
    /\ xd.step \in XSteps /\ \A n \in Joiners : jn[n].step \in JSteps
    /\ {xd.sid, xd.qr, xd.ws} \subseteq 0..xd.made
    /\ \A c \in Channels : ses[c].sock \in Socks /\ (ses[c].sk => ses[c].key = None)
    /\ xd.step = "sas-confirmed" => xd.timer \/ xd.sealing # <<>>
    /\ \A n \in Joiners : jn[n].step = "enrolled" => ~jn[n].conn

EnInit ==
    /\ xd = FreshX /\ ses = [c \in Channels |-> NoSession]
    /\ jn \in [Joiners -> {FreshJ(p) : p \in BOOLEAN}]
    /\ inbox = [n \in Joiners |-> <<>>] /\ xbox = [c \in Channels |-> <<>>]
    /\ hdr = [version |-> 1, slots |-> {}] /\ atomic \in BOOLEAN /\ saver = None
    /\ nSaves = 0 /\ nTries = 0 /\ nFaults = 0
    /\ compared = {} /\ crossed = {} /\ trampled = {} /\ raced = {}
-----------------------------------------------------------------------------
(* The relay's channel: two slots, and a message for an empty one is gone. *)
Members(c) == {n \in Joiners : jn[n].conn /\ jn[n].ch = c}
Listens(c) == c \in Channels /\ ses[c].sock = "open"
RoomAt(c) == Cardinality(Members(c)) + (IF Listens(c) THEN 1 ELSE 0) < 2
Deliver1(box, to, msg) == [d \in DOMAIN box |-> IF d \in to THEN Append(box[d], msg) ELSE box[d]]

Msg(t, key) == [t |-> t, key |-> key]
Receives(box, d, t) == box[d] # <<>> /\ Head(box[d]).t = t
Taken(box, d) == [box EXCEPT ![d] = Tail(@)]
\* ws?.send() of the existing device: nothing without an open socket, an exception too early.
Throws == xd.ws # 0 /\ ses[xd.ws].sock = "connecting"
ToPeer(msg) == Deliver1(inbox, IF Listens(xd.ws) THEN Members(xd.ws) ELSE {}, msg)
Faulty == nFaults < EnFaults /\ nFaults' = nFaults + 1
-----------------------------------------------------------------------------
(* The existing device.                                                    *)

\* cleanup(), of the socket ws names and no other, after which the page shows the step.
XEnds(x, step) == [x EXCEPT !.step = step, !.ws = 0, !.timer = FALSE]
WithSock(s, c, sock) == [s EXCEPT ![c].sock = sock]
Cleaned(s) == IF xd.ws = 0 THEN s ELSE WithSock(s, xd.ws, "closed")

\* startExistingDeviceEnrollment(): the session is there and its QR code shown, ...
XOpens ==
    /\ xd.starts > 0
    /\ LET c == xd.made + 1
       IN  /\ xd' = [xd EXCEPT !.starts = @ - 1, !.made = c, !.sid = c, !.qr = c]
           /\ ses' = [ses EXCEPT ![c] = [sock |-> "cookie", sk |-> TRUE, key |-> None, due |-> None]]
    /\ UNCHANGED <<jn, inbox, xbox, enBounds, hdrVars, compared, crossed>>
\* ... then the relay's cookie, and the socket; ...
XConnect(c) ==
    /\ ses[c].sock = "cookie"
    /\ xd' = [xd EXCEPT !.ws = c] /\ ses' = WithSock(ses, c, "connecting")
    /\ UNCHANGED <<jn, inbox, xbox, enBounds, hdrVars, compared, crossed>>
XConnected(c) ==
    /\ ses[c].sock = "connecting" /\ RoomAt(c) /\ ses' = WithSock(ses, c, "open")
    /\ UNCHANGED <<xd, jn, inbox, xbox, enBounds, hdrVars, compared, crossed>>
\* ... an exception on the way ends the attempt without cleanup().
XStartFails ==
    /\ Faulty
    /\ \/ xd.starts > 0 /\ xd' = [xd EXCEPT !.starts = @ - 1, !.step = "error"] /\ UNCHANGED ses
       \/ \E c \in Channels : /\ ses[c].sock = "cookie" /\ ses' = WithSock(ses, c, "closed")
                              /\ xd' = [xd EXCEPT !.step = "error"]
    /\ UNCHANGED <<jn, inbox, xbox, nTries, hdrVars, compared, crossed>>

\* byo_enrollment_derive_keys(): the secret key is taken, so a second call fails.
DeriveKeysAgain(s, key) == [s EXCEPT !.sk = FALSE, !.key = key, !.due = key]
DeriveKeys(s, key) == IF s.sk THEN [s EXCEPT !.sk = FALSE, !.key = key, !.due = key] ELSE s
XPeerPk(c) ==
    /\ Listens(c) /\ Receives(xbox, c, "peer_pk") /\ xbox' = Taken(xbox, c)
    /\ ses' = [ses EXCEPT ![c] = DeriveKeys(ses[c], Head(xbox[c]).key)]
    /\ UNCHANGED <<xd, jn, inbox, enBounds, hdrVars, compared, crossed>>
\* The handler goes on, whatever the page shows by then.
XShows(c) ==
    /\ ses[c].due # None
    /\ xd' = [xd EXCEPT !.code = ses[c].due, !.step = "sas"] /\ ses' = [ses EXCEPT ![c].due = None]
    /\ UNCHANGED <<jn, inbox, xbox, enBounds, hdrVars, compared, crossed>>

\* Another device, in the user's hand, shows the same code, or another one.
Shows(n) == jn[n].step \in {"sas", "sas-confirmed"}
\* The keys of enrollmentSessionId, which need not be the session whose code is shown.
SidKey == IF xd.sid = 0 THEN None ELSE ses[xd.sid].key
XConfirm ==
    /\ xd.step = "sas" /\ \E n \in Joiners : Shows(n) /\ jn[n].key = xd.code
    /\ compared' = compared \cup {xd.code}
    /\ IF SidKey = None
       THEN xd' = XEnds(xd, "error") /\ ses' = Cleaned(ses) /\ UNCHANGED crossed
       ELSE /\ xd' = [xd EXCEPT !.step = "sas-confirmed", !.sealing = Append(@, SidKey)]
            /\ crossed' = crossed \cup ({SidKey} \ {xd.code}) /\ UNCHANGED ses
    /\ UNCHANGED <<jn, inbox, xbox, enBounds, hdrVars>>
XMismatch ==
    /\ xd.step = "sas" /\ \E n \in Joiners : Shows(n) /\ jn[n].key # xd.code
    /\ xd' = XEnds([xd EXCEPT !.sid = 0], "error")
    /\ ses' = Cleaned(IF xd.sid = 0 THEN ses
                      ELSE [ses EXCEPT ![xd.sid].sk = FALSE, ![xd.sid].key = None])
    /\ UNCHANGED <<jn, inbox, xbox, enBounds, hdrVars, compared, crossed>>

\* byo_enrollment_session_encrypt_shard() has returned: send it on the socket of the moment, and
\* arm the stall timer, also when the page has moved on.
ArmsTimerNot == FALSE
ArmsTimer == TRUE
XSendShard ==
    /\ xd.sealing # <<>>
    /\ LET x == [xd EXCEPT !.sealing = Tail(@)]
       IN  IF Throws THEN xd' = XEnds(x, "error") /\ ses' = Cleaned(ses) /\ UNCHANGED inbox
           ELSE /\ xd' = [x EXCEPT !.timer = ArmsTimer] /\ UNCHANGED ses
                /\ inbox' = ToPeer(Msg("encrypted_shard", Head(xd.sealing)))
    /\ UNCHANGED <<jn, xbox, enBounds, hdrVars, compared, crossed>>

\* ready_for_config, at any socket: sealed for enrollmentSessionId, without keys the call fails.
XSendConfig(c, has) ==
    /\ Listens(c) /\ Receives(xbox, c, "ready_for_config") /\ xbox' = Taken(xbox, c)
    /\ IF has /\ (SidKey = None \/ Throws)
       THEN xd' = XEnds(xd, "error") /\ ses' = Cleaned(ses) /\ UNCHANGED inbox
       ELSE /\ inbox' = ToPeer(IF has THEN Msg("primary_config", SidKey)
                               ELSE Msg("config_unavailable", None))
            /\ UNCHANGED <<xd, ses>>
    /\ UNCHANGED <<jn, enBounds, hdrVars, compared, crossed>>

XDone(c) ==
    /\ Listens(c) /\ Receives(xbox, c, "done") /\ xbox' = Taken(xbox, c)
    /\ xd' = XEnds(xd, "done") /\ ses' = Cleaned(ses)
    /\ UNCHANGED <<jn, inbox, enBounds, hdrVars, compared, crossed>>

\* The stall timer fires: an error if the page still waits.
XStalls ==
    /\ xd.timer
    /\ IF xd.step = "sas-confirmed" THEN xd' = XEnds(xd, "error") /\ ses' = Cleaned(ses)
       ELSE xd' = [xd EXCEPT !.timer = FALSE] /\ UNCHANGED ses
    /\ UNCHANGED <<jn, inbox, xbox, enBounds, hdrVars, compared, crossed>>
\* A socket breaks, or the relay refuses it: the page ends, whichever session it shows.
XBreaks(c) ==
    /\ \/ ses[c].sock \in {"connecting", "open"} /\ Faulty
       \/ ses[c].sock = "connecting" /\ ~RoomAt(c) /\ UNCHANGED nFaults
    /\ IF xd.step \in {"done", "error"} THEN ses' = WithSock(ses, c, "closed") /\ UNCHANGED xd
       ELSE xd' = XEnds(xd, "error") /\ ses' = Cleaned(WithSock(ses, c, "closed"))
    /\ UNCHANGED <<jn, inbox, xbox, nTries, hdrVars, compared, crossed>>

\* "Try again": the button starts an enrolment, and the effect that sees qrData empty another.
XAgain ==
    /\ xd.step = "error" /\ nTries < EnTries
    /\ xd' = [xd EXCEPT !.step = "qr-display", !.qr = 0, !.starts = @ + 2]
    /\ nTries' = nTries + 1
    /\ UNCHANGED <<ses, jn, inbox, xbox, nFaults, hdrVars, compared, crossed>>
-----------------------------------------------------------------------------
(* A new device.                                                           *)
Joins(n, j) == jn' = [jn EXCEPT ![n] = j]
JFails(n) == [jn[n] EXCEPT !.step = "error", !.conn = FALSE]
\* The failures that leave the socket open.
JErrs(n) == [jn[n] EXCEPT !.step = "error"]

\* handleQrScanned(): byo_enrollment_join() and byo_enrollment_derive_keys() with the key in the
\* QR.  A socket that a failed attempt left open is not followed any further.
JScan(n) ==
    /\ jn[n].step = "qr-scan" /\ xd.step = "qr-display" /\ xd.qr # 0
    /\ Joins(n, [jn[n] EXCEPT !.ch = xd.qr, !.key = <<xd.qr, n, jn[n].try>>, !.conn = FALSE,
                              !.step = "waiting-peer", !.shard = None])
    /\ inbox' = [inbox EXCEPT ![n] = <<>>]
    /\ UNCHANGED <<xd, ses, xbox, enBounds, hdrVars, compared, crossed>>

\* send() of a new device, to the existing device's socket in its channel.
ToX(n, msg) == Deliver1(xbox, IF Listens(jn[n].ch) THEN {jn[n].ch} ELSE {}, msg)
SendsToX(n, msg) == IF jn[n].conn THEN ToX(n, msg) ELSE xbox

\* The socket opens, if there is a slot: the public key is sent, to whoever is there.
JOpen(n) ==
    /\ jn[n].step = "waiting-peer" /\ RoomAt(jn[n].ch)
    /\ Joins(n, [jn[n] EXCEPT !.step = "sas", !.conn = TRUE])
    /\ xbox' = ToX(n, Msg("peer_pk", KeysOf(n)))
    /\ UNCHANGED <<xd, ses, inbox, enBounds, hdrVars, compared, crossed>>

XShowsCode == xd.step \in {"sas", "sas-confirmed"}
JConfirm(n) ==
    /\ jn[n].step = "sas" /\ XShowsCode /\ xd.code = jn[n].key
    /\ Joins(n, [jn[n] EXCEPT !.step = "sas-confirmed"])
    /\ xbox' = IF jn[n].provider THEN xbox ELSE SendsToX(n, Msg("ready_for_config", None))
    /\ UNCHANGED <<xd, ses, inbox, enBounds, hdrVars, compared, crossed>>
JMismatch(n) ==
    /\ jn[n].step = "sas" /\ XShowsCode /\ xd.code # jn[n].key
    /\ Joins(n, JFails(n))
    /\ UNCHANGED <<xd, ses, inbox, xbox, enBounds, hdrVars, compared, crossed>>

\* maybeAdvanceAfterTransfer()
Advances(j) ==
    IF j.provider /\ j.shardReceived THEN [j EXCEPT !.step = "passphrase"]
    ELSE IF ~j.provider /\ j.shardReceived /\ j.config THEN [j EXCEPT !.step = "hydrating"]
    ELSE j

\* byo_enrollment_session_decrypt_shard(), _decrypt_payload(): the MAC, then the cipher.
Opens1(key, m) == m.key = key
JShard(n) ==
    LET ok == Opens1(jn[n].key, Head(inbox[n]))
    IN  /\ jn[n].conn /\ Receives(inbox, n, "encrypted_shard") /\ inbox' = Taken(inbox, n)
        /\ Joins(n, IF ok THEN Advances([jn[n] EXCEPT !.shard = Head(inbox[n]).key, !.shardReceived = TRUE])
                    ELSE JFails(n))
        /\ UNCHANGED <<xd, ses, xbox, enBounds, hdrVars, compared, crossed>>
JConfig(n) ==
    LET ok == Opens1(jn[n].key, Head(inbox[n]))
    IN  /\ jn[n].conn /\ Receives(inbox, n, "primary_config") /\ inbox' = Taken(inbox, n)
        /\ Joins(n, IF ok THEN Advances([jn[n] EXCEPT !.config = TRUE]) ELSE JFails(n))
        /\ UNCHANGED <<xd, ses, xbox, enBounds, hdrVars, compared, crossed>>
JUnavailable(n) ==
    /\ jn[n].conn /\ Receives(inbox, n, "config_unavailable") /\ inbox' = Taken(inbox, n)
    /\ Joins(n, JFails(n))
    /\ UNCHANGED <<xd, ses, xbox, enBounds, hdrVars, compared, crossed>>

\* hydrateReceivedConfig(), the reauthentication sheet included.
JHydrate(n, ok) ==
    /\ jn[n].step = "hydrating"
    /\ Joins(n, IF ok THEN [jn[n] EXCEPT !.provider = TRUE, !.step = "passphrase"] ELSE JErrs(n))
    /\ UNCHANGED <<xd, ses, inbox, xbox, enBounds, hdrVars, compared, crossed>>

\* handlePassphrase(): read the header, open the vault, ...
JUnlock(n, ok) ==
    /\ jn[n].step = "passphrase"
    /\ Joins(n, IF ok THEN [jn[n] EXCEPT !.step = "unlocking", !.read = hdr] ELSE JErrs(n))
    /\ UNCHANGED <<xd, ses, inbox, xbox, enBounds, hdrVars, compared, crossed>>
\* ... byo_enrollment_session_get_shard() takes the shard out of the session, ...
JTake(n) ==
    /\ jn[n].step = "unlocking"
    /\ Joins(n, IF jn[n].shard = None THEN JErrs(n)
                ELSE [jn[n] EXCEPT !.step = "writing", !.shard = None])
    /\ UNCHANGED <<xd, ses, inbox, xbox, enBounds, hdrVars, compared, crossed>>
\* ... and the header with the new slot is uploaded, for the version that was read.  Of the
\* providers some compare and store in one request; S3, pCloud and SFTP compare, and store later.
SlotUploadBlind(n) == TRUE
SlotUpload(n) == hdr.version = jn[n].read.version
JCompare(n) ==
    /\ jn[n].step = "writing" /\ ~atomic
    /\ Joins(n, IF SlotUpload(n) THEN [jn[n] EXCEPT !.step = "storing"] ELSE JErrs(n))
    /\ UNCHANGED <<xd, ses, inbox, xbox, enBounds, hdrVars, compared, crossed>>
JRefused(n) ==
    /\ jn[n].step = "writing" /\ atomic /\ ~SlotUpload(n) /\ Joins(n, JErrs(n))
    /\ UNCHANGED <<xd, ses, inbox, xbox, enBounds, hdrVars, compared, crossed>>
\* Stored; then "done".
JWrite(n) ==
    /\ IF atomic THEN jn[n].step = "writing" /\ SlotUpload(n) ELSE jn[n].step = "storing"
    /\ hdr' = [version |-> hdr.version + 1, slots |-> jn[n].read.slots \cup {n}]
    /\ raced' = IF atomic THEN raced ELSE raced \cup (hdr.slots \ jn[n].read.slots)
    /\ xbox' = SendsToX(n, Msg("done", None))
    /\ Joins(n, [jn[n] EXCEPT !.step = "enrolled", !.conn = FALSE])
    /\ UNCHANGED <<xd, ses, inbox, atomic, saver, enBounds, nSaves, compared, crossed, trampled>>

\* The socket breaks; the relay frees its slot, and the page may learn of it later.
JBreak(n) ==
    /\ jn[n].conn /\ Faulty /\ Joins(n, [jn[n] EXCEPT !.conn = FALSE])
    /\ UNCHANGED <<xd, ses, inbox, xbox, nTries, hdrVars, compared, crossed>>
\* onclose, also of a socket that never opened: an error while the page still needs it.
JClosed(n) ==
    /\ ~jn[n].conn /\ jn[n].step \in {"waiting-peer", "sas", "sas-confirmed"}
    /\ IF jn[n].step = "waiting-peer" /\ RoomAt(jn[n].ch) THEN Faulty ELSE UNCHANGED nFaults
    /\ Joins(n, JFails(n))
    /\ UNCHANGED <<xd, ses, inbox, xbox, nTries, hdrVars, compared, crossed>>

\* "Try again": back to the scanner; what the page has received stays.
JAgain(n) ==
    /\ jn[n].step = "error" /\ nTries < EnTries /\ nTries' = nTries + 1
    /\ Joins(n, [jn[n] EXCEPT !.step = "qr-scan", !.try = @ + 1])
    /\ UNCHANGED <<xd, ses, inbox, xbox, nFaults, hdrVars, compared, crossed>>
-----------------------------------------------------------------------------
(* saveVault() of any other device: the header is read again, then written. *)
SaveReads ==
    /\ saver = None /\ nSaves < EnSaves /\ saver' = [slots |-> hdr.slots] /\ nSaves' = nSaves + 1
    /\ UNCHANGED <<xd, ses, jn, inbox, xbox, enBounds, hdr, atomic, compared, crossed, trampled, raced>>
SaveWrites ==
    /\ saver # None /\ saver' = None
    /\ hdr' = [version |-> hdr.version + 1, slots |-> saver.slots]
    /\ trampled' = trampled \cup (hdr.slots \ saver.slots)
    /\ UNCHANGED <<xd, ses, jn, inbox, xbox, atomic, enBounds, nSaves, compared, crossed, raced>>

XNext ==
    \/ XOpens \/ XStartFails \/ XConfirm \/ XMismatch \/ XSendShard \/ XStalls \/ XAgain
    \/ \E c \in Channels :
          \/ XConnect(c) \/ XConnected(c) \/ XPeerPk(c) \/ XShows(c) \/ XDone(c) \/ XBreaks(c)
          \/ \E has \in BOOLEAN : XSendConfig(c, has)
JNext(n) ==
    \/ JScan(n) \/ JOpen(n) \/ JConfirm(n) \/ JMismatch(n) \/ JShard(n) \/ JConfig(n)
    \/ JUnavailable(n) \/ JTake(n) \/ JCompare(n) \/ JRefused(n) \/ JWrite(n) \/ JBreak(n)
    \/ JClosed(n) \/ JAgain(n) \/ \E ok \in BOOLEAN : JHydrate(n, ok) \/ JUnlock(n, ok)
EnNext == XNext \/ (\E n \in Joiners : JNext(n)) \/ SaveReads \/ SaveWrites

EnSpec == EnInit /\ [][EnNext]_enrVars
-----------------------------------------------------------------------------
\* The shard is sealed, sent and received under no other keys than those whose code the user of
\* the existing device has compared, although any device that scans a QR code may announce
\* itself in the channel at any time, and again (byo_enrollment_derive_keys takes the secret
\* key).  The exception: after "Try again" two sessions run at once, handleSasConfirm() seals
\* for the one opened last, and the code compared may be that of the other.
SealedForCompared ==
    /\ \A n \in Joiners : \A k \in 1..Len(inbox[n]) :
          inbox[n][k].t = "encrypted_shard" => inbox[n][k].key \in compared \cup crossed
    /\ \A n \in Joiners :
          jn[n].shard # None => jn[n].shard = jn[n].key /\ jn[n].shard \in compared \cup crossed
    /\ crossed # {} => xd.made > 1

\* Two devices that enrol at the same time do not lose each other's slot: every device that
\* finished has its slot in the header, unless a save that had read the header before has
\* replaced it, or, on a primary that compares the version before it stores, an upload whose
\* comparison came before; and the existing device reports success only when one finished.
SlotsKept ==
    /\ \A n \in Joiners : jn[n].step = "enrolled" => n \in hdr.slots \cup trampled \cup raced
    /\ atomic => raced = {}
    /\ xd.step = "done" => \E n \in Joiners : jn[n].step = "enrolled"

\* What the enrolment protocol promises: the shard is sealed for the device whose code was
\* compared, and no header upload takes away the slot of another device, with the exceptions
\* that the two parts name.
EnrolInv == EnTypeOK /\ SealedForCompared /\ SlotsKept
=============================================================================
