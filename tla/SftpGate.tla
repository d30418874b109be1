------------------------------ MODULE SftpGate ------------------------------
(***************************************************************************)
(* From the WebSocket upgrade to a logged-in SFTP session: the connection  *)
(* slots and the failure tracker of rate_limit.rs, the SFTP branch of      *)
(* ws_handler() after the cookie was consumed (RelayAuth), the start of    *)
(* run_session() in sftp_relay.rs, and the client's side of it in          *)
(* sftp/client.rs: handshake() with its trust on first use, then auth.     *)
(*                                                                         *)
(* A step is one critical section of a tracker or one message.  A socket   *)
(* may close at any wait.  Keys and fingerprints are the same thing.       *)
(***************************************************************************)
EXTENDS Naturals, FiniteSets, Maps

CONSTANTS
    Clients,            \* buckets of client addresses
    Hosts, LastKey,     \* SFTP servers, and the keys 1..LastKey they present in turn
    Logins,             \* sessions, each opened once
    MaxPerIp,           \* sftp_max_concurrent_per_ip
    FailureLimit, FailureWindow, FailureBlock,
    HostLimit, HostWindow, HostBlock,
    GateTime            \* bound on the clock

ASSUME GateAssumption ==
    /\ {MaxPerIp, FailureLimit, HostLimit, GateTime} \subseteq Nat \ {0}
    /\ {FailureWindow, FailureBlock, HostWindow, HostBlock} \subseteq Nat
    /\ FailureBlock > FailureWindow /\ HostBlock > FailureWindow     \* one hour, ten minutes
    /\ LastKey \in Nat /\ None \notin Nat
    /\ IsFiniteSet(Logins)

VARIABLES
    gNow,
    slots,              \* SftpConnectionTracker: bucket -> count
    fails,              \* failures: bucket -> [count, start, until]; until 0 is no block
    seenHosts,          \* hosts: bucket -> [names, start]
    login,              \* session -> [pc, b, host, key, stored]
    serverKey,          \* host -> the key it presents now
    pin,                \* the fingerprint in the client's vault: host -> key or None
    \* History.
    wrong,              \* bucket -> counted logins refused since its window began
    through,            \* bucket -> sessions past the check when its last block fell
    late,               \* bucket -> uncounted sessions refused since that block fell
    reached,            \* bucket -> hosts a session went on to since its window began
    trusted             \* session -> the key the user or the vault vouched for

gateVars == <<gNow, slots, fails, seenHosts, login, serverKey, pin, wrong, through, late,
              reached, trusted>>
trackers == <<slots, fails, seenHosts>>
gatePast == <<wrong, through, late, reached, trusted>>

NoSession(pc) ==
    [pc |-> pc, b |-> None, host |-> None, key |-> None, stored |-> None, counted |-> TRUE]
GateInit ==
    /\ gNow = 1 /\ slots = EmptyMap /\ fails = EmptyMap /\ seenHosts = EmptyMap
    /\ login = [l \in Logins |-> NoSession("new")]
    /\ serverKey = [h \in Hosts |-> 1] /\ pin = [h \in Hosts |-> None]
    /\ wrong = [b \in Clients |-> 0] /\ reached = [b \in Clients |-> {}]
    /\ through = reached /\ late = reached
    /\ trusted = EmptyMap

At(l, pc) == login' = [login EXCEPT ![l].pc = pc]
Passed(b) == {l \in Logins : login[l].pc \notin {"new", "gone"} /\ login[l].b = b}
Held == {l \in Logins : login[l].pc \notin {"new", "checked", "gone"}}
-----------------------------------------------------------------------------
\* SftpAuthFailureTracker::is_blocked()
IsBlocked(b) == b \in DOMAIN fails /\ gNow < fails[b].until

\* SftpConnectionTracker::try_acquire()
TryAcquireLate(b) == Get(slots, b, 0) <= MaxPerIp
TryAcquire(b) == Get(slots, b, 0) < MaxPerIp

\* ws_handler(), first lock: a request of a blocked bucket is refused.  The client
\* read the vault's fingerprint before it asked.
AdmitsBlocked(b) == TRUE
Admits(b) == ~IsBlocked(b)
CheckBlock(l, b, h) ==
    /\ login[l].pc = "new" /\ l = CHOOSE x \in Logins : login[x].pc = "new"
    /\ Admits(b)
    /\ login' = [login EXCEPT ![l] = [@ EXCEPT !.pc = "checked", !.b = b, !.host = h,
                                               !.stored = pin[h]]]
    /\ UNCHANGED <<gNow, trackers, serverKey, pin, gatePast>>

\* Second lock: a slot, or the request is refused.  The address checks that follow
\* fail or not, and the guard is dropped with the response.
Upgrade(l) ==
    LET b == login[l].b IN
    /\ login[l].pc = "checked"
    /\ IF TryAcquire(b)
         THEN slots' = Put(slots, b, Get(slots, b, 0) + 1) /\ At(l, "upgraded")
         ELSE slots' = slots /\ login' = [login EXCEPT ![l] = NoSession("gone")]
    /\ UNCHANGED <<gNow, fails, seenHosts, serverKey, pin, gatePast>>

\* SftpConnectionGuard::drop(), wherever the session ends.
ReleasedKept(b) == slots
Released(b) ==
    IF SatSub(Get(slots, b, 0), 1) = 0 THEN Drop(slots, b)
    ELSE Put(slots, b, SatSub(slots[b], 1))
End(l) ==
    /\ l \in Held
    /\ slots' = Released(login[l].b)
    /\ login' = [login EXCEPT ![l] = NoSession("gone")]
    /\ trusted' = Drop(trusted, l)
    /\ UNCHANGED <<gNow, fails, seenHosts, serverKey, pin, wrong, through, late, reached>>

NoFailure == [count |-> 0, start |-> gNow, until |-> 0]

\* record_host(): the window restarts when it is over; one host too many blocks the
\* bucket, under the next lock, and the session is closed.
HostState(b) ==
    IF b \in DOMAIN seenHosts /\ gNow - seenHosts[b].start <= HostWindow THEN seenHosts[b]
    ELSE [names |-> {}, start |-> gNow]
SprayedLate(names) == Cardinality(names) > HostLimit + 1
Sprayed(names) == Cardinality(names) > HostLimit
RecordHost(l) ==
    LET b == login[l].b
        h == login[l].host
        s == [HostState(b) EXCEPT !.names = @ \cup {h}]
        before == IF HostState(b).names = {} THEN {} ELSE reached[b] IN
    /\ login[l].pc = "upgraded"
    /\ seenHosts' = Put(seenHosts, b, s)
    /\ reached' = [reached EXCEPT ![b] = IF Sprayed(s.names) THEN before ELSE before \cup {h}]
    /\ At(l, IF Sprayed(s.names) THEN "spray" ELSE "connect")
    /\ UNCHANGED <<gNow, slots, fails, serverKey, pin, wrong, through, late, trusted>>

\* A block that falls on a bucket finds these sessions past the check.
NoteFall(b) ==
    LET falls == ~IsBlocked(b) /\ IsBlocked(b)' IN
    /\ through' = IF falls THEN [through EXCEPT ![b] = Passed(b)] ELSE through
    /\ late' = IF falls THEN [late EXCEPT ![b] = {}] ELSE late

\* apply_block()
ApplyBlock(l) ==
    LET b == login[l].b IN
    /\ login[l].pc = "spray"
    /\ fails' = Put(fails, b, [Get(fails, b, NoFailure) EXCEPT !.until = gNow + HostBlock])
    /\ At(l, "closing")
    /\ UNCHANGED <<gNow, slots, seenHosts, serverKey, pin, wrong, reached, trusted>>
    /\ NoteFall(b)

\* run_session() steps 1 and 2: the banner is checked, the SSH handshake captures
\* the key of the server, and the key is sent to the client.
SendHostKey(l) ==
    /\ login[l].pc = "connect"
    /\ login' = [login EXCEPT ![l] = [@ EXCEPT !.pc = "hostkey", !.key = serverKey[login[l].host]]]
    /\ UNCHANGED <<gNow, trackers, serverKey, pin, gatePast>>

\* handshake(): the key the vault had when the client was made must match, a first
\* one is shown to the user and pinned.  What does not match closes the transport.
KeyMatchesAny(known, key) == TRUE
KeyMatches(known, key) == known = None \/ known = key
AcceptHostKey(l) ==
    LET known == login[l].stored
        key == login[l].key IN
    /\ login[l].pc = "hostkey" /\ KeyMatches(known, key)
    /\ pin' = [pin EXCEPT ![login[l].host] = IF known = None THEN key ELSE @]
    /\ trusted' = Put(trusted, l, IF known = None THEN key ELSE known)
    /\ At(l, "accepted")
    /\ UNCHANGED <<gNow, trackers, serverKey, wrong, through, late, reached>>

\* record_failure(), before the credentials are tried.
FailureState(b) ==
    LET s == Get(fails, b, NoFailure) IN
    IF gNow - s.start > FailureWindow THEN NoFailure ELSE s
Counted(b) ==
    LET s == [FailureState(b) EXCEPT !.count = @ + 1] IN
    IF s.count >= FailureLimit THEN [s EXCEPT !.until = gNow + FailureBlock] ELSE s
RecordFailure(l) ==
    LET b == login[l].b IN
    /\ login[l].pc = "accepted"
    /\ fails' = IF IsBlocked(b) THEN fails ELSE Put(fails, b, Counted(b))
    /\ wrong' = [wrong EXCEPT ![b] =
                   IF ~IsBlocked(b) /\ FailureState(b) # Get(fails, b, NoFailure) THEN 0 ELSE @]
    /\ login' = [login EXCEPT ![l] = [@ EXCEPT !.pc = "auth", !.counted = ~IsBlocked(b)]]
    /\ UNCHANGED <<gNow, slots, seenHosts, serverKey, pin, reached, trusted>>
    /\ NoteFall(b)

\* authenticate_password() or auth_pubkey() answers no, or fails.
AuthRefused(l) ==
    LET b == login[l].b IN
    /\ login[l].pc = "auth"
    /\ IF login[l].counted THEN wrong' = [wrong EXCEPT ![b] = @ + 1] /\ UNCHANGED late
       ELSE late' = [late EXCEPT ![b] = @ \cup {l}] /\ UNCHANGED wrong
    /\ At(l, "closing")
    /\ UNCHANGED <<gNow, trackers, serverKey, pin, through, reached, trusted>>

\* refund_failure(): the count goes back, a block stays.
RefundFailure(l) ==
    LET b == login[l].b IN
    /\ login[l].pc = "auth"
    /\ fails' = IF b \in DOMAIN fails THEN [fails EXCEPT ![b].count = SatSub(@, 1)] ELSE fails
    /\ At(l, "ready")
    /\ UNCHANGED <<gNow, slots, seenHosts, serverKey, pin, gatePast>>

\* The operator of a host replaces its key.
RotateKey(h) ==
    /\ serverKey[h] < LastKey
    /\ serverKey' = [serverKey EXCEPT ![h] = @ + 1]
    /\ UNCHANGED <<gNow, trackers, login, pin, gatePast>>

\* record_host() reads the clock once for its two locks: it does not advance between them.
GateTick ==
    /\ gNow < GateTime /\ \A l \in Logins : login[l].pc # "spray"
    /\ gNow' = gNow + 1
    /\ UNCHANGED <<trackers, login, serverKey, pin, gatePast>>

GateNext ==
    \/ \E l \in Logins, b \in Clients, h \in Hosts : CheckBlock(l, b, h)
    \/ \E l \in Logins :
         \/ Upgrade(l) \/ End(l) \/ RecordHost(l) \/ ApplyBlock(l) \/ SendHostKey(l) \/ AcceptHostKey(l)
         \/ RecordFailure(l) \/ AuthRefused(l) \/ RefundFailure(l)
    \/ \E h \in Hosts : RotateKey(h)
    \/ GateTick
GateSpec == GateInit /\ [][GateNext]_gateVars
-----------------------------------------------------------------------------
\* The maps of the guard: a bucket without a session has no entry, and none is over its limit.
GateTypeOK ==
    /\ gNow \in 1..GateTime
    /\ \A b \in DOMAIN slots : b \in Clients /\ slots[b] \in 1..MaxPerIp
    /\ \A b \in DOMAIN fails : fails[b] \in [count : Nat, start : 0..gNow, until : Nat]
    /\ \A b \in DOMAIN seenHosts : seenHosts[b].names \subseteq Hosts

\* The count of a bucket is exactly its open sessions, whichever step a session
\* failed at: no slot leaks and none is given back twice (SftpConnectionGuard).
GateSlotsExact ==
    \A b \in Clients : Get(slots, b, 0) = Cardinality({l \in Held : login[l].b = b})

\* Passwords a bucket can get wrong: in a window the limit, and as many again as
\* sessions whose tentative failure an older window took with it; in a block one for
\* each session that was past the check when the block fell and for no other, because
\* the block is read there only, before the slot is taken (record_failure,
\* refund_failure, is_blocked, try_acquire).
GuessesBounded ==
    \A b \in Clients : wrong[b] < FailureLimit + MaxPerIp /\ late[b] \subseteq through[b]

\* In one window a bucket is connected to at most HostLimit hosts, although the set
\* and the block are under different locks (record_host, apply_block).
HostsBounded == \A b \in Clients : Cardinality(reached[b]) <= HostLimit

\* Credentials go only to a server whose key is the one the vault pinned, or the
\* user accepted on this connection, although hosts change their keys and several
\* connections meet a host for the first time (SftpRelayClient::handshake).
CredentialsToPinned ==
    \A l \in Logins : login[l].pc \in {"accepted", "auth", "ready"} =>
      l \in DOMAIN trusted /\ login[l].key = trusted[l]

\* What the gate of the SFTP endpoint promises: slots given back once, guesses and hosts per
\* address bounded, and no credentials for a host whose key is not the pinned one.
GateInv ==
    /\ GateTypeOK /\ GateSlotsExact /\ GuessesBounded /\ HostsBounded
    /\ CredentialsToPinned
=============================================================================
