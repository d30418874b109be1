-------------------------- MODULE RelayEnrollment --------------------------
(***************************************************************************)
(* Who may use a restricted relay: the device, invite and bootstrap tables *)
(* (byo-relay/src/enrollment.rs), the handlers and middlewares over them   *)
(* (enrollment_admin.rs) and the operator's command line (bin/admin.rs).   *)
(*                                                                         *)
(* A step is one transaction or one autocommitted statement: the owner     *)
(* middleware authorises a request in one step and the handler acts in a   *)
(* later one.  The command line is another process on the same database.   *)
(* A request that is refused changes nothing and is not a step; so is one  *)
(* whose public key is already enrolled, which rolls its transaction back. *)
(* The proof-of-work gate of claims and redeems is in RelayAuth.           *)
(* The plaintext of a bootstrap token is in one file, which the starting   *)
(* server and the command line overwrite and claim-token reads and unlinks.*)
(***************************************************************************)
EXTENDS Naturals, FiniteSets, Maps

CONSTANTS
    Devices, Invites, Tokens,   \* fresh UUIDs, codes and bootstrap tokens
    Calls,                      \* authorised requests under way
    DeviceTtl, RefreshWindow,   \* DEVICE_COOKIE_TTL_SECS, .._REFRESH_WINDOW_SECS
    DeviceLeeway,               \* validation.leeway of verify_device_jwt()
    InviteTtl, TokenTtl,
    EnrollTime                  \* bound on the clock

ASSUME EnrollAssumption ==
    /\ {DeviceTtl, RefreshWindow, InviteTtl, TokenTtl} \subseteq Nat \ {0}
    /\ DeviceLeeway \in Nat /\ EnrollTime \in Nat
    /\ IsFiniteSet(Devices) /\ None \notin Devices \cup Tokens /\ Tokens \cap Invites = {}

VARIABLES
    eNow,
    dev,                \* authorized_devices: device -> [owner, revoked]
    inv,                \* invite_codes: invite -> [by, exp, used]
    tok,                \* bootstrap_token: at most one [t, exp]
    devJar,             \* the browser of a device: expiry of its cookie, 0 without one
    start,              \* bootstrap_if_needed(): [pc, t]
    cli,                \* cmd_regenerate_bootstrap_token(): [pc, t]
    tokenFile,          \* the plaintext at BOOTSTRAP_TOKEN_PATH, None without one
    reading,            \* what claim-token has read and not yet printed
    call,               \* call -> [op, by, arg]
    \* History.
    minted,             \* tokens and invites generated so far
    shown,              \* tokens an operator has seen on stdout
    lost,               \* tokens whose plaintext went with a crash, a failed write or
                        \* a later write or unlink of the file by another process
    via                 \* device -> the token or the invite that enrolled it

boot == <<start, cli, tokenFile, reading, minted, shown, lost>>
enrollVars == <<eNow, dev, inv, tok, devJar, boot, call, via>>

Quiet == [op |-> "none", by |-> None, arg |-> None]

\* count_owners()
ActiveOwners == {d \in DOMAIN dev : dev[d].owner /\ ~dev[d].revoked}
\* has_bootstrap_token()
ValidToken == \E r \in tok : r.exp > eNow

EnrollInit ==
    /\ eNow = 0 /\ dev = EmptyMap /\ inv = EmptyMap /\ tok = {}
    /\ devJar = [d \in Devices |-> 0]
    /\ start = [pc |-> "check", t |-> None] /\ cli = [pc |-> "idle", t |-> None]
    /\ call = [c \in Calls |-> Quiet]
    /\ tokenFile = None /\ reading = None
    /\ minted = {} /\ shown = {} /\ lost = {} /\ via = EmptyMap
-----------------------------------------------------------------------------
(***************************************************************************)
(* Bootstrap tokens.  set_bootstrap_token() is a DELETE and an INSERT.     *)
(***************************************************************************)
\* The INSERT of the only row fails on the row another process put there first.
InsertedBeside(t) == tok \cup {[t |-> t, exp |-> eNow + TokenTtl]}
Inserted(t) == IF tok = {} THEN {[t |-> t, exp |-> eNow + TokenTtl]} ELSE tok

\* The token of the row that is in the file, when the process of t leaves f there.
Overwritten(t, f) == {r.t : r \in {q \in tok : q.t = tokenFile /\ q.t \notin {t, f}}}

\* bootstrap_if_needed(), the two reads; set_bootstrap_token() is called later.
StartupCheck ==
    /\ start.pc = "check"
    /\ start' = [start EXCEPT !.pc = IF ActiveOwners # {} \/ ValidToken THEN "up" ELSE "delete"]
    /\ UNCHANGED <<eNow, dev, inv, tok, devJar, cli, tokenFile, reading, call, minted, shown, lost, via>>

StartupDelete(t) ==
    /\ start.pc = "delete" /\ t \notin minted
    /\ tok' = {} /\ minted' = minted \cup {t}
    /\ start' = [pc |-> "insert", t |-> t]
    /\ UNCHANGED <<eNow, dev, inv, devJar, cli, tokenFile, reading, call, shown, lost, via>>

StartupInsert ==
    /\ start.pc = "insert"
    /\ tok' = Inserted(start.t)
    /\ start' = [start EXCEPT !.pc = IF tok = {} THEN "write" ELSE "up"]
    /\ UNCHANGED <<eNow, dev, inv, devJar, cli, tokenFile, reading, call, minted, shown, lost, via>>

\* fs::write() of the plaintext leaves f: the token, or when it fails the file as it
\* was or cut short.  A failure is only logged.
StartupWrite(f) ==
    /\ start.pc = "write" /\ f \in {start.t, tokenFile, None}
    /\ tokenFile' = f
    /\ lost' = lost \cup Overwritten(start.t, f) \cup ({start.t} \ {f})
    /\ start' = [start EXCEPT !.pc = "up"]
    /\ UNCHANGED <<eNow, dev, inv, tok, devJar, cli, reading, call, minted, shown, via>>

\* cmd_regenerate_bootstrap_token()
CliDelete(t) ==
    /\ cli.pc = "idle" /\ t \notin minted
    /\ tok' = {} /\ minted' = minted \cup {t}
    /\ cli' = [pc |-> "insert", t |-> t]
    /\ UNCHANGED <<eNow, dev, inv, devJar, start, tokenFile, reading, call, shown, lost, via>>

CliInsert ==
    /\ cli.pc = "insert"
    /\ tok' = Inserted(cli.t)
    /\ cli' = [cli EXCEPT !.pc = IF tok = {} THEN "write" ELSE "idle"]
    /\ UNCHANGED <<eNow, dev, inv, devJar, start, tokenFile, reading, call, minted, shown, lost, via>>

\* Without the file the token is printed.
CliPrintsNothing(f) == {}
CliPrints(f) == {cli.t} \ {f}
CliWrite(f) ==
    /\ cli.pc = "write" /\ f \in {cli.t, tokenFile, None}
    /\ tokenFile' = f
    /\ shown' = shown \cup CliPrints(f)
    /\ lost' = lost \cup Overwritten(cli.t, f)
    /\ cli' = [cli EXCEPT !.pc = "idle"]
    /\ UNCHANGED <<eNow, dev, inv, tok, devJar, start, reading, call, minted, via>>

\* `wattcloud claim-token`: cat, then rm and print.
ClaimTokenReads ==
    /\ reading = None /\ tokenFile # None
    /\ reading' = tokenFile
    /\ UNCHANGED <<eNow, dev, inv, tok, devJar, start, cli, tokenFile, call, minted, shown, lost, via>>
ClaimTokenPrints ==
    /\ reading # None
    /\ tokenFile' = None /\ reading' = None
    /\ shown' = shown \cup {reading}
    /\ lost' = lost \cup Overwritten(reading, None)
    /\ UNCHANGED <<eNow, dev, inv, tok, devJar, start, cli, call, minted, via>>

\* The server dies and starts again; the requests under way are gone.
EnrollCrash ==
    /\ start.pc # "check"
    /\ start' = [pc |-> "check", t |-> None]
    /\ lost' = IF start.pc = "write" THEN lost \cup {start.t} ELSE lost
    /\ call' = [c \in Calls |-> Quiet]
    /\ UNCHANGED <<eNow, dev, inv, tok, devJar, cli, tokenFile, reading, minted, shown, via>>
-----------------------------------------------------------------------------
(***************************************************************************)
(* Enrolling a device.                                                     *)
(***************************************************************************)
\* mint_device_jwt() and set_device_cookie()
MintDeviceJwt == eNow + DeviceTtl
SetCookie(d) == devJar' = [devJar EXCEPT ![d] = MintDeviceJwt]
\* Uuid::new_v4()
FreshDevice == CHOOSE d \in Devices : d \notin DOMAIN dev
Enrol(d, owner, credential) ==
    /\ DOMAIN dev # Devices
    /\ dev' = Put(dev, d, [owner |-> owner, revoked |-> FALSE])
    /\ via' = Put(via, d, credential)
    /\ SetCookie(d)

\* claim_bootstrap(), one transaction: owners who are already there do not matter.
ClaimBootstrap(t, d) ==
    /\ \E r \in tok : r.t = t /\ r.exp > eNow
    /\ tok' = {}
    /\ Enrol(d, TRUE, t)
\* post_claim(): whoever was shown the token.
Claim(t, d) ==
    /\ start.pc = "up" /\ t \in shown
    /\ ClaimBootstrap(t, d)
    /\ UNCHANGED <<eNow, inv, call, boot>>

\* redeem_invite(), one transaction, and post_redeem()
RedeemableTwice(i) == i \in DOMAIN inv /\ inv[i].exp > eNow
Redeemable(i) == i \in DOMAIN inv /\ inv[i].used = None /\ inv[i].exp > eNow
RedeemInvite(i, d) ==
    /\ Redeemable(i)
    /\ inv' = [inv EXCEPT ![i].used = d]
    /\ Enrol(d, FALSE, i)
Redeem(i, d) ==
    /\ start.pc = "up" /\ RedeemInvite(i, d)
    /\ UNCHANGED <<eNow, tok, call, boot>>
-----------------------------------------------------------------------------
(***************************************************************************)
(* Middlewares and what they let through.                                  *)
(***************************************************************************)
\* verify_device_jwt(), with its leeway
VerifyDeviceJwt(d) == devJar[d] # 0 /\ eNow <= devJar[d] + DeviceLeeway
\* authenticate_device(): the row decides, the claims of the cookie do not.
Authentic(d) == VerifyDeviceJwt(d) /\ d \in DOMAIN dev /\ ~dev[d].revoked

\* refresh_and_touch(): the sliding refresh.
Refresh(d) ==
    devJar' = IF eNow + RefreshWindow > devJar[d]
                THEN [devJar EXCEPT ![d] = MintDeviceJwt] ELSE devJar

Accept(c, d, op, arg) ==
    /\ call[c] = Quiet
    /\ call' = [call EXCEPT ![c] = [op |-> op, by |-> d, arg |-> arg]]
    /\ UNCHANGED <<eNow, dev, inv, tok, boot, via>>

\* require_owner_device(), before the body of the request is read.
OwnerGate(c, d, op, arg) ==
    /\ start.pc = "up" /\ Authentic(d) /\ dev[d].owner
    /\ op = "revoke" => arg \in DOMAIN dev
    /\ op = "withdraw" => arg \in DOMAIN inv
    /\ Refresh(d)
    /\ Accept(c, d, op, arg)

\* post_signout(), before the store: no refresh.
SignoutGate(c, d) ==
    /\ start.pc = "up" /\ Authentic(d)
    /\ Accept(c, d, "signout", d)
    /\ UNCHANGED devJar

\* clear_device_cookie()
ClearCookie(d) == [devJar EXCEPT ![d] = 0]
\* get_me() renews a cookie that is about to expire.
GetMe(d) ==
    /\ start.pc = "up" /\ Authentic(d) /\ Refresh(d)
    /\ devJar' # devJar
    /\ UNCHANGED <<eNow, dev, inv, tok, call, boot, via>>
\* require_device_cookie() also takes a cookie that does not authenticate from the
\* browser.
DeviceGate(d) ==
    /\ start.pc = "up" /\ devJar[d] # 0
    /\ IF Authentic(d) THEN Refresh(d) ELSE devJar' = ClearCookie(d)
    /\ devJar' # devJar
    /\ UNCHANGED <<eNow, dev, inv, tok, call, boot, via>>

Return(c) == call' = [call EXCEPT ![c] = Quiet]

\* insert_invite()
InsertInvite(i, by) == Put(inv, i, [by |-> by, exp |-> eNow + InviteTtl, used |-> None])
\* post_invite(): the caller may have been revoked since.
MintInvite(c, i) ==
    /\ call[c].op = "invite" /\ i \notin minted
    /\ minted' = minted \cup {i}
    /\ inv' = InsertInvite(i, call[c].by)
    /\ Return(c)
    /\ UNCHANGED <<eNow, dev, tok, devJar, start, cli, tokenFile, reading, shown, lost, via>>

\* revoke_invite() in delete_invite()
RevokeInvite(i) == inv' = Drop(inv, i)
DeleteInvite(c) ==
    /\ call[c].op = "withdraw"
    /\ RevokeInvite(call[c].arg)
    /\ Return(c)
    /\ UNCHANGED <<eNow, dev, tok, devJar, boot, via>>

\* revoke_device(): the owners are counted in the transaction that revokes.
LastOwnerStale(d) == FALSE
LastOwner(d) == dev[d].owner /\ Cardinality(ActiveOwners) <= 1
Revoke(d) ==
    dev' = IF dev[d].revoked \/ LastOwner(d) THEN dev ELSE [dev EXCEPT ![d].revoked = TRUE]
RevokeOk(d) == dev[d].revoked \/ ~LastOwner(d)

\* delete_device()
DeleteDevice(c) ==
    /\ call[c].op = "revoke"
    /\ Revoke(call[c].arg)
    /\ Return(c)
    /\ UNCHANGED <<eNow, inv, tok, devJar, boot, via>>

\* post_signout(): the cookie goes only when the store agreed.
Signout(c) ==
    LET d == call[c].by IN
    /\ call[c].op = "signout"
    /\ Revoke(d)
    /\ devJar' = IF RevokeOk(d) THEN ClearCookie(d) ELSE devJar
    /\ Return(c)
    /\ UNCHANGED <<eNow, inv, tok, boot, via>>

EnrollTick ==
    /\ eNow < EnrollTime
    /\ eNow' = eNow + 1
    /\ UNCHANGED <<dev, inv, tok, devJar, call, boot, via>>

EnrollNext ==
    \/ \E t \in Tokens : StartupDelete(t) \/ CliDelete(t)
    \/ StartupCheck \/ StartupInsert \/ CliInsert \/ EnrollCrash \/ EnrollTick
    \/ \E f \in Tokens \cup {None} : StartupWrite(f) \/ CliWrite(f)
    \/ ClaimTokenReads \/ ClaimTokenPrints
    \/ \E t \in Tokens : Claim(t, FreshDevice)
    \/ \E i \in Invites : Redeem(i, FreshDevice)
    \/ \E c \in Calls, d \in Devices, arg \in Devices : OwnerGate(c, d, "revoke", arg)
    \/ \E c \in Calls, d \in Devices, i \in Invites : OwnerGate(c, d, "withdraw", i)
    \/ \E c \in Calls, d \in Devices : OwnerGate(c, d, "invite", None)
    \/ \E c \in Calls, d \in Devices : SignoutGate(c, d)
    \/ \E d \in Devices : DeviceGate(d) \/ GetMe(d)
    \/ \E c \in Calls, i \in Invites : MintInvite(c, i)
    \/ \E c \in Calls : DeleteInvite(c) \/ DeleteDevice(c) \/ Signout(c)
EnrollSpec == EnrollInit /\ [][EnrollNext]_enrollVars
-----------------------------------------------------------------------------
\* The tables: references hold, every device came from a token or an invite, and there is
\* one bootstrap token at most (set_bootstrap_token).
EnrollTypeOK ==
    /\ eNow \in 0..EnrollTime
    /\ \A d \in DOMAIN dev : d \in Devices /\ dev[d] \in [owner : BOOLEAN, revoked : BOOLEAN]
    /\ \A i \in DOMAIN inv : i \in Invites /\ inv[i].by \in DOMAIN dev
                             /\ inv[i].used \in DOMAIN dev \cup {None}
    /\ Cardinality(tok) <= 1
    /\ DOMAIN via = DOMAIN dev

\* Once a relay has had an owner it always has an active one, whichever owners
\* revoke each other or sign out at the same time (revoke_device).
NeverOwnerless == (\E d \in DOMAIN dev : dev[d].owner) => ActiveOwners # {}

\* A token or an invite enrols at most one device, through concurrent redeems,
\* withdrawals and regenerations, and only a token makes an owner
\* (claim_bootstrap, redeem_invite).
EnrolsOnce ==
    /\ \A d, e \in DOMAIN via : via[d] = via[e] => d = e
    /\ \A d \in DOMAIN dev : dev[d].owner <=> via[d] \in Tokens

\* The token in the table is one an operator can read or has seen, whichever way a
\* starting server and the command line interleave their DELETEs, INSERTs and writes,
\* unless its plaintext was lost: the server died before its write, the write failed,
\* or the other process, whose row had been replaced, wrote or unlinked the file after
\* it (set_bootstrap_token, bootstrap_if_needed).
BootstrapClaimable ==
    (start.pc = "up" /\ cli.pc = "idle") =>
        \A r \in tok : r.t \in {tokenFile, reading} \cup shown \cup lost

\* What enrollment.rs promises of its tokens: an invite enrols one device, and a bootstrap
\* token that is still claimable is one the operator can find, outside the named losses.
EnrollInv == EnrollTypeOK /\ EnrolsOnce /\ BootstrapClaimable
=============================================================================
