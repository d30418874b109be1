----------------------------- MODULE RelayAuth -----------------------------
(***************************************************************************)
(* Challenges, purpose-scoped cookies and the set of consumed jtis of the  *)
(* relay (byo-relay/src/relay_auth.rs), the gates of the WebSocket upgrade *)
(* (relay_ws.rs) and the proof-of-work gate of the admin handlers.         *)
(*                                                                         *)
(* The flows of one browser share its cookie jar.  A purpose is a category *)
(* with a target; the proof of work is an answer that is right or wrong; a *)
(* step is one critical section.  Whoever has seen a cookie or an answer   *)
(* may send it again.                                                      *)
(***************************************************************************)
EXTENDS Naturals, FiniteSets, Maps

CONSTANTS
    Flows,              \* requests of a browser for something a cookie opens
    Jtis,               \* fresh UUIDs
    Purposes,           \* [cat : Categories, target : ...]
    Ips,
    ChallengeTtl,       \* CHALLENGE_TTL_SECS
    CookieTtl,          \* relay_cookie_ttl_secs
    StatsTtl,           \* STATS_COOKIE_TTL_SECS
    JwtLeeway,          \* leeway of jsonwebtoken's Validation
    AuthTime            \* bound on the clock

Categories == {"sftp", "enroll", "share", "stats", "admin"}
ASSUME AuthAssumption ==
    /\ {ChallengeTtl, CookieTtl, StatsTtl} \subseteq Nat \ {0}
    /\ JwtLeeway \in Nat /\ AuthTime \in Nat
    /\ \A p \in Purposes : p.cat \in Categories
    /\ None \notin Jtis

VARIABLES
    aNow,
    chal,               \* ChallengeStore: nonce -> [p, ip, at]; a flow asks for one
    cookie,             \* cookies issued: jti -> [p, exp]
    jar,                \* the browser: cookie name -> jti
    consumed,           \* JtiConsumedSet: jti -> exp
    flow,               \* flow -> [pc, p, jti]
    \* History.
    source,             \* jti -> the challenge it was issued for
    admitted            \* jti -> [early, late]: acceptances before exp, and from exp on

authVars == <<aNow, chal, cookie, jar, consumed, flow, source, admitted>>
store == <<cookie, jar, consumed>>

\* cookie_name_for_purpose(): whatever is not one of the three has the statistics' name.
CookieNameShared(p) == "relay_auth"
CookieName(p) == IF p.cat \in {"sftp", "enroll", "share"} THEN p.cat ELSE "stats"

\* Purposes of one group may displace each other's cookie: a category is a group of
\* its own, but for the administrator's, which is with the statistics'.
Group(p) == IF p.cat = "admin" THEN "stats" ELSE p.cat

AuthInit ==
    /\ aNow = 0 /\ chal = EmptyMap /\ cookie = EmptyMap /\ jar = EmptyMap
    /\ consumed = EmptyMap /\ source = EmptyMap /\ admitted = EmptyMap
    /\ flow = [f \in Flows |-> [pc |-> "idle", p |-> None, jti |-> None]]
-----------------------------------------------------------------------------
\* get_challenge() and issue_admin_challenge(), then ChallengeStore::insert():
\* the expired entries leave the map.
GetChallenge(f, p, ip) ==
    /\ flow[f].pc = "idle"
    /\ chal' = Put(Keep(chal, {m \in DOMAIN chal : aNow - chal[m].at < ChallengeTtl}),
                   f, [p |-> p, ip |-> ip, at |-> aNow])
    /\ flow' = [flow EXCEPT ![f] = [@ EXCEPT !.pc = "challenged", !.p = p]]
    /\ UNCHANGED <<aNow, store, source, admitted>>

\* ChallengeStore::take(): the entry leaves the map, whatever the answer is worth.
TakePeek(n) == chal
Take(n) == Drop(chal, n)
Outstanding(n) == n \in DOMAIN chal /\ aNow - chal[n].at < ChallengeTtl

\* The answer of the client that asked is bound to its address, and must solve it.
Answers(n, ip, solved) == Outstanding(n) /\ chal[n].ip = ip /\ solved

\* Uuid::new_v4()
FreshJti == CHOOSE j \in Jtis : j \notin DOMAIN cookie

Ttl(p) == IF p.cat = "stats" THEN StatsTtl ELSE CookieTtl

\* post_relay_auth() for an answer sent from ip, to a challenge of any purpose: the
\* cookie replaces the one of its name.  A second copy of the request finds no challenge.
PostRelayAuth(n, ip, solved) ==
    /\ n \in DOMAIN chal
    /\ Jtis # DOMAIN cookie
    /\ chal' = Take(n)
    /\ IF Answers(n, ip, solved)
         THEN LET p == chal[n].p
                  j == FreshJti IN
              /\ cookie' = Put(cookie, j, [p |-> p, exp |-> aNow + Ttl(p)])
              /\ jar' = Put(jar, CookieName(p), j)
              /\ source' = Put(source, j, n)
              /\ admitted' = Put(admitted, j, [early |-> 0, late |-> 0])
              /\ flow' = [f \in Flows |->
                            IF f = n /\ flow[f].pc = "challenged"
                              THEN [flow[f] EXCEPT !.pc = "holding", !.jti = j]
                            ELSE IF flow[f].pc = "holding" /\ Group(flow[f].p) = Group(p)
                              THEN [flow[f] EXCEPT !.pc = "replaced"]
                            ELSE flow[f]]
         ELSE UNCHANGED <<cookie, jar, source, admitted, flow>>
    /\ UNCHANGED <<aNow, consumed>>

\* consume_and_verify() in post_claim() and post_redeem(): no cookie is issued here.
AdminGate(n, ip, p, solved) ==
    /\ n \in DOMAIN chal /\ p.cat = "admin"
    /\ chal' = Take(n)
    /\ flow' = [f \in Flows |->
                  IF f = n /\ Answers(n, ip, solved) /\ chal[n].p = p
                    THEN [flow[f] EXCEPT !.pc = "done"] ELSE flow[f]]
    /\ UNCHANGED <<aNow, store, source, admitted>>

\* verify_relay_cookie(): the leeway lets a cookie in after its expiry.
Verifies(j, p) ==
    /\ j \in DOMAIN cookie
    /\ cookie[j].exp + JwtLeeway >= aNow
    /\ cookie[j].p = p

\* JtiConsumedSet::try_consume(): what has expired is forgotten first.
PrunedAll == EmptyMap
Pruned == Keep(consumed, {k \in DOMAIN consumed : consumed[k] > aNow})
FirstUse(j) == j \notin DOMAIN Pruned

ConsumedUntilNow(j) == aNow
ConsumedUntil(j) == cookie[j].exp
Admit(j) ==
    admitted' = IF aNow < cookie[j].exp THEN [admitted EXCEPT ![j].early = @ + 1]
                ELSE [admitted EXCEPT ![j].late = 1]

\* The upgrade of ws_handler(), upload_b2_share() and bundle_init(): a cookie is
\* consumed, first or again, with the purpose of the target it is sent for.
PresentCookie(j, p) ==
    /\ p.cat \in {"sftp", "enroll", "share"} /\ Verifies(j, p)
    /\ IF FirstUse(j) THEN consumed' = Put(Pruned, j, ConsumedUntil(j)) /\ Admit(j)
       ELSE consumed' = Pruned /\ UNCHANGED admitted
    /\ flow' = [f \in Flows |-> IF flow[f].jti = j /\ FirstUse(j)
                                  THEN [flow[f] EXCEPT !.pc = "done"] ELSE flow[f]]
    /\ UNCHANGED <<aNow, chal, cookie, jar, source>>

\* post_stats(): the cookie is verified and not consumed.
PresentStats(j, p) ==
    /\ p.cat = "stats" /\ Verifies(j, p)
    /\ \E f \in Flows : flow[f].jti = j /\ flow[f].pc = "holding"
    /\ flow' = [f \in Flows |-> IF flow[f].jti = j THEN [flow[f] EXCEPT !.pc = "done"]
                                ELSE flow[f]]
    /\ UNCHANGED <<aNow, chal, store, source, admitted>>

\* main(): the challenges and the consumed jtis are in memory; cookies are signed
\* and outlive the process.  The history counts per life of the process.
AuthRestart ==
    /\ chal # EmptyMap \/ consumed # EmptyMap
    /\ chal' = EmptyMap /\ consumed' = EmptyMap
    /\ admitted' = [j \in DOMAIN admitted |-> [early |-> 0, late |-> 0]]
    /\ UNCHANGED <<aNow, cookie, jar, flow, source>>

AuthTick ==
    /\ aNow < AuthTime
    /\ aNow' = aNow + 1
    /\ UNCHANGED <<chal, store, flow, source, admitted>>

AuthNext ==
    \/ \E f \in Flows, p \in Purposes, ip \in Ips : GetChallenge(f, p, ip)
    \/ \E n \in Flows, ip \in Ips, solved \in BOOLEAN : PostRelayAuth(n, ip, solved)
    \/ \E n \in Flows, ip \in Ips, p \in Purposes, solved \in BOOLEAN :
         AdminGate(n, ip, p, solved)
    \/ \E j \in Jtis, p \in Purposes : PresentCookie(j, p) \/ PresentStats(j, p)
    \/ AuthTick \/ AuthRestart
AuthSpec == AuthInit /\ [][AuthNext]_authVars
-----------------------------------------------------------------------------
\* The stores: a cookie has one origin, and a jti is kept as consumed until exactly the expiry
\* of its cookie (JtiConsumedSet).
AuthTypeOK ==
    /\ aNow \in 0..AuthTime
    /\ \A n \in DOMAIN chal : n \in Flows /\ chal[n] \in [p : Purposes, ip : Ips, at : 0..AuthTime]
    /\ \A j \in DOMAIN cookie : j \in Jtis /\ cookie[j].p \in Purposes
    /\ DOMAIN source = DOMAIN cookie /\ DOMAIN admitted = DOMAIN cookie
    /\ \A j \in DOMAIN consumed : j \in DOMAIN cookie /\ consumed[j] = cookie[j].exp
    /\ \A f \in Flows : flow[f].pc \in {"idle", "challenged", "holding", "replaced", "done"}

\* No challenge yields two cookies, however often its answer is posted, and the
\* cookie is for the purpose and from the address the challenge was asked with
\* (ChallengeStore::take, post_relay_auth).
CookiePerChallenge ==
    /\ \A j, k \in DOMAIN source : source[j] = source[k] => j = k
    /\ \A f \in Flows : flow[f].jti # None =>
         /\ source[flow[f].jti] = f
         /\ cookie[flow[f].jti].p = flow[f].p

\* Before its expiry, and in one life of the process, a cookie opens one connection
\* or one share, whichever other cookies are presented and pruned in between
\* (JtiConsumedSet::try_consume).
AcceptedOnce == \A j \in DOMAIN admitted : admitted[j].early <= 1

\* A flow that holds its cookie still has it in the jar unless a later answer for a
\* rival purpose took its name: a flush of the statistics, or the answer to a challenge
\* of the administrator, between an SFTP cookie and the upgrade leaves the SFTP cookie
\* in place.  The administrator's own cookie displaces that of the statistics, whose
\* name it gets (cookie_name_for_purpose).
FlowKeepsCookie ==
    \A f \in Flows : flow[f].pc = "holding" => flow[f].jti \in {jar[c] : c \in DOMAIN jar}

\* What relay_auth.rs promises of challenges and cookies: one cookie for one challenge, one
\* admission for one single-use cookie, and a flow keeps the cookie it was given.
AuthInv == AuthTypeOK /\ CookiePerChallenge /\ AcceptedOnce /\ FlowKeepsCookie
=============================================================================
