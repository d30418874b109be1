------------------------- MODULE RelayAccessProofs -------------------------
(***************************************************************************)
(* Proofs about who the relay lets in, for any number of browsers,         *)
(* cookies, devices, tokens, invites and requests under way: what RelayAuth *)
(* promises of challenges and cookies, what RelayEnrollment promises of    *)
(* owners, devices and bootstrap tokens, and what RelayChannels promises   *)
(* the pair of devices that meet in a channel, for any number of channels, *)
(* objects, sessions and messages.                                         *)
(***************************************************************************)
EXTENDS RelayAuth, RelayEnrollment, RelayChannels, FiniteSetTheorems, TLAPS

(***************************************************************************)
(* Challenges and cookies.                                                 *)
(***************************************************************************)
FlowStates == {"idle", "challenged", "holding", "replaced", "done"}

AuthTypes ==
    /\ AuthTypeOK
    /\ flow \in [Flows -> [pc : FlowStates, p : Purposes \cup {None}, jti : Jtis \cup {None}]]
    /\ \A j \in DOMAIN cookie : /\ cookie[j].exp \in Nat
                                /\ admitted[j] \in [early : Nat, late : Nat]

\* A challenge is open only while its flow has no cookie yet, and it is the one
\* the flow asked for.
OpenChallenge ==
    \A n \in DOMAIN chal : flow[n].pc = "challenged" /\ flow[n].p = chal[n].p

\* A flow without a cookie has been the source of none; the cookie of a flow is
\* one the relay issued.
Unanswered ==
    /\ \A j \in DOMAIN source : /\ source[j] \in Flows
                                /\ flow[source[j]].pc \notin {"idle", "challenged"}
    /\ \A f \in Flows : /\ flow[f].pc \in {"idle", "challenged"} => flow[f].jti = None
                        /\ flow[f].jti # None => flow[f].jti \in DOMAIN cookie

\* What has been admitted once is remembered until the cookie expires.
Remembered ==
    \A j \in DOMAIN admitted :
        admitted[j].early # 0 => j \in DOMAIN consumed \/ aNow >= cookie[j].exp

\* The name under which a flow's cookie is in the jar is that of its category.
JarHolds ==
    \A f \in Flows : flow[f].pc = "holding" =>
        /\ flow[f].jti # None /\ flow[f].p \in Purposes
        /\ CookieName(flow[f].p) \in DOMAIN jar
        /\ jar[CookieName(flow[f].p)] = flow[f].jti

\* The inductive invariant.
AuthInd ==
    /\ AuthTypes /\ CookiePerChallenge /\ AcceptedOnce
    /\ OpenChallenge /\ Unanswered /\ Remembered /\ JarHolds
-----------------------------------------------------------------------------
\* What an update of a flow's state and cookie returns.
LEMMA FlowRecord ==
    ASSUME NEW h \in [pc : FlowStates, p : Purposes \cup {None}, jti : Jtis \cup {None}],
           NEW pc \in FlowStates, NEW j \in Jtis
    PROVE  /\ [h EXCEPT !.pc = pc, !.jti = j] = [pc |-> pc, p |-> h.p, jti |-> j]
           /\ [h EXCEPT !.pc = pc] = [pc |-> pc, p |-> h.p, jti |-> h.jti]
<1>1. PICK a \in FlowStates, b \in Purposes \cup {None}, c \in Jtis \cup {None} :
         h = [pc |-> a, p |-> b, jti |-> c]
  OBVIOUS
<1>2. [h EXCEPT !.pc = pc, !.jti = j] = [pc |-> pc, p |-> h.p, jti |-> j]
  <2> DEFINE r == [h EXCEPT !.pc = pc, !.jti = j]
  <2>1. r \in [pc : FlowStates, p : Purposes \cup {None}, jti : Jtis \cup {None}]
    OBVIOUS
  <2>2. r.pc = pc /\ r.p = h.p /\ r.jti = j
    OBVIOUS
  <2> HIDE DEF r
  <2>3. r = [pc |-> pc, p |-> h.p, jti |-> j]
    BY <2>1, <2>2
  <2> QED BY <2>3 DEF r
<1>3. [h EXCEPT !.pc = pc] = [pc |-> pc, p |-> h.p, jti |-> h.jti]
  BY <1>1
<1> QED BY <1>2, <1>3

\* A flow record of the right shape, field by field.
LEMMA FlowFields ==
    ASSUME NEW f \in Flows, AuthTypes
    PROVE  /\ flow[f].pc \in FlowStates /\ flow[f].p \in Purposes \cup {None}
           /\ flow[f].jti \in Jtis \cup {None}
           /\ \A pc \in FlowStates : [flow[f] EXCEPT !.pc = pc] =
                 [pc |-> pc, p |-> flow[f].p, jti |-> flow[f].jti]
BY DEF AuthTypes

\* The relay starts with empty stores.
LEMMA AuthStart == AuthInit => AuthInd
<1> SUFFICES ASSUME AuthInit PROVE AuthInd
  OBVIOUS
<1> USE DEF AuthInit, EmptyMap
<1>1. AuthTypes
  BY AuthAssumption DEF AuthTypes, AuthTypeOK, FlowStates
<1> QED BY <1>1 DEF AuthInd, CookiePerChallenge, AcceptedOnce, OpenChallenge, Unanswered,
               Remembered, JarHolds

\* get_challenge() opens a challenge for a flow that has none.
LEMMA GetChallengeInd ==
    ASSUME NEW f \in Flows, NEW p \in Purposes, NEW ip \in Ips,
           AuthInd, GetChallenge(f, p, ip)
    PROVE  AuthInd'
<1> USE DEF AuthInd
<1>f. /\ flow'[f] = [pc |-> "challenged", p |-> p, jti |-> flow[f].jti]
      /\ \A g \in Flows : g # f => flow'[g] = flow[g]
      /\ flow' \in [Flows -> [pc : FlowStates, p : Purposes \cup {None}, jti : Jtis \cup {None}]]
      /\ flow[f].pc = "idle"
  BY FlowFields, ZenonT(40) DEF GetChallenge, AuthTypes, FlowStates
<1>c. /\ DOMAIN chal' \subseteq DOMAIN chal \cup {f}
      /\ chal'[f] = [p |-> p, ip |-> ip, at |-> aNow]
      /\ \A n \in DOMAIN chal' : n # f => n \in DOMAIN chal /\ chal'[n] = chal[n]
  BY DEF GetChallenge, Put, Keep
<1>u. UNCHANGED <<aNow, cookie, jar, consumed, source, admitted>>
  BY DEF GetChallenge, store
<1>1. AuthTypes'
  BY <1>f, <1>c, <1>u DEF AuthTypes, AuthTypeOK, FlowStates
<1>2. (CookiePerChallenge /\ AcceptedOnce /\ Remembered)'
  BY <1>f, <1>u DEF CookiePerChallenge, AcceptedOnce, Remembered, Unanswered
<1>3. OpenChallenge'
  BY <1>f, <1>c DEF OpenChallenge, AuthTypes, AuthTypeOK
<1>4. Unanswered'
  BY <1>f, <1>u DEF Unanswered
<1>5. JarHolds'
  BY <1>f, <1>u DEF JarHolds
<1> QED BY <1>1, <1>2, <1>3, <1>4, <1>5

\* A challenge that was taken is gone, whatever its answer was worth.
LEMMA TakeInd ==
    ASSUME NEW n \in DOMAIN chal, AuthInd, chal' = Take(n),
           UNCHANGED <<aNow, cookie, jar, consumed, flow, source, admitted>>
    PROVE  AuthInd'
<1>1. /\ DOMAIN chal' \subseteq DOMAIN chal
      /\ \A m \in DOMAIN chal' : chal'[m] = chal[m]
  BY DEF Take, Drop
<1> QED BY <1>1 DEF AuthInd, AuthTypes, AuthTypeOK, CookiePerChallenge, AcceptedOnce,
               OpenChallenge, Unanswered, Remembered, JarHolds

\* Two purposes of different groups have different cookie names.
LEMMA NamesOfGroups ==
    ASSUME NEW p \in Purposes, NEW q \in Purposes, Group(q) # Group(p)
    PROVE  CookieName(q) # CookieName(p)
<1>1. p.cat \in Categories /\ q.cat \in Categories
  BY AuthAssumption
<1> QED BY <1>1 DEF Group, CookieName, Categories

\* post_relay_auth() issues one cookie for the challenge it takes.
LEMMA PostRelayAuthInd ==
    ASSUME NEW n \in Flows, NEW ip \in Ips, NEW solved \in BOOLEAN,
           AuthInd, PostRelayAuth(n, ip, solved)
    PROVE  AuthInd'
<1> USE DEF AuthInd
<1>0. CASE ~Answers(n, ip, solved)
  BY <1>0, TakeInd DEF PostRelayAuth
<1>1. CASE Answers(n, ip, solved)
  <2> DEFINE p == chal[n].p
             j == FreshJti
  <2>n. /\ n \in DOMAIN chal /\ flow[n].pc = "challenged" /\ flow[n].p = p /\ p \in Purposes
        /\ flow[n].jti = None
    BY DEF PostRelayAuth, OpenChallenge, AuthTypes, AuthTypeOK, Unanswered
  <2>j. j \in Jtis /\ j \notin DOMAIN cookie /\ j # None
    <3>1. \E k \in Jtis : k \notin DOMAIN cookie
      BY DEF PostRelayAuth, AuthTypes, AuthTypeOK
    <3> QED BY <3>1, AuthAssumption DEF FreshJti
  <2>chal. /\ DOMAIN chal' = DOMAIN chal \ {n}
           /\ \A m \in DOMAIN chal' : chal'[m] = chal[m]
    BY DEF PostRelayAuth, Take, Drop
  <2>cookie. /\ DOMAIN cookie' = DOMAIN cookie \cup {j}
             /\ cookie'[j] = [p |-> p, exp |-> aNow + Ttl(p)]
             /\ \A k \in DOMAIN cookie : cookie'[k] = cookie[k]
    BY <1>1, <2>j DEF Put, PostRelayAuth
  <2>source. /\ DOMAIN source' = DOMAIN cookie \cup {j}
             /\ source'[j] = n
             /\ \A k \in DOMAIN cookie : source'[k] = source[k]
    BY <1>1, <2>j DEF Put, PostRelayAuth, AuthTypes, AuthTypeOK
  <2>admitted. /\ DOMAIN admitted' = DOMAIN cookie \cup {j}
               /\ admitted'[j] = [early |-> 0, late |-> 0]
               /\ \A k \in DOMAIN cookie : admitted'[k] = admitted[k]
    BY <1>1, <2>j DEF Put, PostRelayAuth, AuthTypes, AuthTypeOK
  <2>jar. /\ DOMAIN jar' = DOMAIN jar \cup {CookieName(p)}
          /\ jar'[CookieName(p)] = j
          /\ \A c \in DOMAIN jar : c # CookieName(p) => jar'[c] = jar[c]
    BY <1>1 DEF Put, PostRelayAuth
  <2>flow. /\ flow' \in [Flows -> [pc : FlowStates, p : Purposes \cup {None}, jti : Jtis \cup {None}]]
           /\ flow'[n] = [pc |-> "holding", p |-> p, jti |-> j]
           /\ \A f \in Flows : f # n =>
                /\ flow'[f].p = flow[f].p /\ flow'[f].jti = flow[f].jti
                /\ flow'[f].pc = IF flow[f].pc = "holding" /\ Group(flow[f].p) = Group(p)
                                   THEN "replaced" ELSE flow[f].pc
    <3>1. flow' = [f \in Flows |->
                     IF f = n THEN [pc |-> "holding", p |-> p, jti |-> j]
                     ELSE IF flow[f].pc = "holding" /\ Group(flow[f].p) = Group(p)
                       THEN [pc |-> "replaced", p |-> flow[f].p, jti |-> flow[f].jti]
                     ELSE flow[f]]
      <4>1. \A f \in Flows : /\ [flow[f] EXCEPT !.pc = "holding", !.jti = j] =
                                   [pc |-> "holding", p |-> flow[f].p, jti |-> j]
                              /\ [flow[f] EXCEPT !.pc = "replaced"] =
                                   [pc |-> "replaced", p |-> flow[f].p, jti |-> flow[f].jti]
        BY <2>j, FlowRecord DEF AuthTypes, FlowStates
      <4>2. flow' = [f \in Flows |->
                      IF f = n /\ flow[f].pc = "challenged"
                        THEN [flow[f] EXCEPT !.pc = "holding", !.jti = j]
                      ELSE IF flow[f].pc = "holding" /\ Group(flow[f].p) = Group(p)
                        THEN [flow[f] EXCEPT !.pc = "replaced"]
                      ELSE flow[f]]
        BY <1>1 DEF PostRelayAuth
      <4> QED BY <2>n, <4>1, <4>2
    <3>2. ASSUME NEW f \in Flows
          PROVE  /\ flow'[f] \in [pc : FlowStates, p : Purposes \cup {None}, jti : Jtis \cup {None}]
                 /\ f # n => /\ flow'[f].p = flow[f].p /\ flow'[f].jti = flow[f].jti
                             /\ flow'[f].pc = IF flow[f].pc = "holding" /\ Group(flow[f].p) = Group(p)
                                                THEN "replaced" ELSE flow[f].pc
      BY <2>n, <2>j, <3>1, FlowFields DEF AuthTypes, FlowStates
    <3> QED BY <3>1, <3>2
  <2>u. UNCHANGED <<aNow, consumed>>
    BY DEF PostRelayAuth
  <2>ttl. aNow + Ttl(p) \in Nat
    BY AuthAssumption DEF Ttl, AuthTypes, AuthTypeOK
  <2> HIDE DEF p, j
  <2>1. AuthTypes'
    BY <2>n, <2>j, <2>chal, <2>cookie, <2>source, <2>admitted, <2>flow, <2>u, <2>ttl
       DEF AuthTypes, AuthTypeOK, FlowStates
  <2>2. CookiePerChallenge'
    <3>1. \A k \in DOMAIN cookie : source[k] # n
      BY <2>n DEF Unanswered, AuthTypes, AuthTypeOK
    <3>2. \A k, l \in DOMAIN source' : source'[k] = source'[l] => k = l
      BY <2>source, <3>1 DEF CookiePerChallenge, AuthTypes, AuthTypeOK
    <3>3. ASSUME NEW f \in Flows, flow'[f].jti # None
          PROVE  source'[flow'[f].jti] = f /\ cookie'[flow'[f].jti].p = flow'[f].p
      BY <3>3, <2>flow, <2>source, <2>cookie, <2>n DEF CookiePerChallenge, Unanswered
    <3> QED BY <3>2, <3>3 DEF CookiePerChallenge
  <2>3. AcceptedOnce'
    BY <2>admitted DEF AcceptedOnce, AuthTypes, AuthTypeOK
  <2>4. OpenChallenge'
    BY <2>chal, <2>flow DEF OpenChallenge, AuthTypes, AuthTypeOK
  <2>5. Unanswered'
    <3>1. ASSUME NEW k \in DOMAIN source'
          PROVE  source'[k] \in Flows /\ flow'[source'[k]].pc \notin {"idle", "challenged"}
      BY <2>n, <2>source, <2>flow DEF Unanswered, AuthTypes, AuthTypeOK
    <3>2. ASSUME NEW f \in Flows
          PROVE  /\ flow'[f].pc \in {"idle", "challenged"} => flow'[f].jti = None
                 /\ flow'[f].jti # None => flow'[f].jti \in DOMAIN cookie'
      BY <2>n, <2>flow, <2>cookie DEF Unanswered
    <3> QED BY <3>1, <3>2 DEF Unanswered
  <2>6. Remembered'
    BY <2>admitted, <2>cookie, <2>u DEF Remembered, AuthTypes, AuthTypeOK
  <2>7. JarHolds'
    BY <2>n, <2>j, <2>flow, <2>jar, NamesOfGroups DEF JarHolds
  <2> QED BY <2>1, <2>2, <2>3, <2>4, <2>5, <2>6, <2>7
<1> QED BY <1>0, <1>1

\* A step that only ends flows which have had their answer, or whose challenge is
\* taken with it, keeps what ties flows to cookies.
LEMMA FlowsEnd ==
    ASSUME AuthInd, UNCHANGED <<aNow, cookie, jar, source>>,
           DOMAIN chal' \subseteq DOMAIN chal,
           \A m \in DOMAIN chal' : chal'[m] = chal[m],
           NEW E \in SUBSET Flows,
           E \cap DOMAIN chal' = {},
           flow' = [f \in Flows |-> IF f \in E THEN [flow[f] EXCEPT !.pc = "done"] ELSE flow[f]]
    PROVE  /\ flow' \in [Flows -> [pc : FlowStates, p : Purposes \cup {None},
                                   jti : Jtis \cup {None}]]
           /\ CookiePerChallenge' /\ OpenChallenge' /\ JarHolds'
           /\ \A j \in DOMAIN source : /\ source[j] \in Flows
                                       /\ flow'[source[j]].pc \notin {"idle", "challenged"}
           /\ Unanswered'
<1> USE DEF AuthInd
<1>1. \A f \in Flows : /\ flow'[f] \in [pc : FlowStates, p : Purposes \cup {None},
                                        jti : Jtis \cup {None}]
                       /\ flow'[f].p = flow[f].p /\ flow'[f].jti = flow[f].jti
                       /\ flow'[f].pc = IF f \in E THEN "done" ELSE flow[f].pc
  <2> SUFFICES ASSUME NEW f \in Flows
               PROVE  /\ flow'[f] \in [pc : FlowStates, p : Purposes \cup {None},
                                      jti : Jtis \cup {None}]
                      /\ flow'[f].p = flow[f].p /\ flow'[f].jti = flow[f].jti
                      /\ flow'[f].pc = IF f \in E THEN "done" ELSE flow[f].pc
    OBVIOUS
  <2>1. flow'[f] = IF f \in E THEN [pc |-> "done", p |-> flow[f].p, jti |-> flow[f].jti]
                   ELSE flow[f]
    BY FlowFields DEF FlowStates
  <2> QED BY <2>1 DEF AuthTypes, FlowStates
<1>2. flow' \in [Flows -> [pc : FlowStates, p : Purposes \cup {None}, jti : Jtis \cup {None}]]
  BY <1>1
<1>3. CookiePerChallenge'
  BY <1>1 DEF CookiePerChallenge
<1>4. OpenChallenge'
  BY <1>1 DEF OpenChallenge, AuthTypes, AuthTypeOK
<1>5. JarHolds'
  BY <1>1 DEF JarHolds
<1>6. Unanswered'
  BY <1>1 DEF Unanswered
<1>7. \A j \in DOMAIN source : /\ source[j] \in Flows
                               /\ flow'[source[j]].pc \notin {"idle", "challenged"}
  BY <1>1 DEF Unanswered
<1> QED BY <1>2, <1>3, <1>4, <1>5, <1>6, <1>7

\* consume_and_verify(): the challenge is taken and the flow may be over.
LEMMA AdminGateInd ==
    ASSUME NEW n \in Flows, NEW ip \in Ips, NEW p \in Purposes, NEW solved \in BOOLEAN,
           AuthInd, AdminGate(n, ip, p, solved)
    PROVE  AuthInd'
<1> USE DEF AuthInd
<1>1. /\ DOMAIN chal' = DOMAIN chal \ {n}
      /\ \A m \in DOMAIN chal' : chal'[m] = chal[m]
  BY DEF AdminGate, Take, Drop
<1>2. UNCHANGED <<aNow, cookie, jar, consumed, source, admitted>>
  BY DEF AdminGate, store
<1> DEFINE E == {f \in Flows : f = n /\ Answers(n, ip, solved) /\ chal[n].p = p}
<1>3. flow' = [f \in Flows |-> IF f \in E THEN [flow[f] EXCEPT !.pc = "done"] ELSE flow[f]]
  BY DEF AdminGate
<1>4. E \in SUBSET Flows /\ E \cap DOMAIN chal' = {}
  BY <1>1
<1> HIDE DEF E
<1>5. /\ flow' \in [Flows -> [pc : FlowStates, p : Purposes \cup {None}, jti : Jtis \cup {None}]]
      /\ CookiePerChallenge' /\ OpenChallenge' /\ JarHolds' /\ Unanswered'
  BY <1>1, <1>2, <1>3, <1>4, FlowsEnd
<1>6. AuthTypes' /\ AcceptedOnce' /\ Remembered'
  BY <1>1, <1>2, <1>5 DEF AuthTypes, AuthTypeOK, AcceptedOnce, Remembered, FlowStates
<1> QED BY <1>5, <1>6

\* try_consume(): the first use before the expiry is remembered, so there is one.
LEMMA PresentCookieInd ==
    ASSUME NEW j \in Jtis, NEW p \in Purposes, AuthInd, PresentCookie(j, p)
    PROVE  AuthInd'
<1> USE DEF AuthInd
<1>1. UNCHANGED <<aNow, chal, cookie, jar, source>>
  BY DEF PresentCookie
<1>2. j \in DOMAIN cookie /\ cookie[j].exp \in Nat /\ aNow \in Nat
  BY DEF PresentCookie, Verifies, AuthTypes, AuthTypeOK
<1>3. /\ DOMAIN Pruned = {k \in DOMAIN consumed : consumed[k] > aNow}
      /\ \A k \in DOMAIN Pruned : Pruned[k] = consumed[k]
  BY DEF Pruned, Keep
<1> DEFINE E == {f \in Flows : flow[f].jti = j /\ FirstUse(j)}
<1>4. flow' = [f \in Flows |-> IF f \in E THEN [flow[f] EXCEPT !.pc = "done"] ELSE flow[f]]
  BY DEF PresentCookie
<1>5. E \cap DOMAIN chal' = {}
  BY <1>1, <1>2, AuthAssumption DEF OpenChallenge, Unanswered, AuthTypes, AuthTypeOK
<1>6. /\ flow' \in [Flows -> [pc : FlowStates, p : Purposes \cup {None}, jti : Jtis \cup {None}]]
      /\ CookiePerChallenge' /\ OpenChallenge' /\ JarHolds' /\ Unanswered'
  <2>1. E \in SUBSET Flows
    OBVIOUS
  <2> HIDE DEF E
  <2> QED BY <1>1, <1>4, <1>5, <2>1, FlowsEnd
<1>7. /\ \A k \in DOMAIN consumed' : k \in DOMAIN cookie /\ consumed'[k] = cookie[k].exp
      /\ \A k \in DOMAIN consumed : consumed[k] > aNow => k \in DOMAIN consumed'
      /\ FirstUse(j) => j \in DOMAIN consumed'
  BY <1>2, <1>3 DEF PresentCookie, Put, ConsumedUntil, AuthTypes, AuthTypeOK
<1>8. /\ DOMAIN admitted' = DOMAIN admitted
      /\ \A k \in DOMAIN admitted : k # j => admitted'[k] = admitted[k]
      /\ admitted'[j] \in [early : Nat, late : Nat]
      /\ \/ admitted'[j].early = admitted[j].early
         \/ /\ admitted'[j].early = admitted[j].early + 1
            /\ FirstUse(j) /\ aNow < cookie[j].exp
  <2>1. j \in DOMAIN admitted /\ admitted[j] \in [early : Nat, late : Nat]
    BY <1>2 DEF AuthTypes, AuthTypeOK
  <2>2. CASE FirstUse(j)
    <3>1. Admit(j)
      BY <2>2 DEF PresentCookie
    <3>2. /\ DOMAIN admitted' = DOMAIN admitted
          /\ \A k \in DOMAIN admitted : k # j => admitted'[k] = admitted[k]
      BY <3>1 DEF Admit
    <3>3. CASE aNow < cookie[j].exp
      BY <2>1, <2>2, <3>1, <3>2, <3>3 DEF Admit
    <3>4. CASE ~(aNow < cookie[j].exp)
      BY <2>1, <3>1, <3>2, <3>4 DEF Admit
    <3> QED BY <3>3, <3>4
  <2>3. CASE ~FirstUse(j)
    BY <2>1, <2>3 DEF PresentCookie
  <2> QED BY <2>2, <2>3
<1>9. AuthTypes'
  BY <1>1, <1>6, <1>7, <1>8 DEF AuthTypes, AuthTypeOK, FlowStates
<1>10. FirstUse(j) /\ aNow < cookie[j].exp => admitted[j].early = 0
  BY <1>2, <1>3 DEF FirstUse, Remembered, AuthTypes, AuthTypeOK
<1>11. AcceptedOnce'
  BY <1>2, <1>8, <1>10 DEF AcceptedOnce, AuthTypes, AuthTypeOK
<1>12. Remembered'
  <2> SUFFICES ASSUME NEW k \in DOMAIN admitted', admitted'[k].early # 0,
                      ~(aNow >= cookie[k].exp)
               PROVE  k \in DOMAIN consumed'
    BY <1>1 DEF Remembered
  <2>0. k \in DOMAIN cookie /\ cookie[k].exp \in Nat /\ aNow < cookie[k].exp
    BY <1>2, <1>8 DEF AuthTypes, AuthTypeOK
  <2>1. CASE admitted[k].early # 0
    BY <1>7, <1>8, <2>0, <2>1 DEF Remembered, AuthTypes, AuthTypeOK
  <2>2. CASE admitted[k].early = 0
    BY <1>7, <1>8, <2>2
  <2> QED BY <2>1, <2>2
<1> QED BY <1>6, <1>9, <1>11, <1>12

\* post_stats() ends the flows that sent their cookie.
LEMMA PresentStatsInd ==
    ASSUME NEW j \in Jtis, NEW p \in Purposes, AuthInd, PresentStats(j, p)
    PROVE  AuthInd'
<1> USE DEF AuthInd
<1>1. UNCHANGED <<aNow, chal, cookie, jar, consumed, source, admitted>>
  BY DEF PresentStats, store
<1> DEFINE E == {f \in Flows : flow[f].jti = j}
<1>2. flow' = [f \in Flows |-> IF f \in E THEN [flow[f] EXCEPT !.pc = "done"] ELSE flow[f]]
  BY DEF PresentStats
<1>3. E \in SUBSET Flows /\ E \cap DOMAIN chal' = {}
  BY <1>1, AuthAssumption DEF OpenChallenge, Unanswered, AuthTypes, AuthTypeOK
<1> HIDE DEF E
<1>4. /\ flow' \in [Flows -> [pc : FlowStates, p : Purposes \cup {None}, jti : Jtis \cup {None}]]
      /\ CookiePerChallenge' /\ OpenChallenge' /\ JarHolds' /\ Unanswered'
  BY <1>1, <1>2, <1>3, FlowsEnd
<1>5. AuthTypes' /\ AcceptedOnce' /\ Remembered'
  BY <1>1, <1>4 DEF AuthTypes, AuthTypeOK, AcceptedOnce, Remembered, FlowStates
<1> QED BY <1>4, <1>5

\* Every step of the relay and of the browsers keeps the inductive invariant.
LEMMA AuthStep == AuthInd /\ [AuthNext]_authVars => AuthInd'
<1> SUFFICES ASSUME AuthInd, [AuthNext]_authVars PROVE AuthInd'
  OBVIOUS
<1>1. CASE AuthTick
  <2>1. aNow' \in 0..AuthTime /\ aNow' >= aNow /\ aNow \in Nat
    BY <1>1, AuthAssumption DEF AuthInd, AuthTypes, AuthTypeOK, AuthTick
  <2> QED BY <1>1, <2>1
       DEF AuthTick, store, AuthInd, AuthTypes, AuthTypeOK, CookiePerChallenge, AcceptedOnce,
           OpenChallenge, Unanswered, Remembered, JarHolds
<1>2. CASE AuthRestart
  BY <1>2 DEF AuthRestart, EmptyMap, AuthInd, AuthTypes, AuthTypeOK, CookiePerChallenge,
              AcceptedOnce, OpenChallenge, Unanswered, Remembered, JarHolds
<1>3. CASE UNCHANGED authVars
  BY <1>3 DEF authVars, AuthInd, AuthTypes, AuthTypeOK, CookiePerChallenge, AcceptedOnce,
              OpenChallenge, Unanswered, Remembered, JarHolds
<1> QED BY <1>1, <1>2, <1>3, GetChallengeInd, PostRelayAuthInd, AdminGateInd,
           PresentCookieInd, PresentStatsInd DEF AuthNext

\* However requests, restarts and the clock interleave: a challenge yields one cookie, for the
\* purpose it was asked with; a single-use cookie is admitted once before it expires; and a
\* flow's cookie stays in the jar until one under the same name replaces it: those of admin
\* and statistics share one name (relay_auth.rs).
THEOREM CookiesHold == AuthSpec => []AuthInv
<1>1. AuthInd => AuthInv
  BY DEF AuthInd, AuthInv, AuthTypes, JarHolds, FlowKeepsCookie
<1> QED BY <1>1, AuthStart, AuthStep, PTL DEF AuthSpec
-----------------------------------------------------------------------------
(***************************************************************************)
(* Owners, devices and bootstrap tokens.                                   *)
(***************************************************************************)
EnrollTypes ==
    /\ EnrollTypeOK
    /\ start \in [pc : {"check", "delete", "insert", "write", "up"}, t : Tokens \cup {None}]
    /\ cli \in [pc : {"idle", "insert", "write"}, t : Tokens \cup {None}]
    /\ call \in [Calls -> [op : {"none", "revoke", "withdraw", "invite", "signout"},
                           by : Devices \cup {None}, arg : Devices \cup Invites \cup {None}]]
    /\ minted \subseteq Tokens \cup Invites
    /\ \A i \in DOMAIN inv : inv[i] \in [by : Devices, exp : 0..(EnrollTime + InviteTtl),
                                        used : Devices \cup {None}]
    /\ tok = {} \/ \E t \in Tokens, e \in 0..(EnrollTime + TokenTtl) : tok = {[t |-> t, exp |-> e]}

\* A call that was let through names devices that are in the table.
CallsRefer ==
    \A c \in Calls : /\ call[c].op \in {"invite", "signout"} => call[c].by \in DOMAIN dev
                     /\ call[c].op = "revoke" => call[c].arg \in DOMAIN dev

\* What has enrolled a device was generated before, and cannot enrol another: it
\* is neither in the token table, nor about to be put there, nor an unused invite.
Used(x) == \E d \in DOMAIN via : via[d] = x
Spent ==
    /\ \A d \in DOMAIN via : via[d] \in minted
    /\ \A r \in tok : r.t \in minted /\ ~Used(r.t)
    /\ \A i \in DOMAIN inv : i \in minted /\ (inv[i].used = None => ~Used(i))

\* A token about to be inserted is in nobody else's hands.
Inserting ==
    /\ start.pc = "insert" => /\ start.t \in minted \cap Tokens /\ ~Used(start.t)
                              /\ \A r \in tok : r.t # start.t
    /\ cli.pc = "insert" => /\ cli.t \in minted \cap Tokens /\ ~Used(cli.t)
                            /\ \A r \in tok : r.t # cli.t
    /\ start.pc = "insert" /\ cli.pc = "insert" => start.t # cli.t

\* The token in the table is in the file, seen or lost, or one that its writer is
\* about to write.
ShownSoon ==
    \A r \in tok :
        \/ r.t \in {tokenFile, reading} \cup shown \cup lost
        \/ start.pc = "write" /\ start.t = r.t
        \/ cli.pc = "write" /\ cli.t = r.t

\* The inductive invariant.
EnrollInd ==
    /\ EnrollTypes /\ EnrolsOnce /\ NeverOwnerless
    /\ CallsRefer /\ Spent /\ Inserting /\ ShownSoon
-----------------------------------------------------------------------------
\* The table with the single row holds one row at most.
LEMMA TokenRows ==
    ASSUME NEW S, S = {} \/ \E r : S = {r}
    PROVE  Cardinality(S) <= 1
<1>1. CASE S = {}
  BY <1>1, FS_EmptySet
<1>2. CASE \E r : S = {r}
  <2>1. PICK r : S = {r}
    BY <1>2
  <2>2. Cardinality({r}) = 1
    BY FS_Singleton
  <2> QED BY <2>1, <2>2
<1> QED BY <1>1, <1>2

\* The relay starts with empty tables.
LEMMA EnrollStart == EnrollInit => EnrollInd
<1> SUFFICES ASSUME EnrollInit PROVE EnrollInd
  OBVIOUS
<1> USE DEF EnrollInit, EmptyMap
<1>1. Cardinality(tok) <= 1
  BY TokenRows
<1>2. EnrollTypes
  BY <1>1, EnrollAssumption DEF EnrollTypes, EnrollTypeOK, Quiet
<1> QED BY <1>2 DEF EnrollInd, EnrolsOnce, NeverOwnerless, CallsRefer, Spent, Used, Inserting,
               ShownSoon, Quiet

\* A step that leaves the tables and the tokens alone, and lets a call through
\* only for devices that are in the table.
LEMMA TablesKept ==
    ASSUME EnrollInd, UNCHANGED <<dev, inv, tok, via, start, cli, minted, tokenFile, reading, shown, lost>>,
           eNow' \in 0..EnrollTime,
           call' \in [Calls -> [op : {"none", "revoke", "withdraw", "invite", "signout"},
                           by : Devices \cup {None}, arg : Devices \cup Invites \cup {None}]],
           CallsRefer'
    PROVE  EnrollInd'
BY DEF EnrollInd, EnrollTypes, EnrollTypeOK, EnrolsOnce, NeverOwnerless, ActiveOwners, Spent,
       Used, Inserting, ShownSoon

\* A middleware lets a request through: require_owner_device(), post_signout().
LEMMA GateInd ==
    ASSUME NEW c \in Calls, NEW d \in Devices, NEW arg \in Devices \cup Invites \cup {None},
           NEW op \in {"revoke", "withdraw", "invite", "signout"}, EnrollInd,
           Accept(c, d, op, arg), d \in DOMAIN dev, op = "revoke" => arg \in DOMAIN dev
    PROVE  EnrollInd'
<1>1. UNCHANGED <<dev, inv, tok, via, start, cli, minted, tokenFile, reading, shown, lost, eNow>>
  BY DEF Accept, boot
<1>2. call' = [call EXCEPT ![c] = [op |-> op, by |-> d, arg |-> arg]]
  BY DEF Accept
<1>3. call' \in [Calls -> [op : {"none", "revoke", "withdraw", "invite", "signout"},
                           by : Devices \cup {None}, arg : Devices \cup Invites \cup {None}]]
  BY <1>2 DEF EnrollInd, EnrollTypes
<1>4. CallsRefer'
  BY <1>1, <1>2 DEF CallsRefer, EnrollInd, EnrollTypes
<1>5. eNow' \in 0..EnrollTime
  BY <1>1 DEF EnrollInd, EnrollTypes, EnrollTypeOK
<1> QED BY <1>1, <1>3, <1>4, <1>5, TablesKept

\* A call that returns is quiet.
LEMMA ReturnType ==
    ASSUME NEW c \in Calls, EnrollInd, Return(c)
    PROVE  /\ call' \in [Calls -> [op : {"none", "revoke", "withdraw", "invite", "signout"},
                           by : Devices \cup {None}, arg : Devices \cup Invites \cup {None}]]
           /\ \A b \in Calls : call'[b] = IF b = c THEN Quiet ELSE call[b]
BY DEF Return, Quiet, EnrollInd, EnrollTypes

\* Steps on the token table, by the starting server, the command line and a crash.
LEMMA TokensStep ==
    ASSUME EnrollInd, UNCHANGED <<eNow, dev, inv, via>>,
           \/ \E t \in Tokens : StartupDelete(t) \/ CliDelete(t)
           \/ StartupCheck \/ StartupInsert \/ CliInsert \/ EnrollCrash
           \/ \E f \in Tokens \cup {None} : StartupWrite(f) \/ CliWrite(f)
           \/ ClaimTokenReads \/ ClaimTokenPrints
    PROVE  EnrollInd'
<1> USE DEF EnrollInd
<1>e. eNow \in 0..EnrollTime /\ eNow + TokenTtl \in 0..(EnrollTime + TokenTtl)
  BY EnrollAssumption DEF EnrollTypes, EnrollTypeOK
<1>c. /\ call' \in [Calls -> [op : {"none", "revoke", "withdraw", "invite", "signout"},
                           by : Devices \cup {None}, arg : Devices \cup Invites \cup {None}]]
      /\ CallsRefer'
  <2>1. CASE EnrollCrash
    BY <2>1 DEF EnrollCrash, CallsRefer, Quiet
  <2>2. CASE UNCHANGED call
    BY <2>2 DEF CallsRefer, EnrollTypes
  <2> QED BY <2>1, <2>2 DEF StartupCheck, StartupDelete, CliDelete, StartupInsert, CliInsert,
                           StartupWrite, CliWrite, ClaimTokenReads, ClaimTokenPrints
<1>kept. EnrolsOnce' /\ NeverOwnerless'
  BY DEF EnrolsOnce, NeverOwnerless, ActiveOwners
<1>types. ASSUME start' \in [pc : {"check", "delete", "insert", "write", "up"}, t : Tokens \cup {None}],
                 cli' \in [pc : {"idle", "insert", "write"}, t : Tokens \cup {None}],
                 minted' \subseteq Tokens \cup Invites,
                 tok' = {} \/ \E t \in Tokens, e \in 0..(EnrollTime + TokenTtl) :
                                tok' = {[t |-> t, exp |-> e]}
          PROVE  EnrollTypes'
  <2>1. Cardinality(tok') <= 1
    BY <1>types, TokenRows
  <2> QED BY <2>1, <1>types, <1>c DEF EnrollTypes, EnrollTypeOK
<1>1. ASSUME NEW t \in Tokens, StartupDelete(t) PROVE EnrollInd'
  <2>1. EnrollTypes'
    BY <1>1, <1>types DEF StartupDelete, EnrollTypes
  <2>2. Spent' /\ Inserting' /\ ShownSoon'
    BY <1>1 DEF StartupDelete, EnrollTypes, EnrollTypeOK, Spent, Used, Inserting, ShownSoon
  <2> QED BY <2>1, <2>2, <1>c, <1>kept
<1>2. ASSUME NEW t \in Tokens, CliDelete(t) PROVE EnrollInd'
  <2>1. EnrollTypes'
    BY <1>2, <1>types DEF CliDelete, EnrollTypes
  <2>2. Spent' /\ Inserting' /\ ShownSoon'
    BY <1>2 DEF CliDelete, EnrollTypes, EnrollTypeOK, Spent, Used, Inserting, ShownSoon
  <2> QED BY <2>1, <2>2, <1>c, <1>kept
<1>3. CASE StartupInsert
  <2>1. EnrollTypes'
    BY <1>3, <1>e, <1>types DEF StartupInsert, Inserted, Inserting, EnrollTypes
  <2>2. Spent' /\ Inserting'
    BY <1>3 DEF StartupInsert, Inserted, EnrollTypes, EnrollTypeOK, Spent, Used, Inserting
  <2>3. ShownSoon'
    BY <1>3 DEF StartupInsert, Inserted, EnrollTypes, ShownSoon
  <2> QED BY <2>1, <2>2, <2>3, <1>c, <1>kept
<1>4. CASE CliInsert
  <2>1. EnrollTypes'
    BY <1>4, <1>e, <1>types DEF CliInsert, Inserted, Inserting, EnrollTypes
  <2>2. Spent' /\ Inserting' /\ ShownSoon'
    BY <1>4 DEF CliInsert, Inserted, EnrollTypes, EnrollTypeOK, Spent, Used, Inserting,
                ShownSoon
  <2> QED BY <2>1, <2>2, <1>c, <1>kept
<1>5. CASE EnrollCrash
  <2>1. EnrollTypes'
    BY <1>5, <1>types DEF EnrollCrash, EnrollTypes
  <2>2. Spent' /\ Inserting' /\ ShownSoon'
    <3>1. Spent' /\ Inserting'
      BY <1>5 DEF EnrollCrash, EnrollTypes, Spent, Used, Inserting
    <3>2. /\ UNCHANGED <<tok, cli, tokenFile, reading, shown>> /\ lost \subseteq lost'
          /\ start.pc = "write" => start.t \in lost'
      BY <1>5 DEF EnrollCrash
    <3>3. ShownSoon'
      BY <3>2 DEF ShownSoon
    <3> QED BY <3>1, <3>3
  <2> QED BY <2>1, <2>2, <1>c, <1>kept
<1>t. \A r \in tok : r.t \in Tokens /\ r.t # None
  BY EnrollAssumption DEF EnrollTypes
<1>6. ASSUME NEW f \in Tokens \cup {None}, StartupWrite(f) PROVE EnrollInd'
  <2>1. EnrollTypes'
    BY <1>6, <1>types DEF StartupWrite, EnrollTypes
  <2>2. Spent' /\ Inserting'
    BY <1>6 DEF StartupWrite, EnrollTypes, Spent, Used, Inserting
  <2>3. \A r \in tok : r.t = tokenFile => r.t \in {tokenFile'} \cup lost'
    BY <1>6 DEF StartupWrite, Overwritten
  <2>4. ShownSoon'
    BY <1>6, <2>3 DEF StartupWrite, EnrollTypes, ShownSoon
  <2> QED BY <2>1, <2>2, <2>4, <1>c, <1>kept
<1>7. ASSUME NEW f \in Tokens \cup {None}, CliWrite(f) PROVE EnrollInd'
  <2>1. EnrollTypes'
    BY <1>7, <1>types DEF CliWrite, EnrollTypes
  <2>2. Spent' /\ Inserting'
    BY <1>7 DEF CliWrite, EnrollTypes, Spent, Used, Inserting
  <2>3. \A r \in tok : r.t = tokenFile => r.t \in {tokenFile'} \cup shown' \cup lost'
    BY <1>7 DEF CliWrite, CliPrints, Overwritten
  <2>4. /\ UNCHANGED <<tok, start, reading>> /\ shown \subseteq shown' /\ lost \subseteq lost'
        /\ cli.pc = "write" => cli.t \in {tokenFile'} \cup shown'
    BY <1>7 DEF CliWrite, CliPrints
  <2>5. ShownSoon'
    BY <2>3, <2>4 DEF ShownSoon
  <2> QED BY <2>1, <2>2, <2>5, <1>c, <1>kept
<1>8. CASE StartupCheck \/ ClaimTokenReads
  <2>1. EnrollTypes'
    BY <1>8, <1>types DEF StartupCheck, ClaimTokenReads, EnrollTypes
  <2>2. Spent' /\ Inserting'
    BY <1>8 DEF StartupCheck, ClaimTokenReads, EnrollTypes, Spent, Used, Inserting
  <2>3. /\ UNCHANGED <<tok, cli, tokenFile, shown, lost>> /\ (reading' = reading \/ reading' = tokenFile)
        /\ reading # None => reading' = reading
        /\ start.pc = "write" => start' = start
    BY <1>8 DEF StartupCheck, ClaimTokenReads
  <2>4. ShownSoon'
    BY <2>3, <1>t DEF ShownSoon
  <2> QED BY <2>1, <2>2, <2>4, <1>c, <1>kept
<1>9. CASE ClaimTokenPrints
  <2>1. EnrollTypes'
    BY <1>9, <1>types DEF ClaimTokenPrints, EnrollTypes
  <2>2. Spent' /\ Inserting'
    BY <1>9 DEF ClaimTokenPrints, EnrollTypes, Spent, Used, Inserting
  <2>3. \A r \in tok : r.t = tokenFile => r.t \in shown' \cup lost'
    BY <1>9, <1>t DEF ClaimTokenPrints, Overwritten
  <2>4. ShownSoon'
    BY <1>9, <2>3 DEF ClaimTokenPrints, EnrollTypes, ShownSoon
  <2> QED BY <2>1, <2>2, <2>4, <1>c, <1>kept
<1> QED BY <1>1, <1>2, <1>3, <1>4, <1>5, <1>6, <1>7, <1>8, <1>9

\* A row of the device table, and what it says of its owner.
LEMMA DeviceRow ==
    ASSUME NEW a \in BOOLEAN, NEW b \in BOOLEAN
    PROVE  /\ [owner |-> a, revoked |-> b] \in [owner : BOOLEAN, revoked : BOOLEAN]
           /\ [owner |-> a, revoked |-> b].owner = a
           /\ \A r \in [owner : BOOLEAN, revoked : BOOLEAN] :
                r.owner \in BOOLEAN /\ r.revoked \in BOOLEAN
BY Zenon

\* What enrolling a fresh device does to the tables.
LEMMA EnrolFacts ==
    ASSUME EnrollInd, NEW owner \in BOOLEAN, NEW credential,
           Enrol(FreshDevice, owner, credential)
    PROVE  \E d \in Devices :
             /\ d \notin DOMAIN dev
             /\ DOMAIN dev' = DOMAIN dev \cup {d} /\ DOMAIN via' = DOMAIN dev \cup {d}
             /\ dev'[d] = [owner |-> owner, revoked |-> FALSE] /\ via'[d] = credential
             /\ \A e \in DOMAIN dev : dev'[e] = dev[e] /\ via'[e] = via[e]
             /\ d = FreshDevice
<1>1. \E d \in Devices : d \notin DOMAIN dev
  BY DEF EnrollInd, EnrollTypes, EnrollTypeOK, Enrol
<1>2. FreshDevice \in Devices /\ FreshDevice \notin DOMAIN dev
  BY <1>1 DEF FreshDevice
<1>3. DOMAIN via = DOMAIN dev
  BY DEF EnrollInd, EnrollTypes, EnrollTypeOK
<1> QED BY <1>2, <1>3 DEF Enrol, Put

\* An owner who joins is active, and the active owners stay.
LEMMA EnrolOwners ==
    ASSUME NEW d, NEW owner \in BOOLEAN, NeverOwnerless, d \notin DOMAIN dev,
           DOMAIN dev' = DOMAIN dev \cup {d},
           dev'[d] = [owner |-> owner, revoked |-> FALSE],
           \A e \in DOMAIN dev : dev'[e] = dev[e]
    PROVE  NeverOwnerless'
<1>1. ActiveOwners \subseteq ActiveOwners'
  BY DEF ActiveOwners
<1>2. owner => d \in ActiveOwners'
  BY DEF ActiveOwners
<1> QED BY <1>1, <1>2 DEF NeverOwnerless

\* claim_bootstrap() spends the token.
LEMMA ClaimInd ==
    ASSUME NEW t \in Tokens, EnrollInd, Claim(t, FreshDevice)
    PROVE  EnrollInd'
<1> USE DEF EnrollInd
<1>1. /\ t \in {r.t : r \in tok} /\ tok' = {} /\ Enrol(FreshDevice, TRUE, t)
      /\ UNCHANGED <<eNow, inv, call, start, cli, minted, tokenFile, reading, shown, lost>>
  BY DEF Claim, ClaimBootstrap, boot
<1>2. PICK d \in Devices :
        /\ d \notin DOMAIN dev
        /\ DOMAIN dev' = DOMAIN dev \cup {d} /\ DOMAIN via' = DOMAIN dev \cup {d}
        /\ dev'[d] = [owner |-> TRUE, revoked |-> FALSE] /\ via'[d] = t
        /\ \A e \in DOMAIN dev : dev'[e] = dev[e] /\ via'[e] = via[e]
  BY <1>1, EnrolFacts
<1>3. EnrollTypes'
  <2>1. Cardinality(tok') <= 1
    BY <1>1, TokenRows
  <2>2. \A e \in DOMAIN dev' : /\ e \in Devices
                                /\ dev'[e] \in [owner : BOOLEAN, revoked : BOOLEAN]
    <3>1. \A e \in DOMAIN dev : /\ e \in Devices
                                /\ dev[e] \in [owner : BOOLEAN, revoked : BOOLEAN]
      BY DEF EnrollTypes, EnrollTypeOK
    <3> QED BY <1>2, <3>1, DeviceRow, Zenon
  <2>3. EnrollTypeOK'
    BY <1>1, <1>2, <2>1, <2>2 DEF EnrollTypes, EnrollTypeOK
  <2> QED BY <1>1, <2>3 DEF EnrollTypes
<1>4. ~Used(t) /\ t \in minted
  BY <1>1 DEF Spent
<1>5. EnrolsOnce'
  BY <1>2, <1>4 DEF EnrolsOnce, Used, EnrollTypes, EnrollTypeOK
<1>6. NeverOwnerless'
  BY <1>2, EnrolOwners
<1>7. CallsRefer' /\ ShownSoon'
  BY <1>1, <1>2 DEF CallsRefer, ShownSoon
<1>8. Spent'
  BY <1>1, <1>2, <1>4, EnrollAssumption DEF Spent, Used, EnrollTypes, EnrollTypeOK
<1>9. Inserting'
  BY <1>1, <1>2 DEF Inserting, Used, EnrollTypes, EnrollTypeOK
<1> QED BY <1>3, <1>5, <1>6, <1>7, <1>8, <1>9

\* redeem_invite() marks the invite as used.
LEMMA RedeemInd ==
    ASSUME NEW i \in Invites, EnrollInd, Redeem(i, FreshDevice)
    PROVE  EnrollInd'
<1> USE DEF EnrollInd
<1>1. /\ Redeemable(i) /\ Enrol(FreshDevice, FALSE, i)
      /\ UNCHANGED <<eNow, tok, call, start, cli, minted, tokenFile, reading, shown, lost>>
  BY DEF Redeem, RedeemInvite, boot
<1>2. PICK d \in Devices :
        /\ d \notin DOMAIN dev
        /\ DOMAIN dev' = DOMAIN dev \cup {d} /\ DOMAIN via' = DOMAIN dev \cup {d}
        /\ dev'[d] = [owner |-> FALSE, revoked |-> FALSE] /\ via'[d] = i
        /\ \A e \in DOMAIN dev : dev'[e] = dev[e] /\ via'[e] = via[e]
        /\ d = FreshDevice
  BY <1>1, EnrolFacts
<1>3. /\ DOMAIN inv' = DOMAIN inv /\ \A k \in DOMAIN inv : k # i => inv'[k] = inv[k]
      /\ inv'[i] = [by |-> inv[i].by, exp |-> inv[i].exp, used |-> d]
      /\ i \in DOMAIN inv
  BY <1>1, <1>2 DEF Redeem, RedeemInvite, Redeemable, EnrollTypes
<1>4. EnrollTypes'
  <2>1. \A e \in DOMAIN dev' : /\ e \in Devices
                                /\ dev'[e] \in [owner : BOOLEAN, revoked : BOOLEAN]
    <3>1. \A e \in DOMAIN dev : /\ e \in Devices
                                /\ dev[e] \in [owner : BOOLEAN, revoked : BOOLEAN]
      BY DEF EnrollTypes, EnrollTypeOK
    <3> QED BY <1>2, <3>1, DeviceRow, Zenon
  <2>2. \A k \in DOMAIN inv' :
           inv'[k] \in [by : Devices, exp : 0..(EnrollTime + InviteTtl), used : Devices \cup {None}]
    BY <1>3 DEF EnrollTypes
  <2>3. EnrollTypeOK'
    BY <1>1, <1>2, <1>3, <2>1 DEF EnrollTypes, EnrollTypeOK
  <2> QED BY <1>1, <2>2, <2>3 DEF EnrollTypes
<1>5. ~Used(i) /\ i \in minted /\ i \notin Tokens
  BY <1>1, EnrollAssumption DEF Spent, Redeemable
<1>6. EnrolsOnce'
  BY <1>2, <1>5 DEF EnrolsOnce, Used, EnrollTypes, EnrollTypeOK
<1>7. NeverOwnerless'
  BY <1>2, EnrolOwners
<1>8. CallsRefer' /\ ShownSoon'
  BY <1>1, <1>2 DEF CallsRefer, ShownSoon
<1>9. d # None
  BY <1>2, EnrollAssumption
<1>10. \A r \in tok : r.t \in Tokens
  BY DEF EnrollTypes
<1>11. Spent'
  BY <1>1, <1>2, <1>3, <1>5, <1>9, <1>10 DEF Spent, Used, EnrollTypes, EnrollTypeOK
<1>12. Inserting'
  BY <1>1, <1>2, <1>5 DEF Inserting, Used, EnrollTypes, EnrollTypeOK
<1> QED BY <1>4, <1>6, <1>7, <1>8, <1>11, <1>12

\* revoke_device(): the last active owner stays, because the owners are counted in
\* the step that revokes.
LEMMA RevokeFacts ==
    ASSUME NEW d \in DOMAIN dev, EnrollInd, Revoke(d)
    PROVE  /\ DOMAIN dev' = DOMAIN dev
           /\ \A e \in DOMAIN dev : /\ dev'[e] \in [owner : BOOLEAN, revoked : BOOLEAN]
                                    /\ dev'[e].owner = dev[e].owner
           /\ NeverOwnerless'
<1> USE DEF EnrollInd
<1>1. CASE dev[d].revoked \/ LastOwner(d)
  BY <1>1 DEF Revoke, NeverOwnerless, ActiveOwners, EnrollTypes, EnrollTypeOK
<1>2. CASE ~(dev[d].revoked \/ LastOwner(d))
  <2>1. dev[d] \in [owner : BOOLEAN, revoked : BOOLEAN]
    BY DEF EnrollTypes, EnrollTypeOK
  <2>2. /\ DOMAIN dev' = DOMAIN dev /\ \A e \in DOMAIN dev : e # d => dev'[e] = dev[e]
        /\ dev'[d] = [owner |-> dev[d].owner, revoked |-> TRUE]
    BY <1>2, <2>1 DEF Revoke
  <2>3. ActiveOwners \ {d} \subseteq ActiveOwners'
    BY <2>2 DEF ActiveOwners
  <2>4. ASSUME ActiveOwners # {} PROVE ActiveOwners \ {d} # {}
    <3>1. CASE dev[d].owner
      <4>1. ~(Cardinality(ActiveOwners) <= 1)
        BY <1>2, <3>1 DEF LastOwner
      <4>2. ~\E r : ActiveOwners = {r}
        BY <4>1, TokenRows
      <4> QED BY <2>4, <4>2
    <3>2. CASE ~dev[d].owner
      BY <2>4, <3>2 DEF ActiveOwners
    <3> QED BY <3>1, <3>2
  <2>5. NeverOwnerless'
    BY <2>2, <2>3, <2>4 DEF NeverOwnerless
  <2>6. ASSUME NEW e \in DOMAIN dev
        PROVE  /\ dev'[e] \in [owner : BOOLEAN, revoked : BOOLEAN]
               /\ dev'[e].owner = dev[e].owner
    <3>1. dev[e] \in [owner : BOOLEAN, revoked : BOOLEAN]
      BY DEF EnrollTypes, EnrollTypeOK
    <3>2. CASE e # d
      BY <2>2, <3>1, <3>2, Zenon
    <3>3. CASE e = d
      BY <2>1, <2>2, <3>3, DeviceRow, Zenon
    <3> QED BY <3>2, <3>3
  <2> QED BY <2>2, <2>5, <2>6
<1> QED BY <1>1, <1>2

\* delete_device() and post_signout() revoke the device they were let through for.
LEMMA RevokeInd ==
    ASSUME NEW c \in Calls, EnrollInd, DeleteDevice(c) \/ Signout(c)
    PROVE  EnrollInd'
<1> USE DEF EnrollInd
<1>1. PICK d \in DOMAIN dev : Revoke(d)
  BY DEF DeleteDevice, Signout, CallsRefer
<1>2. UNCHANGED <<eNow, inv, tok, via, start, cli, minted, tokenFile, reading, shown, lost>> /\ Return(c)
  BY DEF DeleteDevice, Signout, boot
<1>3. /\ DOMAIN dev' = DOMAIN dev
      /\ \A e \in DOMAIN dev : /\ dev'[e] \in [owner : BOOLEAN, revoked : BOOLEAN]
                               /\ dev'[e].owner = dev[e].owner
      /\ NeverOwnerless'
  BY <1>1, RevokeFacts
<1>4. EnrollTypes'
  BY <1>2, <1>3, ReturnType DEF EnrollTypes, EnrollTypeOK
<1>5. CallsRefer'
  BY <1>2, <1>3, ReturnType DEF CallsRefer, Quiet
<1>6. EnrolsOnce' /\ Spent' /\ Inserting' /\ ShownSoon'
  BY <1>2, <1>3 DEF EnrolsOnce, Spent, Used, Inserting, ShownSoon
<1> QED BY <1>3, <1>4, <1>5, <1>6

\* post_invite() adds a code nobody has seen; delete_invite() takes one away.
LEMMA InviteInd ==
    ASSUME NEW c \in Calls, EnrollInd,
           (\E i \in Invites : MintInvite(c, i)) \/ DeleteInvite(c)
    PROVE  EnrollInd'
<1> USE DEF EnrollInd
<1>1. UNCHANGED <<eNow, dev, tok, via, start, cli, tokenFile, reading, shown, lost>> /\ Return(c)
  BY DEF MintInvite, DeleteInvite, boot
<1>2. EnrolsOnce' /\ NeverOwnerless' /\ ShownSoon'
  BY <1>1 DEF EnrolsOnce, NeverOwnerless, ActiveOwners, ShownSoon
<1>3. CallsRefer'
  BY <1>1, ReturnType DEF CallsRefer, Quiet
<1>4. ASSUME NEW i \in Invites, MintInvite(c, i)
      PROVE  EnrollTypes' /\ Spent' /\ Inserting'
  <2>1. /\ DOMAIN inv' = DOMAIN inv \cup {i}
        /\ inv'[i] = [by |-> call[c].by, exp |-> eNow + InviteTtl, used |-> None]
        /\ \A k \in DOMAIN inv : k # i => inv'[k] = inv[k]
        /\ call[c].by \in DOMAIN dev /\ i \notin minted /\ minted' = minted \cup {i}
    BY <1>4 DEF MintInvite, InsertInvite, Put, CallsRefer
  <2>2. eNow + InviteTtl \in 0..(EnrollTime + InviteTtl)
    BY EnrollAssumption DEF EnrollTypes, EnrollTypeOK
  <2>3. EnrollTypeOK'
    BY <1>1, <2>1 DEF EnrollTypes, EnrollTypeOK
  <2>t. EnrollTypes'
    BY <1>1, <2>1, <2>2, <2>3, ReturnType DEF EnrollTypes, EnrollTypeOK
  <2>4. Spent' /\ Inserting'
    BY <1>1, <2>1 DEF Spent, Used, Inserting
  <2> QED BY <2>t, <2>4
<1>5. ASSUME DeleteInvite(c) PROVE EnrollTypes' /\ Spent' /\ Inserting'
  <2>1. /\ DOMAIN inv' \subseteq DOMAIN inv /\ UNCHANGED minted
        /\ \A k \in DOMAIN inv' : inv'[k] = inv[k]
    BY <1>5 DEF DeleteInvite, RevokeInvite, Drop, boot
  <2>2. EnrollTypes'
    BY <1>1, <2>1, ReturnType DEF EnrollTypes, EnrollTypeOK
  <2>3. Spent' /\ Inserting'
    BY <1>1, <2>1 DEF Spent, Used, Inserting
  <2> QED BY <2>2, <2>3
<1> QED BY <1>2, <1>3, <1>4, <1>5

\* Every step of the server, the command line and the devices keeps the inductive
\* invariant.
LEMMA EnrollStep == EnrollInd /\ [EnrollNext]_enrollVars => EnrollInd'
<1> SUFFICES ASSUME EnrollInd, [EnrollNext]_enrollVars PROVE EnrollInd'
  OBVIOUS
<1> USE DEF EnrollInd
<1>1. CASE \/ \E t \in Tokens : StartupDelete(t) \/ CliDelete(t)
           \/ StartupCheck \/ StartupInsert \/ CliInsert \/ EnrollCrash
           \/ \E f \in Tokens \cup {None} : StartupWrite(f) \/ CliWrite(f)
           \/ ClaimTokenReads \/ ClaimTokenPrints
  <2>1. UNCHANGED <<eNow, dev, inv, via>>
    BY <1>1 DEF StartupCheck, StartupDelete, CliDelete, StartupInsert, CliInsert, EnrollCrash,
                StartupWrite, CliWrite, ClaimTokenReads, ClaimTokenPrints
  <2> QED BY <1>1, <2>1, TokensStep
<1>2. ASSUME NEW c \in Calls, NEW d \in Devices,
             NEW arg \in Devices \cup Invites \cup {None},
             NEW op \in {"revoke", "withdraw", "invite"}, OwnerGate(c, d, op, arg)
      PROVE  EnrollInd'
  BY <1>2, GateInd DEF OwnerGate, Authentic
<1>3. ASSUME NEW c \in Calls, NEW d \in Devices, SignoutGate(c, d) PROVE EnrollInd'
  BY <1>3, GateInd DEF SignoutGate, Authentic
<1>4. CASE EnrollTick \/ (\E d \in Devices : DeviceGate(d) \/ GetMe(d))
           \/ UNCHANGED enrollVars
  <2>1. UNCHANGED <<dev, inv, tok, via, start, cli, minted, tokenFile, reading, shown, lost, call>>
    BY <1>4 DEF EnrollTick, DeviceGate, GetMe, boot, enrollVars
  <2>2. eNow' \in 0..EnrollTime
    BY <1>4, EnrollAssumption
       DEF EnrollTick, DeviceGate, GetMe, enrollVars, EnrollTypes, EnrollTypeOK
  <2>3. CallsRefer'
    BY <2>1 DEF CallsRefer
  <2> QED BY <2>1, <2>2, <2>3, TablesKept DEF EnrollTypes
<1>5. ASSUME NEW c \in Calls,
             \/ \E i \in Invites : MintInvite(c, i)
             \/ DeleteInvite(c) \/ DeleteDevice(c) \/ Signout(c)
      PROVE  EnrollInd'
  BY <1>5, InviteInd, RevokeInd
<1> QED BY <1>1, <1>2, <1>3, <1>4, <1>5, ClaimInd, RedeemInd DEF EnrollNext

\* However owners revoke each other, sign out and are let through at the same time, a relay
\* that has had an owner has an active one (revoke_device).
THEOREM OwnersRemain == EnrollSpec => []NeverOwnerless
<1>1. EnrollInd => NeverOwnerless
  BY DEF EnrollInd
<1> QED BY <1>1, EnrollStart, EnrollStep, PTL DEF EnrollSpec

\* A token or an invite enrols one device, only a token makes an owner, and the bootstrap
\* token of a running relay is in the file or seen, unless its plaintext was lost: its
\* server died or failed to write, or the other process wrote or unlinked the one file
\* after it (claim_bootstrap, redeem_invite, set_bootstrap_token).
THEOREM CredentialsHold == EnrollSpec => []EnrollInv
<1>1. EnrollInd => EnrollInv
  BY DEF EnrollInd, EnrollInv, EnrollTypes, ShownSoon, BootstrapClaimable
<1> QED BY <1>1, EnrollStart, EnrollStep, PTL DEF EnrollSpec

(***************************************************************************)
(* The channels in which two devices meet.                                 *)
(***************************************************************************)
Channels == [slots : [Slots -> Sessions \cup {None}], last : Nat, bytes : Nat]
SessionStates == {"new", "relay", "forward", "leave", "gone"}
SessionRecords ==
    [pc : SessionStates, id : Ids \cup {None}, obj : Objs \cup {None}, slot : Slots,
     inbox : Seq(Sessions), out : 0..MaxMessage, seen : Nat]

ChanTypes ==
    /\ cNow \in 0..ChanTime
    /\ \A i \in DOMAIN registry : i \in Ids /\ registry[i] \in DOMAIN obj
    /\ DOMAIN obj \subseteq Objs /\ DOMAIN forwarded = DOMAIN obj
    /\ \A o \in DOMAIN obj : /\ obj[o] \in Channels /\ obj[o].last <= cNow
                             /\ forwarded[o] \in Nat
    /\ sess \in [Sessions -> SessionRecords]

\* A session that has opened knows its object and its channel id for good; one
\* that has not is nowhere.
Seated(s) == sess[s].pc \in {"relay", "forward", "leave"}
Opened ==
    \A s \in Sessions : IF sess[s].pc = "new" THEN sess[s].obj = None /\ sess[s].inbox = <<>>
                        ELSE sess[s].obj \in DOMAIN obj /\ sess[s].id \in Ids

\* An object has one channel id, that of the sessions that joined it; it seats
\* only sessions that joined it.
OneId ==
    /\ \A i, j \in DOMAIN registry : registry[i] = registry[j] => i = j
    /\ \A s \in Sessions, i \in DOMAIN registry : sess[s].obj = registry[i] => sess[s].id = i
    /\ \A o \in DOMAIN obj : \A k \in Slots :
         obj[o].slots[k] # None => sess[obj[o].slots[k]].obj = o

\* Until the sweeper takes the channel from under it, a session sits in its slot
\* of the registered object from its join to its leave.
KeepsSeat ==
    \A s \in Sessions : (Seated(s) /\ sess[s].id \notin raced) =>
      /\ ~CutOff(s)
      /\ sess[s].id \in DOMAIN registry /\ registry[sess[s].id] = sess[s].obj

\* The bytes counted under the first lock and not yet queued under the second.
UnderWay(o) ==
    {x \in Sessions \X (1..MaxMessage) :
       sess[x[1]].pc = "forward" /\ sess[x[1]].obj = o /\ x[2] <= sess[x[1]].out}
BytesCounted ==
    \A o \in DOMAIN obj : /\ forwarded[o] + Cardinality(UnderWay(o)) <= MaxChannel
                          /\ forwarded[o] + Cardinality(UnderWay(o)) <= obj[o].bytes

\* The inductive invariant.
ChanInd ==
    /\ ChanTypes /\ Opened /\ OneId /\ KeepsSeat /\ NoGhostSlot /\ SamePair /\ BytesCounted
-----------------------------------------------------------------------------
\* A column of n cells, the bytes of one message, counts n; adding or removing it
\* changes the count by n.
LEMMA Column ==
    ASSUME NEW x, NEW n \in Nat
    PROVE  IsFiniteSet({x} \X (1..n)) /\ Cardinality({x} \X (1..n)) = n
<1> DEFINE S == {x}
           T == 1..n
<1>1. IsFiniteSet(S) /\ Cardinality(S) = 1
  BY FS_Singleton
<1>2. IsFiniteSet(T) /\ Cardinality(T) = n
  BY FS_Interval
<1> HIDE DEF S, T
<1>3. IsFiniteSet(S \X T) /\ Cardinality(S \X T) = Cardinality(S) * Cardinality(T)
  BY <1>1, <1>2, FS_Product, Zenon
<1>4. Cardinality(S \X T) = n
  BY <1>1, <1>2, <1>3
<1> QED BY <1>3, <1>4 DEF S, T

LEMMA AddColumn ==
    ASSUME NEW S, IsFiniteSet(S), NEW x, NEW n \in Nat, \A k \in 1..n : <<x, k>> \notin S
    PROVE  /\ IsFiniteSet(S \cup ({x} \X (1..n)))
           /\ Cardinality(S \cup ({x} \X (1..n))) = Cardinality(S) + n
<1> DEFINE C == {x} \X (1..n)
<1>1. S \cap C = {}
  OBVIOUS
<1>2. IsFiniteSet(C) /\ Cardinality(C) = n /\ Cardinality(S) \in Nat
  BY Column, FS_CardinalityType
<1> HIDE DEF C
<1>3. /\ IsFiniteSet(S \cup C)
      /\ Cardinality(S \cup C) = Cardinality(S) + Cardinality(C) - Cardinality(S \cap C)
  BY <1>2, FS_Union, Zenon
<1>4. Cardinality(S \cap C) = 0
  BY <1>1, FS_EmptySet
<1> QED BY <1>2, <1>3, <1>4 DEF C

\* Bytes under way are finitely many.
LEMMA UnderWayFinite ==
    ASSUME NEW o
    PROVE  IsFiniteSet(UnderWay(o)) /\ Cardinality(UnderWay(o)) \in Nat
<1>1. IsFiniteSet(Sessions \X (1..MaxMessage))
  <2>1. IsFiniteSet(Sessions) /\ IsFiniteSet(1..MaxMessage)
    BY ChanAssumption, FS_Interval
  <2> QED BY <2>1, FS_Product, Zenon
<1>2. UnderWay(o) \in SUBSET (Sessions \X (1..MaxMessage))
  BY DEF UnderWay
<1> QED BY <1>1, <1>2, FS_Subset, FS_CardinalityType

\* The relay starts without channels.
LEMMA ChanStart == ChanInit => ChanInd
<1> SUFFICES ASSUME ChanInit PROVE ChanInd
  OBVIOUS
<1> USE DEF ChanInit, EmptyMap
<1>1. ChanTypes
  BY ChanAssumption DEF ChanTypes, SessionRecords, SessionStates, Unopened, Slots
<1>2. Opened /\ OneId /\ KeepsSeat /\ NoGhostSlot /\ BytesCounted
  BY ChanAssumption DEF Opened, OneId, KeepsSeat, Seated, NoGhostSlot, BytesCounted, Unopened
<1>3. SamePair
  BY DEF SamePair, Unopened
<1> QED BY <1>1, <1>2, <1>3 DEF ChanInd

\* Sessions that forward nothing and are not in the object do not count.
LEMMA SameUnderWay ==
    ASSUME NEW o,
           \A s \in Sessions : /\ sess'[s].pc = "forward" <=> sess[s].pc = "forward"
                               /\ sess[s].pc = "forward" => /\ sess'[s].obj = sess[s].obj
                                                            /\ sess'[s].out = sess[s].out
    PROVE  UnderWay(o)' = UnderWay(o)
BY DEF UnderWay

\* join() seats the session in an empty slot, and nothing else moves.
LEMMA EnterFacts ==
    ASSUME ChanTypes, NEW s \in Sessions, NEW id \in Ids, NEW o \in Objs,
           NEW chan \in Channels, \E k \in Slots : chan.slots[k] = None,
           Enter(s, id, o, chan)
    PROVE  \E k \in Slots :
             /\ chan.slots[k] = None
             /\ DOMAIN obj' = DOMAIN obj \cup {o} /\ obj'[o] \in Channels
             /\ obj'[o].slots[k] = s /\ obj'[o].slots[1 - k] = chan.slots[1 - k]
             /\ obj'[o].bytes = chan.bytes /\ obj'[o].last = cNow
             /\ \A p \in DOMAIN obj : p # o => obj'[p] = obj[p]
             /\ sess' \in [Sessions -> SessionRecords]
             /\ sess'[s].pc = "relay" /\ sess'[s].id = id /\ sess'[s].obj = o
             /\ sess'[s].slot = k /\ sess'[s].inbox = sess[s].inbox
             /\ \A t \in Sessions : t # s => sess'[t] = sess[t]
<1> DEFINE k == IF chan.slots[0] = None THEN 0 ELSE 1
           c == [chan EXCEPT !.slots[k] = s, !.last = cNow]
           q == [sess[s] EXCEPT !.pc = "relay", !.id = id, !.obj = o, !.slot = k, !.seen = cNow]
<1>1. k \in Slots /\ chan.slots[k] = None
  BY DEF Slots
<1>2. obj' = Put(obj, o, c) /\ sess' = [sess EXCEPT ![s] = q]
  BY DEF Enter
<1>n. cNow \in Nat
  BY ChanAssumption DEF ChanTypes
<1> HIDE DEF k
<1>3. /\ c \in Channels /\ c.slots[k] = s /\ c.slots[1 - k] = chan.slots[1 - k]
      /\ c.bytes = chan.bytes /\ c.last = cNow
  <2>1. chan.slots \in [Slots -> Sessions \cup {None}] /\ chan.bytes \in Nat
    BY DEF Channels
  <2>2. c.slots = [chan.slots EXCEPT ![k] = s] /\ c.bytes = chan.bytes /\ c.last = cNow
    BY DEF Channels
  <2>3. [chan.slots EXCEPT ![k] = s] \in [Slots -> Sessions \cup {None}]
    BY <2>1
  <2>4. c \in Channels
    BY <1>n, <2>3 DEF Channels
  <2> HIDE DEF c
  <2> QED BY <1>1, <2>1, <2>2, <2>4 DEF Slots
<1>4. /\ q \in SessionRecords /\ q.pc = "relay" /\ q.id = id /\ q.obj = o
      /\ q.slot = k /\ q.inbox = sess[s].inbox
  <2>1. sess[s] \in SessionRecords
    BY DEF ChanTypes
  <2> QED BY <1>1, <1>n, <2>1 DEF SessionRecords, SessionStates
<1> HIDE DEF c, q
<1>5. /\ DOMAIN obj' = DOMAIN obj \cup {o} /\ obj'[o] = c
      /\ \A p \in DOMAIN obj : p # o => obj'[p] = obj[p]
  BY <1>2 DEF Put
<1>6. /\ sess' \in [Sessions -> SessionRecords] /\ sess'[s] = q
      /\ \A t \in Sessions : t # s => sess'[t] = sess[t]
  BY <1>2, <1>4 DEF ChanTypes
<1> QED BY <1>1, <1>3, <1>4, <1>5, <1>6

\* handle_enrollment_ws(), with a channel of its own or the one of its id.
LEMMA JoinInd ==
    ASSUME ChanInd, NEW s \in Sessions, NEW id \in Ids, Join(s, id) \/ JoinNew(s, id)
    PROVE  ChanInd'
<1> USE DEF ChanInd
<1>new. sess[s].pc = "new" /\ sess[s].obj = None /\ sess[s].inbox = <<>>
  BY DEF Join, JoinNew, Opens, Opened
<1>1. PICK o \in Objs, chan \in Channels :
        /\ Enter(s, id, o, chan) /\ \E k \in Slots : chan.slots[k] = None
        /\ chan.bytes = IF o \in DOMAIN obj THEN obj[o].bytes ELSE 0
        /\ \/ /\ o \notin DOMAIN obj /\ id \notin DOMAIN registry
              /\ registry' = Put(registry, id, o) /\ forwarded' = Put(forwarded, o, 0)
              /\ \A k \in Slots : chan.slots[k] = None
           \/ /\ id \in DOMAIN registry /\ o = registry[id] /\ o \in DOMAIN obj
              /\ chan = obj[o] /\ UNCHANGED <<registry, forwarded>>
  <2>1. CASE Join(s, id)
    BY <2>1 DEF Join, HasRoom, ChanTypes
  <2>2. CASE JoinNew(s, id)
    <3> DEFINE o == CHOOSE o \in Objs : o \notin DOMAIN obj
    <3>1. o \in Objs /\ o \notin DOMAIN obj
      <4>1. \E p \in Objs : p \notin DOMAIN obj
        BY <2>2 DEF JoinNew, ChanTypes
      <4> QED BY <4>1
    <3> HIDE DEF o
    <3>2. /\ Enter(s, id, o, NewChannel) /\ id \notin DOMAIN registry
          /\ registry' = Put(registry, id, o) /\ forwarded' = Put(forwarded, o, 0)
      BY <2>2 DEF JoinNew, o
    <3>3. /\ NewChannel \in Channels /\ NewChannel.bytes = 0
          /\ \A k \in Slots : NewChannel.slots[k] = None
      <4>1. cNow \in Nat
        BY ChanAssumption DEF ChanTypes
      <4> QED BY <4>1 DEF NewChannel, Channels, Slots
    <3> QED BY <3>1, <3>2, <3>3 DEF Slots
  <2> QED BY <2>1, <2>2
<1>2. PICK k \in Slots :
        /\ chan.slots[k] = None
        /\ DOMAIN obj' = DOMAIN obj \cup {o} /\ obj'[o] \in Channels
        /\ obj'[o].slots[k] = s /\ obj'[o].slots[1 - k] = chan.slots[1 - k]
        /\ obj'[o].bytes = chan.bytes /\ obj'[o].last = cNow
        /\ \A p \in DOMAIN obj : p # o => obj'[p] = obj[p]
        /\ sess' \in [Sessions -> SessionRecords]
        /\ sess'[s].pc = "relay" /\ sess'[s].id = id /\ sess'[s].obj = o
        /\ sess'[s].slot = k /\ sess'[s].inbox = sess[s].inbox
        /\ \A t \in Sessions : t # s => sess'[t] = sess[t]
  BY <1>1, EnterFacts
<1>3. UNCHANGED <<cNow, raced>>
  BY DEF Join, JoinNew
<1>4. /\ DOMAIN registry' = DOMAIN registry \cup {id} /\ registry'[id] = o
      /\ \A i \in DOMAIN registry : registry'[i] = registry[i]
      /\ DOMAIN forwarded' = DOMAIN forwarded \cup {o}
      /\ \A p \in DOMAIN obj : forwarded'[p] = forwarded[p]
      /\ o \notin DOMAIN obj => forwarded'[o] = 0
  BY <1>1 DEF Put, ChanTypes
<1>5. ChanTypes'
  BY <1>1, <1>2, <1>3, <1>4, ChanAssumption DEF ChanTypes
<1>6. Opened'
  BY <1>2, <1>4 DEF Opened
<1>seat. \A j \in Slots : j # k => j = 1 - k
  BY DEF Slots
<1>none. \A t \in Sessions : sess[t].obj = o => t # s /\ sess[t].id = id /\ o \in DOMAIN obj
  BY <1>new, <1>1, ChanAssumption DEF Opened, OneId
<1>7. OneId'
  <2>1. \A i, j \in DOMAIN registry' : registry'[i] = registry'[j] => i = j
    BY <1>1, <1>4 DEF OneId, ChanTypes
  <2>2. ASSUME NEW t \in Sessions, NEW i \in DOMAIN registry', sess'[t].obj = registry'[i]
        PROVE  sess'[t].id = i
    <3>1. CASE t = s
      BY <2>1, <2>2, <3>1, <1>2, <1>4
    <3>2. CASE t # s /\ i = id
      BY <2>2, <3>2, <1>2, <1>4, <1>none
    <3>3. CASE t # s /\ i # id
      BY <2>2, <3>3, <1>2, <1>4 DEF OneId
    <3> QED BY <3>1, <3>2, <3>3
  <2>3. ASSUME NEW p \in DOMAIN obj', NEW j \in Slots, obj'[p].slots[j] # None
        PROVE  sess'[obj'[p].slots[j]].obj = p
    <3>1. CASE p # o
      <4>1. obj'[p] = obj[p] /\ p \in DOMAIN obj /\ obj[p].slots[j] \in Sessions
        BY <3>1, <2>3, <1>2 DEF ChanTypes, Channels
      <4>2. sess[obj[p].slots[j]].obj = p
        BY <4>1, <2>3 DEF OneId
      <4>3. obj[p].slots[j] # s
        BY <4>1, <4>2, <1>new, ChanAssumption DEF ChanTypes
      <4> QED BY <4>1, <4>2, <4>3, <1>2
    <3>2. CASE p = o /\ j = k
      BY <3>2, <1>2
    <3>3. CASE p = o /\ j # k
      <4>1. obj'[o].slots[j] = chan.slots[j] /\ chan.slots[j] # None
        BY <3>3, <2>3, <1>2, <1>seat
      <4>2. o \in DOMAIN obj /\ chan = obj[o]
        BY <4>1, <1>1
      <4>3. chan.slots[j] \in Sessions /\ sess[chan.slots[j]].obj = o
        BY <4>1, <4>2 DEF OneId, ChanTypes, Channels
      <4>4. chan.slots[j] # s
        BY <4>3, <1>new, ChanAssumption
      <4> QED BY <3>3, <4>1, <4>3, <4>4, <1>2
    <3> QED BY <3>1, <3>2, <3>3
  <2> QED BY <2>1, <2>2, <2>3 DEF OneId
<1>8. KeepsSeat'
  <2> SUFFICES ASSUME NEW t \in Sessions, Seated(t)', sess'[t].id \notin raced
               PROVE  /\ ~CutOff(t)'
                      /\ sess'[t].id \in DOMAIN registry' /\ registry'[sess'[t].id] = sess'[t].obj
    BY <1>3 DEF KeepsSeat
  <2>1. CASE t = s
    BY <2>1, <1>2, <1>4 DEF CutOff
  <2>2. CASE t # s
    <3>1. /\ sess'[t] = sess[t] /\ Seated(t) /\ ~CutOff(t)
          /\ sess[t].id \in DOMAIN registry /\ registry[sess[t].id] = sess[t].obj
          /\ sess[t].obj \in DOMAIN obj /\ sess[t].slot \in Slots
      BY <2>2, <1>2 DEF KeepsSeat, Seated, ChanTypes, SessionRecords
    <3>2. CASE sess[t].obj # o
      BY <3>1, <3>2, <1>2, <1>4 DEF CutOff
    <3>3. CASE sess[t].obj = o
      <4>1. chan = obj[o] /\ chan.slots[sess[t].slot] = t
        BY <3>1, <3>3, <1>1 DEF CutOff
      <4>2. sess[t].slot # k
        BY <4>1, <1>2, ChanAssumption
      <4>3. obj'[o].slots[sess[t].slot] = t
        BY <4>1, <4>2, <3>1, <1>2, <1>seat
      <4> QED BY <3>1, <3>3, <4>3, <1>4 DEF CutOff
    <3> QED BY <3>2, <3>3
  <2> QED BY <2>1, <2>2
<1>9. NoGhostSlot'
  <2> SUFFICES ASSUME NEW i \in DOMAIN registry', NEW j \in Slots,
                      obj'[registry'[i]].slots[j] # None
               PROVE  LET t == obj'[registry'[i]].slots[j] IN
                        /\ sess'[t].pc \in {"relay", "forward", "leave"}
                        /\ sess'[t].obj = registry'[i] /\ sess'[t].slot = j
    BY DEF NoGhostSlot
  <2>1. CASE i # id
    <3>1. i \in DOMAIN registry /\ registry'[i] = registry[i] /\ registry[i] \in DOMAIN obj
      BY <2>1, <1>4 DEF ChanTypes
    <3>2. registry[i] # o
      BY <2>1, <3>1, <1>1 DEF OneId
    <3>3. obj'[registry[i]] = obj[registry[i]] /\ obj[registry[i]].slots[j] \in Sessions
      BY <3>1, <3>2, <1>2 DEF ChanTypes, Channels
    <3>4. /\ sess[obj[registry[i]].slots[j]].pc \in {"relay", "forward", "leave"}
          /\ sess[obj[registry[i]].slots[j]].obj = registry[i]
          /\ sess[obj[registry[i]].slots[j]].slot = j
      BY <3>1, <3>3 DEF NoGhostSlot
    <3>5. obj[registry[i]].slots[j] # s
      BY <3>4, <1>new
    <3> QED BY <3>1, <3>3, <3>4, <3>5, <1>2
  <2>2. CASE i = id /\ j = k
    BY <2>2, <1>2, <1>4
  <2>3. CASE i = id /\ j # k
    <3>1. registry'[i] = o /\ obj'[o].slots[j] = chan.slots[j] /\ chan.slots[j] # None
      BY <2>3, <1>2, <1>4, <1>seat
    <3>2. id \in DOMAIN registry /\ o = registry[id] /\ chan = obj[o] /\ o \in DOMAIN obj
      BY <3>1, <1>1
    <3>3. /\ chan.slots[j] \in Sessions /\ sess[chan.slots[j]].pc \in {"relay", "forward", "leave"}
          /\ sess[chan.slots[j]].obj = o /\ sess[chan.slots[j]].slot = j
      BY <3>1, <3>2 DEF NoGhostSlot, ChanTypes, Channels
    <3>4. chan.slots[j] # s
      BY <3>3, <1>new
    <3> QED BY <3>1, <3>3, <3>4, <1>2
  <2> QED BY <2>1, <2>2, <2>3
<1>10. SamePair'
  <2> SUFFICES ASSUME NEW t \in Sessions, NEW n \in DOMAIN sess'[t].inbox
               PROVE  sess'[sess'[t].inbox[n]].obj = sess'[t].obj
    BY DEF SamePair
  <2>1. t # s
    BY <1>new, <1>2
  <2>2. /\ sess'[t] = sess[t] /\ sess[t].inbox[n] \in Sessions
        /\ sess[sess[t].inbox[n]].obj = sess[t].obj /\ sess[t].inbox # <<>>
    BY <2>1, <1>2 DEF SamePair, ChanTypes, SessionRecords
  <2>3. sess[t].inbox[n] # s
    BY <2>2, <1>new, ChanAssumption DEF Opened, ChanTypes
  <2> QED BY <2>2, <2>3, <1>2
<1>11. BytesCounted'
  <2> SUFFICES ASSUME NEW p \in DOMAIN obj'
               PROVE  /\ forwarded'[p] + Cardinality(UnderWay(p)') <= MaxChannel
                      /\ forwarded'[p] + Cardinality(UnderWay(p)') <= obj'[p].bytes
    BY DEF BytesCounted
  <2>1. UnderWay(p)' = UnderWay(p)
    BY <1>new, <1>2, SameUnderWay
  <2>2. CASE p \in DOMAIN obj
    BY <2>1, <2>2, <1>1, <1>2, <1>4 DEF BytesCounted
  <2>3. CASE p \notin DOMAIN obj
    <3>1. p = o /\ forwarded'[o] = 0 /\ obj'[o].bytes = 0
      BY <2>3, <1>1, <1>2, <1>4
    <3>2. UnderWay(o) = {}
      BY <2>3, <3>1 DEF UnderWay, Opened
    <3> QED BY <2>1, <3>1, <3>2, FS_EmptySet, ChanAssumption
  <2> QED BY <2>2, <2>3
<1> QED BY <1>5, <1>6, <1>7, <1>8, <1>9, <1>10, <1>11

\* A step in which nobody opens, leaves or changes places.
LEMMA PlacesKept ==
    ASSUME ChanInd, UNCHANGED <<registry, raced>>, DOMAIN obj' = DOMAIN obj,
           \A o \in DOMAIN obj : obj'[o].slots = obj[o].slots,
           \A t \in Sessions :
             /\ sess'[t].id = sess[t].id /\ sess'[t].obj = sess[t].obj
             /\ sess'[t].slot = sess[t].slot
             /\ sess'[t].pc \in {"relay", "forward", "leave"} <=> Seated(t)
             /\ sess'[t].pc = "new" <=> sess[t].pc = "new"
             /\ sess[t].pc = "new" => sess'[t].inbox = sess[t].inbox
    PROVE  Opened' /\ OneId' /\ KeepsSeat' /\ NoGhostSlot'
<1> USE DEF ChanInd
<1>0. \A o \in DOMAIN obj : \A k \in Slots : obj[o].slots[k] \in Sessions \cup {None}
  BY DEF ChanTypes, Channels
<1>1. Opened'
  BY DEF Opened
<1>2. OneId'
  BY <1>0 DEF OneId
<1>3. KeepsSeat'
  BY DEF KeepsSeat, Seated, CutOff, Opened
<1>4. NoGhostSlot'
  BY <1>0 DEF NoGhostSlot, Seated, ChanTypes
<1> QED BY <1>1, <1>2, <1>3, <1>4

\* Messages that stay in an inbox stay from the same object.
LEMMA InboxKept ==
    ASSUME ChanInd,
           \A t \in Sessions : sess'[t].obj = sess[t].obj /\ sess'[t].inbox = sess[t].inbox
    PROVE  SamePair'
<1> SUFFICES ASSUME NEW t \in Sessions, NEW n \in DOMAIN sess'[t].inbox
             PROVE  sess'[sess'[t].inbox[n]].obj = sess'[t].obj
  BY DEF SamePair
<1>1. sess[t].inbox \in Seq(Sessions) /\ n \in DOMAIN sess[t].inbox
  BY DEF ChanInd, ChanTypes, SessionRecords
<1>2. sess[t].inbox[n] \in Sessions
  BY <1>1
<1> QED BY <1>1, <1>2 DEF ChanInd, SamePair

\* A session that is seated has an object, and its record the right shape.
LEMMA SeatedFacts ==
    ASSUME ChanInd, NEW s \in Sessions, Seated(s)
    PROVE  /\ sess[s] \in SessionRecords /\ sess[s].obj \in DOMAIN obj
           /\ obj[sess[s].obj] \in Channels /\ obj[sess[s].obj].last <= cNow /\ cNow \in Nat
BY ChanAssumption DEF ChanInd, ChanTypes, Opened, Seated

\* relay_loop(), the message is counted, and refused or kept to be forwarded.
LEMMA ReceiveInd ==
    ASSUME ChanInd, NEW s \in Sessions, NEW n \in MsgSizes, Receive(s, n)
    PROVE  ChanInd'
<1> USE DEF ChanInd
<1>0. PICK o : o = sess[s].obj
  OBVIOUS
<1> USE <1>0
<1>s. /\ sess[s] \in SessionRecords /\ o \in DOMAIN obj /\ obj[o] \in Channels
      /\ obj[o].last <= cNow /\ cNow \in Nat /\ sess[s].pc = "relay" /\ n \in Nat
  BY SeatedFacts, ChanAssumption DEF Receive, Seated
<1>u. UNCHANGED <<cNow, registry, forwarded, raced>>
  BY DEF Receive
<1>o. /\ DOMAIN obj' = DOMAIN obj
      /\ \A p \in DOMAIN obj : p # o => obj'[p] = obj[p]
      /\ obj'[o] \in Channels /\ obj'[o].slots = obj[o].slots /\ obj'[o].last <= cNow
      /\ obj'[o].bytes \in Nat /\ obj'[o].bytes >= obj[o].bytes
      /\ ~TooLarge(n) => obj'[o].bytes = obj[o].bytes + n
  <2>1. CASE TooLarge(n)
    BY <2>1, <1>s DEF Receive, Channels
  <2>2. CASE ~TooLarge(n)
    <3>1. obj' = [obj EXCEPT ![o].bytes = @ + n, ![o].last = cNow]
      BY <2>2 DEF Receive
    <3> QED BY <3>1, <1>s DEF Channels
  <2> QED BY <2>1, <2>2
<1>q. /\ \A t \in Sessions : t # s => sess'[t] = sess[t]
      /\ sess'[s] \in SessionRecords
      /\ sess'[s].id = sess[s].id /\ sess'[s].obj = o /\ sess'[s].slot = sess[s].slot
      /\ sess'[s].inbox = sess[s].inbox
      /\ \/ sess'[s].pc = "leave"
         \/ /\ sess'[s].pc = "forward" /\ sess'[s].out = n
            /\ n <= MaxMessage /\ obj[o].bytes + n <= MaxChannel /\ ~TooLarge(n)
      /\ sess' \in [Sessions -> SessionRecords]
  <2>n. sess \in [Sessions -> SessionRecords] /\ MaxMessage \in Nat /\ MaxChannel \in Nat
    BY ChanAssumption DEF ChanTypes
  <2>1. CASE TooLarge(n) \/ CapExceeded(o, n)
    <3>1. sess' = [sess EXCEPT ![s] = [sess[s] EXCEPT !.pc = "leave"]]
      BY <2>1, <2>n, <1>s DEF Receive
    <3>2. /\ [sess[s] EXCEPT !.pc = "leave"] \in SessionRecords
          /\ [sess[s] EXCEPT !.pc = "leave"].pc = "leave"
          /\ [sess[s] EXCEPT !.pc = "leave"].id = sess[s].id
          /\ [sess[s] EXCEPT !.pc = "leave"].obj = sess[s].obj
          /\ [sess[s] EXCEPT !.pc = "leave"].slot = sess[s].slot
          /\ [sess[s] EXCEPT !.pc = "leave"].inbox = sess[s].inbox
      BY <1>s DEF SessionRecords, SessionStates
    <3> QED BY <3>1, <3>2, <2>n
  <2>2. CASE ~TooLarge(n) /\ ~CapExceeded(o, n)
    <3> DEFINE q == [sess[s] EXCEPT !.pc = "forward", !.out = n, !.seen = cNow]
    <3>1. sess' = [sess EXCEPT ![s] = q]
      BY <2>2 DEF Receive
    <3>2. n <= MaxMessage /\ obj[o].bytes + n <= MaxChannel
      BY <2>2, <2>n, <1>s DEF TooLarge, CapExceeded, Channels
    <3>3. /\ q \in SessionRecords /\ q.pc = "forward" /\ q.id = sess[s].id /\ q.obj = sess[s].obj
          /\ q.slot = sess[s].slot /\ q.inbox = sess[s].inbox /\ q.out = n
      <4>1. n \in 0..MaxMessage
        BY <1>s, <2>n, <3>2
      <4>2. q \in SessionRecords
        BY <1>s, <4>1 DEF SessionRecords, SessionStates
      <4>3. /\ q.pc = "forward" /\ q.id = sess[s].id /\ q.obj = sess[s].obj
            /\ q.slot = sess[s].slot /\ q.inbox = sess[s].inbox /\ q.out = n
        BY <1>s DEF SessionRecords
      <4> QED BY <4>2, <4>3
    <3> HIDE DEF q
    <3> QED BY <2>2, <3>1, <3>2, <3>3, <2>n
  <2> QED BY <2>1, <2>2
<1>1. ChanTypes'
  BY <1>s, <1>u, <1>o, <1>q DEF ChanTypes
<1>2. Opened' /\ OneId' /\ KeepsSeat' /\ NoGhostSlot'
  BY <1>s, <1>u, <1>o, <1>q, PlacesKept DEF Seated
<1>3. SamePair'
  BY <1>q, InboxKept
<1>4. BytesCounted'
  <2> SUFFICES ASSUME NEW p \in DOMAIN obj
               PROVE  /\ forwarded[p] + Cardinality(UnderWay(p)') <= MaxChannel
                      /\ forwarded[p] + Cardinality(UnderWay(p)') <= obj'[p].bytes
    BY <1>u, <1>o DEF BytesCounted
  <2>1. /\ forwarded[p] + Cardinality(UnderWay(p)) <= MaxChannel
        /\ forwarded[p] + Cardinality(UnderWay(p)) <= obj[p].bytes
        /\ forwarded[p] \in Nat /\ obj[p].bytes \in Nat /\ obj'[p].bytes >= obj[p].bytes
        /\ IsFiniteSet(UnderWay(p)) /\ Cardinality(UnderWay(p)) \in Nat /\ MaxChannel \in Nat
    BY <1>o, <1>s, UnderWayFinite, ChanAssumption DEF BytesCounted, ChanTypes, Channels
  <2>2. CASE p # o \/ sess'[s].pc = "leave"
    <3>1. UnderWay(p)' = UnderWay(p)
      BY <2>2, <1>s, <1>q DEF UnderWay
    <3>2. obj'[p].bytes \in Nat
      BY <2>1, <1>o
    <3> QED BY <2>1, <3>1, <3>2
  <2>3. CASE p = o /\ sess'[s].pc # "leave"
    <3>1. UnderWay(o)' = UnderWay(o) \cup ({s} \X (1..n))
      <4>1. sess'[s].pc = "forward" /\ sess'[s].out = n /\ sess'[s].obj = o /\ n <= MaxMessage
        BY <2>3, <1>q
      <4>2. 1..n \subseteq 1..MaxMessage
        BY <4>1, <1>s, ChanAssumption
      <4>3. ASSUME NEW t \in Sessions, NEW k \in 1..MaxMessage
            PROVE  <<t, k>> \in UnderWay(o)' <=> <<t, k>> \in UnderWay(o) \/ (t = s /\ k \in 1..n)
        <5>1. CASE t = s
          BY <5>1, <4>1, <1>s DEF UnderWay
        <5>2. CASE t # s
          BY <5>2, <1>q DEF UnderWay
        <5> QED BY <5>1, <5>2
      <4>4. /\ UnderWay(o)' \subseteq Sessions \X (1..MaxMessage)
            /\ UnderWay(o) \subseteq Sessions \X (1..MaxMessage)
        BY DEF UnderWay
      <4> QED BY <4>2, <4>3, <4>4
    <3>2. \A k \in 1..n : <<s, k>> \notin UnderWay(o)
      BY <1>s DEF UnderWay
    <3>3. Cardinality(UnderWay(o)') = Cardinality(UnderWay(o)) + n
      <4> DEFINE U == UnderWay(o)
      <4>1. IsFiniteSet(U) /\ (\A k \in 1..n : <<s, k>> \notin U) /\ n \in Nat
        BY <2>1, <2>3, <3>2, <1>s
      <4> HIDE DEF U
      <4>2. Cardinality(U \cup ({s} \X (1..n))) = Cardinality(U) + n
        BY <4>1, AddColumn
      <4> QED BY <3>1, <4>2 DEF U
    <3>4. obj'[o].bytes = obj[o].bytes + n /\ obj[o].bytes + n <= MaxChannel
      BY <2>3, <1>o, <1>q
    <3> QED BY <2>1, <2>3, <3>3, <3>4, <1>s
  <2> QED BY <2>2, <2>3
<1> QED BY <1>1, <1>2, <1>3, <1>4

\* relay_loop(), the message is queued for the peer, if there is one.
LEMMA ForwardInd ==
    ASSUME ChanInd, NEW s \in Sessions, Forward(s)
    PROVE  ChanInd'
<1> USE DEF ChanInd
<1>0. PICK o, peer, n : o = sess[s].obj /\ peer = Peer(s) /\ n = sess[s].out
  OBVIOUS
<1>s. /\ sess[s] \in SessionRecords /\ o \in DOMAIN obj /\ obj[o] \in Channels
      /\ sess[s].pc = "forward" /\ n \in 0..MaxMessage /\ MaxMessage \in Nat
  BY <1>0, SeatedFacts, ChanAssumption DEF Forward, Seated, SessionRecords
<1>u. UNCHANGED <<cNow, registry, obj, raced>>
  BY DEF Forward
<1>p. /\ peer \in Sessions \cup {None}
      /\ peer # None => sess[peer].obj = o /\ sess[peer].pc # "new"
  <2>1. peer = obj[o].slots[1 - sess[s].slot] /\ 1 - sess[s].slot \in Slots
    BY <1>0, <1>s DEF Peer, SessionRecords, Slots
  <2>2. peer \in Sessions \cup {None}
    BY <2>1, <1>s DEF Channels
  <2>3. peer # None => sess[peer].obj = o
    BY <2>1, <1>s DEF OneId
  <2> QED BY <2>2, <2>3, <1>s, ChanAssumption DEF Opened, ChanTypes
<1>q. /\ sess' \in [Sessions -> SessionRecords]
      /\ \A t \in Sessions : /\ sess'[t].id = sess[t].id /\ sess'[t].obj = sess[t].obj
                             /\ sess'[t].slot = sess[t].slot
                             /\ sess'[t].out = IF t = s THEN 0 ELSE sess[t].out
                             /\ sess'[t].pc = IF t = s THEN "relay" ELSE sess[t].pc
                             /\ sess'[t].inbox = IF t = peer /\ peer # None
                                                   THEN Append(sess[t].inbox, s) ELSE sess[t].inbox
  <2> DEFINE q == [sess[s] EXCEPT !.pc = "relay", !.out = 0]
             one == [sess EXCEPT ![s] = q]
  <2>1. /\ q \in SessionRecords /\ q.pc = "relay" /\ q.out = 0 /\ q.id = sess[s].id
        /\ q.obj = sess[s].obj /\ q.slot = sess[s].slot /\ q.inbox = sess[s].inbox
    <3>1. q \in SessionRecords
      <4>1. 0 \in 0..MaxMessage /\ "relay" \in SessionStates
        BY <1>s DEF SessionStates
      <4> QED BY <4>1, <1>s DEF SessionRecords
    <3>2. /\ q.pc = "relay" /\ q.out = 0 /\ q.id = sess[s].id
          /\ q.obj = sess[s].obj /\ q.slot = sess[s].slot /\ q.inbox = sess[s].inbox
      BY <1>s DEF SessionRecords
    <3> QED BY <3>1, <3>2
  <2> HIDE DEF q
  <2>2. /\ one \in [Sessions -> SessionRecords]
        /\ \A t \in Sessions : /\ one[t].id = sess[t].id /\ one[t].obj = sess[t].obj
                               /\ one[t].slot = sess[t].slot /\ one[t].inbox = sess[t].inbox
                               /\ one[t].out = IF t = s THEN 0 ELSE sess[t].out
                               /\ one[t].pc = IF t = s THEN "relay" ELSE sess[t].pc
    BY <2>1 DEF ChanTypes
  <2>3. CASE peer = None
    <3>1. sess' = one
      BY <2>3, <1>0 DEF Forward, q
    <3> HIDE DEF one
    <3> QED BY <2>2, <2>3, <3>1
  <2>4. CASE peer # None
    <3>1. sess' = [one EXCEPT ![peer].inbox = Append(@, s)]
      BY <2>4, <1>0 DEF Forward, q
    <3>2. peer \in Sessions
      BY <2>4, <1>p
    <3> HIDE DEF one
    <3>3. one[peer] \in SessionRecords /\ one[peer].inbox \in Seq(Sessions)
      BY <2>2, <3>2 DEF SessionRecords
    <3>4. Append(one[peer].inbox, s) \in Seq(Sessions)
      BY <3>3
    <3>5. PICK i \in Seq(Sessions) : i = Append(one[peer].inbox, s)
      BY <3>4
    <3>6. sess' = [one EXCEPT ![peer] = [one[peer] EXCEPT !.inbox = i]]
      BY <3>1, <3>5
    <3>7. /\ [one[peer] EXCEPT !.inbox = i] \in SessionRecords
          /\ [one[peer] EXCEPT !.inbox = i].id = one[peer].id
          /\ [one[peer] EXCEPT !.inbox = i].obj = one[peer].obj
          /\ [one[peer] EXCEPT !.inbox = i].slot = one[peer].slot
          /\ [one[peer] EXCEPT !.inbox = i].out = one[peer].out
          /\ [one[peer] EXCEPT !.inbox = i].pc = one[peer].pc
          /\ [one[peer] EXCEPT !.inbox = i].inbox = i
      BY <3>3 DEF SessionRecords
    <3>8. PICK r \in SessionRecords : /\ r = [one[peer] EXCEPT !.inbox = i]
                                      /\ r.id = one[peer].id /\ r.obj = one[peer].obj
                                      /\ r.slot = one[peer].slot /\ r.out = one[peer].out
                                      /\ r.pc = one[peer].pc /\ r.inbox = i
      BY <3>7
    <3>9. /\ sess'[peer] = r /\ \A t \in Sessions : t # peer => sess'[t] = one[t]
          /\ sess' \in [Sessions -> SessionRecords]
      BY <2>2, <3>2, <3>6, <3>8
    <3>10. r.inbox = Append(sess[peer].inbox, s)
      BY <2>2, <3>2, <3>5, <3>8
    <3>11. ASSUME NEW t \in Sessions
           PROVE  /\ sess'[t].id = sess[t].id /\ sess'[t].obj = sess[t].obj
                  /\ sess'[t].slot = sess[t].slot
                  /\ sess'[t].out = IF t = s THEN 0 ELSE sess[t].out
                  /\ sess'[t].pc = IF t = s THEN "relay" ELSE sess[t].pc
                  /\ sess'[t].inbox = IF t = peer /\ peer # None
                                        THEN Append(sess[t].inbox, s) ELSE sess[t].inbox
      <4>1. CASE t = peer
        BY <4>1, <2>2, <2>4, <3>8, <3>9, <3>10
      <4>2. CASE t # peer
        BY <4>2, <2>2, <3>9
      <4> QED BY <4>1, <4>2
    <3> QED BY <3>9, <3>11
  <2> QED BY <2>3, <2>4
<1>f. /\ DOMAIN forwarded' = DOMAIN forwarded
      /\ \A p \in DOMAIN obj : forwarded'[p] = forwarded[p]
                               \/ (p = o /\ forwarded'[p] = forwarded[p] + n)
  BY <1>0, <1>s DEF Forward, ChanTypes
<1>1. ChanTypes'
  BY <1>s, <1>u, <1>q, <1>f DEF ChanTypes
<1>2. Opened' /\ OneId' /\ KeepsSeat' /\ NoGhostSlot'
  <2>1. \A t \in Sessions :
             /\ sess'[t].pc \in {"relay", "forward", "leave"} <=> Seated(t)
             /\ sess'[t].pc = "new" <=> sess[t].pc = "new"
             /\ sess[t].pc = "new" => sess'[t].inbox = sess[t].inbox
    BY <1>s, <1>p, <1>q DEF Seated
  <2> QED BY <1>u, <1>q, <2>1, PlacesKept
<1>3. SamePair'
  <2> SUFFICES ASSUME NEW t \in Sessions, NEW m \in DOMAIN sess'[t].inbox
               PROVE  sess'[sess'[t].inbox[m]].obj = sess'[t].obj
    BY DEF SamePair
  <2>0. sess[t].inbox \in Seq(Sessions)
    BY DEF ChanTypes, SessionRecords
  <2>1. CASE m \in DOMAIN sess[t].inbox
    <3>1. sess'[t].inbox[m] = sess[t].inbox[m] /\ sess[t].inbox[m] \in Sessions
      <4>1. sess[t].inbox[m] \in Sessions
        BY <2>0, <2>1
      <4>2. Append(sess[t].inbox, s)[m] = sess[t].inbox[m]
        BY <2>0, <2>1
      <4> QED BY <4>1, <4>2, <1>q
    <3> QED BY <2>1, <3>1, <1>q DEF SamePair
  <2>2. CASE m \notin DOMAIN sess[t].inbox
    <3>1. t = peer /\ peer # None /\ sess'[t].inbox = Append(sess[t].inbox, s)
      BY <2>2, <1>q
    <3>2. sess'[t].inbox[m] = s
      BY <2>0, <2>2, <3>1
    <3> QED BY <3>1, <3>2, <1>0, <1>p, <1>q
  <2> QED BY <2>1, <2>2
<1>4. BytesCounted'
  <2> SUFFICES ASSUME NEW p \in DOMAIN obj
               PROVE  /\ forwarded'[p] + Cardinality(UnderWay(p)') <= MaxChannel
                      /\ forwarded'[p] + Cardinality(UnderWay(p)') <= obj[p].bytes
    BY <1>u DEF BytesCounted
  <2>1. /\ forwarded[p] + Cardinality(UnderWay(p)) <= MaxChannel
        /\ forwarded[p] + Cardinality(UnderWay(p)) <= obj[p].bytes
        /\ forwarded[p] \in Nat /\ obj[p].bytes \in Nat /\ MaxChannel \in Nat
        /\ IsFiniteSet(UnderWay(p)) /\ Cardinality(UnderWay(p)) \in Nat
    BY UnderWayFinite, ChanAssumption DEF BytesCounted, ChanTypes, Channels
  <2>2. CASE p # o
    <3>1. UnderWay(p)' = UnderWay(p)
      BY <2>2, <1>0, <1>s, <1>q DEF UnderWay
    <3> QED BY <2>1, <2>2, <3>1, <1>f
  <2>3. CASE p = o
    <3> DEFINE V == UnderWay(p)'
    <3>1. UnderWay(p) = V \cup ({s} \X (1..n))
      <4>1. ASSUME NEW t \in Sessions, NEW k \in 1..MaxMessage
            PROVE  <<t, k>> \in UnderWay(p) <=> <<t, k>> \in V \/ (t = s /\ k \in 1..n)
        <5>1. CASE t = s
          BY <5>1, <2>3, <1>0, <1>s, <1>q DEF UnderWay
        <5>2. CASE t # s
          BY <5>2, <1>q DEF UnderWay
        <5> QED BY <5>1, <5>2
      <4>2. V \subseteq Sessions \X (1..MaxMessage) /\ UnderWay(p) \subseteq Sessions \X (1..MaxMessage)
        BY DEF UnderWay
      <4>3. 1..n \subseteq 1..MaxMessage
        BY <1>s
      <4> HIDE DEF V
      <4> QED BY <4>1, <4>2, <4>3
    <3>2. (\A k \in 1..n : <<s, k>> \notin V) /\ V \subseteq UnderWay(p) /\ n \in Nat
      BY <3>1, <1>s, <1>q DEF UnderWay
    <3>3. IsFiniteSet(V) /\ Cardinality(V) \in Nat
      BY <2>1, <3>2, FS_Subset, FS_CardinalityType
    <3> HIDE DEF V
    <3>4. Cardinality(UnderWay(p)) = Cardinality(V) + n
      <4>1. Cardinality(V \cup ({s} \X (1..n))) = Cardinality(V) + n
        BY <3>2, <3>3, AddColumn
      <4> QED BY <3>1, <4>1
    <3>5. forwarded'[p] \in {forwarded[p], forwarded[p] + n}
      BY <1>f
    <3>6. forwarded'[p] + Cardinality(V) <= MaxChannel /\ forwarded'[p] + Cardinality(V) <= obj[p].bytes
      BY <2>1, <3>2, <3>3, <3>4, <3>5
    <3> QED BY <3>6 DEF V
  <2> QED BY <2>2, <2>3
<1> QED BY <1>1, <1>2, <1>3, <1>4

\* A message from the peer, a ping, and the ways a session breaks.
LEMMA RelayInd ==
    ASSUME ChanInd, NEW s \in Sessions,
           Ping(s) \/ Break(s) \/ \E ok \in BOOLEAN : Deliver(s, ok)
    PROVE  ChanInd'
<1> USE DEF ChanInd
<1>0. PICK o : o = sess[s].obj
  OBVIOUS
<1>s. /\ sess[s] \in SessionRecords /\ o \in DOMAIN obj /\ obj[o] \in Channels
      /\ obj[o].last <= cNow /\ cNow \in Nat /\ sess[s].pc = "relay"
  BY <1>0, SeatedFacts DEF Ping, Break, Deliver, Seated
<1>u. UNCHANGED <<cNow, registry, forwarded, raced>>
  BY DEF Ping, Break, Deliver
<1>o. /\ DOMAIN obj' = DOMAIN obj
      /\ \A p \in DOMAIN obj : /\ obj'[p] \in Channels /\ obj'[p].slots = obj[p].slots
                               /\ obj'[p].bytes = obj[p].bytes /\ obj'[p].last <= cNow
  <2>1. \A p \in DOMAIN obj : obj[p] \in Channels /\ obj[p].last <= cNow
    BY DEF ChanTypes
  <2>2. obj' = obj \/ obj' = [obj EXCEPT ![o].last = cNow]
    BY <1>0 DEF Ping, Break, Deliver
  <2> QED BY <2>1, <2>2, <1>s DEF Channels
<1>q. /\ sess' \in [Sessions -> SessionRecords]
      /\ \A t \in Sessions : t # s => sess'[t] = sess[t]
      /\ sess'[s].id = sess[s].id /\ sess'[s].obj = sess[s].obj /\ sess'[s].slot = sess[s].slot
      /\ sess'[s].pc \in {"relay", "leave"}
      /\ \/ sess'[s].inbox = sess[s].inbox
         \/ sess[s].inbox # <<>> /\ sess'[s].inbox = Tail(sess[s].inbox)
  <2>t. sess \in [Sessions -> SessionRecords]
    BY DEF ChanTypes
  <2>1. CASE Ping(s) \/ Break(s)
    <3>1. PICK q : /\ sess' = [sess EXCEPT ![s] = q]
                   /\ q \in {[sess[s] EXCEPT !.seen = cNow], [sess[s] EXCEPT !.pc = "leave"]}
      <4>1. CASE Ping(s)
        BY <4>1, <2>t, <1>s DEF Ping
      <4>2. CASE Break(s)
        BY <4>2, <2>t, <1>s DEF Break
      <4> QED BY <2>1, <4>1, <4>2
    <3>2. q \in SessionRecords
      BY <3>1, <1>s DEF SessionRecords, SessionStates
    <3>3. /\ q.id = sess[s].id /\ q.obj = sess[s].obj /\ q.slot = sess[s].slot
          /\ q.pc \in {"relay", "leave"} /\ q.inbox = sess[s].inbox
      BY <3>1, <1>s DEF SessionRecords
    <3> QED BY <2>t, <3>1, <3>2, <3>3
  <2>2. ASSUME NEW ok \in BOOLEAN, Deliver(s, ok)
        PROVE  /\ sess'[s] \in SessionRecords
               /\ \A t \in Sessions : t # s => sess'[t] = sess[t]
               /\ sess'[s].id = sess[s].id /\ sess'[s].obj = sess[s].obj
               /\ sess'[s].slot = sess[s].slot /\ sess'[s].pc \in {"relay", "leave"}
               /\ sess[s].inbox # <<>> /\ sess'[s].inbox = Tail(sess[s].inbox)
               /\ sess' \in [Sessions -> SessionRecords]
    <3>1. PICK i \in Seq(Sessions) : i = Tail(sess[s].inbox) /\ sess[s].inbox # <<>>
      <4>1. sess[s].inbox \in Seq(Sessions) /\ sess[s].inbox # <<>>
        BY <2>2, <1>s DEF Deliver, SessionRecords
      <4>2. Tail(sess[s].inbox) \in Seq(Sessions)
        BY <4>1
      <4> QED BY <4>1, <4>2
    <3>2. PICK pc \in {"relay", "leave"} : pc = IF ok THEN "relay" ELSE "leave"
      OBVIOUS
    <3> DEFINE q == [sess[s] EXCEPT !.inbox = i, !.seen = cNow, !.pc = pc]
    <3>3. sess' = [sess EXCEPT ![s] = q]
      <4>1. sess' = [sess EXCEPT ![s].inbox = i, ![s].seen = cNow, ![s].pc = pc]
        BY <2>2, <3>1, <3>2 DEF Deliver
      <4> QED BY <4>1, <2>t
    <3>4. q \in SessionRecords
      BY <1>s DEF SessionRecords, SessionStates
    <3>5. /\ q.id = sess[s].id /\ q.obj = sess[s].obj /\ q.slot = sess[s].slot
          /\ q.pc = pc /\ q.inbox = i
      BY <1>s DEF SessionRecords
    <3> HIDE DEF q
    <3> QED BY <2>t, <3>1, <3>2, <3>3, <3>4, <3>5
  <2> QED BY <2>1, <2>2
<1>1. ChanTypes'
  BY <1>u, <1>o, <1>q DEF ChanTypes
<1>2. Opened' /\ OneId' /\ KeepsSeat' /\ NoGhostSlot'
  BY <1>s, <1>u, <1>o, <1>q, PlacesKept DEF Seated
<1>3. SamePair'
  <2> SUFFICES ASSUME NEW t \in Sessions, NEW m \in DOMAIN sess'[t].inbox
               PROVE  sess'[sess'[t].inbox[m]].obj = sess'[t].obj
    BY DEF SamePair
  <2>1. sess[t].inbox \in Seq(Sessions)
    BY DEF ChanTypes, SessionRecords
  <2>2. PICK k \in DOMAIN sess[t].inbox : sess'[t].inbox[m] = sess[t].inbox[k]
    <3>1. CASE sess'[t].inbox = sess[t].inbox
      BY <3>1
    <3>2. CASE sess[t].inbox # <<>> /\ sess'[t].inbox = Tail(sess[t].inbox)
      BY <2>1, <3>2
    <3> QED BY <3>1, <3>2, <1>q
  <2>3. sess[t].inbox[k] \in Sessions /\ sess[sess[t].inbox[k]].obj = sess[t].obj
    BY <2>1, <2>2 DEF SamePair
  <2> QED BY <2>2, <2>3, <1>q
<1>4. BytesCounted'
  <2>1. \A p : UnderWay(p)' = UnderWay(p)
    BY <1>s, <1>q, SameUnderWay
  <2> QED BY <2>1, <1>u, <1>o DEF BytesCounted
<1> QED BY <1>1, <1>2, <1>3, <1>4

\* leave(): the slot is cleared in the object that has the id now, which is the
\* session's own unless the sweeper took that one.
LEMMA LeaveInd ==
    ASSUME ChanInd, NEW s \in Sessions, Leave(s)
    PROVE  ChanInd'
<1> USE DEF ChanInd
<1>0. PICK id, k : id = sess[s].id /\ k = sess[s].slot
  OBVIOUS
<1>s. /\ sess[s] \in SessionRecords /\ sess[s].obj \in DOMAIN obj /\ sess[s].pc = "leave"
      /\ k \in Slots /\ id \in Ids
  BY <1>0, SeatedFacts DEF Leave, Seated, SessionRecords, Opened
<1>u. UNCHANGED <<cNow, forwarded, raced>>
  BY DEF Leave
<1>t. sess \in [Sessions -> SessionRecords] /\ \A o \in DOMAIN obj : obj[o] \in Channels
  BY DEF ChanTypes
<1>l. \A o : o \in LeftObj(s) <=> id \in DOMAIN registry /\ o = registry[id]
  BY <1>0 DEF LeftObj
<1>o. /\ DOMAIN obj' = DOMAIN obj
      /\ \A o \in DOMAIN obj : o \notin LeftObj(s) => obj'[o] = obj[o]
      /\ \A o \in LeftObj(s) : /\ obj'[o] \in Channels /\ obj'[o].slots[k] = None
                               /\ \A j \in Slots : j # k => obj'[o].slots[j] = obj[o].slots[j]
      /\ \A o \in DOMAIN obj : obj'[o].bytes = obj[o].bytes /\ obj'[o].last = obj[o].last
  <2>1. obj' = [o \in DOMAIN obj |-> IF o \in LeftObj(s)
                                       THEN [obj[o] EXCEPT !.slots[k] = None] ELSE obj[o]]
    BY <1>0 DEF Leave
  <2>2. ASSUME NEW c \in Channels
        PROVE  /\ [c EXCEPT !.slots[k] = None] \in Channels
               /\ [c EXCEPT !.slots[k] = None].slots = [c.slots EXCEPT ![k] = None]
               /\ [c EXCEPT !.slots[k] = None].bytes = c.bytes
               /\ [c EXCEPT !.slots[k] = None].last = c.last
               /\ c.slots \in [Slots -> Sessions \cup {None}]
    BY <1>s DEF Channels
  <2>3. \A o \in LeftObj(s) : o \in DOMAIN obj
    BY <1>l DEF ChanTypes
  <2>4. ASSUME NEW o \in LeftObj(s)
        PROVE  /\ obj'[o] \in Channels /\ obj'[o].slots = [obj[o].slots EXCEPT ![k] = None]
               /\ obj'[o].bytes = obj[o].bytes /\ obj'[o].last = obj[o].last
               /\ obj[o].slots \in [Slots -> Sessions \cup {None}]
    <3>1. obj'[o] = [obj[o] EXCEPT !.slots[k] = None] /\ obj[o] \in Channels
      BY <2>1, <2>3, <1>t
    <3> QED BY <2>2, <3>1
  <2>5. /\ DOMAIN obj' = DOMAIN obj
        /\ \A o \in DOMAIN obj : o \notin LeftObj(s) => obj'[o] = obj[o]
    BY <2>1
  <2>6. \A o \in LeftObj(s) : /\ obj'[o].slots[k] = None
                              /\ \A j \in Slots : j # k => obj'[o].slots[j] = obj[o].slots[j]
    BY <2>4, <1>s
  <2>7. \A o \in DOMAIN obj : obj'[o].bytes = obj[o].bytes /\ obj'[o].last = obj[o].last
    BY <2>4, <2>5
  <2> QED BY <2>4, <2>5, <2>6, <2>7
<1>r. /\ DOMAIN registry' \subseteq DOMAIN registry
      /\ \A i \in DOMAIN registry' : registry'[i] = registry[i]
      /\ \A i \in DOMAIN registry : i # id => i \in DOMAIN registry'
      /\ id \in DOMAIN registry /\ id \notin DOMAIN registry' =>
           \A j \in Slots : obj'[registry[id]].slots[j] = None
  <2>1. CASE \E o \in LeftObj(s) : obj'[o].slots = NewChannel.slots
    <3>1. registry' = Drop(registry, id)
      BY <2>1, <1>0 DEF Leave
    <3>2. \A j \in Slots : NewChannel.slots[j] = None
      BY DEF NewChannel
    <3> QED BY <2>1, <3>1, <3>2, <1>l DEF Drop
  <2>2. CASE ~\E o \in LeftObj(s) : obj'[o].slots = NewChannel.slots
    BY <2>2 DEF Leave
  <2> QED BY <2>1, <2>2
<1>q. /\ sess' \in [Sessions -> SessionRecords]
      /\ \A t \in Sessions : t # s => sess'[t] = sess[t]
      /\ sess'[s].pc = "gone" /\ sess'[s].id = sess[s].id /\ sess'[s].obj = sess[s].obj
      /\ sess'[s].inbox = <<>>
  <2> DEFINE q == [Unopened EXCEPT !.pc = "gone", !.id = sess[s].id, !.obj = sess[s].obj]
  <2>1. sess' = [sess EXCEPT ![s] = q]
    BY DEF Leave
  <2>2. q \in SessionRecords
    <3>1. 0 \in 0..MaxMessage /\ 0 \in Nat /\ 0 \in Slots /\ <<>> \in Seq(Sessions)
          /\ "gone" \in SessionStates
      BY ChanAssumption DEF Slots, SessionStates
    <3>2. sess[s].id \in Ids \cup {None} /\ sess[s].obj \in Objs \cup {None}
      BY <1>s DEF SessionRecords
    <3> QED BY <3>1, <3>2 DEF SessionRecords, Unopened
  <2>3. q.pc = "gone" /\ q.id = sess[s].id /\ q.obj = sess[s].obj /\ q.inbox = <<>>
    BY DEF Unopened
  <2> HIDE DEF q
  <2> QED BY <2>1, <2>2, <2>3, <1>t
<1>slot. \A o \in DOMAIN obj : \A j \in Slots :
            /\ obj[o].slots[j] \in Sessions \cup {None}
            /\ obj'[o].slots[j] # None => obj'[o].slots[j] = obj[o].slots[j]
            /\ obj'[o].slots[j] # obj[o].slots[j] => o \in LeftObj(s) /\ j = k
  BY <1>t, <1>o DEF Channels
<1>1. ChanTypes'
  <2>1. \A o \in DOMAIN obj : obj'[o] \in Channels /\ obj'[o].last <= cNow
    BY <1>o, <1>t DEF ChanTypes
  <2> QED BY <2>1, <1>u, <1>o, <1>r, <1>q DEF ChanTypes
<1>2. Opened'
  BY <1>s, <1>0, <1>o, <1>q DEF Opened
<1>3. OneId'
  <2>1. \A t \in Sessions : sess'[t].id = sess[t].id /\ sess'[t].obj = sess[t].obj
    BY <1>q
  <2>2. ASSUME NEW o \in DOMAIN obj, NEW j \in Slots, obj'[o].slots[j] # None
        PROVE  sess'[obj'[o].slots[j]].obj = o
    BY <2>1, <2>2, <1>slot DEF OneId
  <2> QED BY <2>1, <2>2, <1>o, <1>r DEF OneId
<1>4. NoGhostSlot'
  <2> SUFFICES ASSUME NEW i \in DOMAIN registry', NEW j \in Slots,
                      obj'[registry'[i]].slots[j] # None
               PROVE  LET t == obj'[registry'[i]].slots[j] IN
                        /\ sess'[t].pc \in {"relay", "forward", "leave"}
                        /\ sess'[t].obj = registry'[i] /\ sess'[t].slot = j
    BY DEF NoGhostSlot
  <2>1. PICK o : o = registry[i] /\ o = registry'[i] /\ i \in DOMAIN registry /\ o \in DOMAIN obj
    BY <1>r DEF ChanTypes
  <2>2. PICK t \in Sessions : t = obj[o].slots[j] /\ t = obj'[o].slots[j]
    BY <2>1, <1>slot
  <2>3. sess[t].pc \in {"relay", "forward", "leave"} /\ sess[t].obj = o /\ sess[t].slot = j
    <3>1. obj[registry[i]].slots[j] # None
      BY <2>1, <2>2, ChanAssumption
    <3>2. /\ sess[obj[registry[i]].slots[j]].pc \in {"relay", "forward", "leave"}
          /\ sess[obj[registry[i]].slots[j]].obj = registry[i]
          /\ sess[obj[registry[i]].slots[j]].slot = j
      BY <2>1, <3>1 DEF NoGhostSlot
    <3> QED BY <2>1, <2>2, <3>2
  <2>4. t # s
    <3> SUFFICES ASSUME t = s PROVE FALSE
      OBVIOUS
    <3>1. i = id /\ j = k
      BY <2>1, <2>3, <1>0 DEF OneId
    <3>2. o \in LeftObj(s) /\ obj'[o].slots[k] = None
      BY <2>1, <3>1, <1>l, <1>o
    <3> QED BY <2>1, <2>2, <3>1, <3>2, ChanAssumption
  <2> QED BY <2>1, <2>2, <2>3, <2>4, <1>q
<1>5. KeepsSeat'
  <2> SUFFICES ASSUME NEW t \in Sessions, Seated(t)', sess'[t].id \notin raced
               PROVE  /\ ~CutOff(t)'
                      /\ sess'[t].id \in DOMAIN registry' /\ registry'[sess'[t].id] = sess'[t].obj
    BY <1>u DEF KeepsSeat
  <2>1. t # s /\ sess'[t] = sess[t] /\ Seated(t)
    BY <1>q DEF Seated
  <2>2. PICK o \in DOMAIN obj : /\ o = sess[t].obj /\ obj[o].slots[sess[t].slot] = t
                                /\ sess[t].id \in DOMAIN registry /\ registry[sess[t].id] = o
                                /\ sess[t].slot \in Slots
    BY <2>1, <1>t DEF KeepsSeat, CutOff, ChanTypes, SessionRecords
  <2>3. obj'[o].slots[sess[t].slot] = t
    <3> SUFFICES ASSUME obj'[o].slots[sess[t].slot] # t PROVE FALSE
      OBVIOUS
    <3>1. o \in LeftObj(s) /\ sess[t].slot = k
      BY <2>2, <1>slot
    <3>2. id \in DOMAIN registry /\ o = registry[id] /\ id = sess[t].id
      BY <2>2, <3>1, <1>l DEF OneId
    <3>3. registry[id] = sess[s].obj /\ obj[sess[s].obj].slots[k] = s
      BY <2>1, <3>2, <1>0, <1>s DEF KeepsSeat, Seated, CutOff
    <3> QED BY <2>1, <2>2, <3>1, <3>2, <3>3
  <2>4. sess[t].id \in DOMAIN registry'
    BY <2>2, <2>3, <1>r, ChanAssumption
  <2> QED BY <2>1, <2>2, <2>3, <2>4, <1>r DEF CutOff
<1>6. SamePair'
  <2> SUFFICES ASSUME NEW t \in Sessions, NEW m \in DOMAIN sess'[t].inbox
               PROVE  sess'[sess'[t].inbox[m]].obj = sess'[t].obj
    BY DEF SamePair
  <2>1. t # s /\ sess'[t] = sess[t]
    BY <1>q
  <2>2. sess[t].inbox[m] \in Sessions /\ sess[sess[t].inbox[m]].obj = sess[t].obj
    BY <2>1, <1>t DEF SamePair, SessionRecords
  <2> QED BY <2>1, <2>2, <1>q
<1>7. BytesCounted'
  <2>1. \A p : UnderWay(p)' = UnderWay(p)
    BY <1>s, <1>q, SameUnderWay
  <2> QED BY <2>1, <1>u, <1>o DEF BytesCounted
<1> QED BY <1>1, <1>2, <1>3, <1>4, <1>5, <1>6, <1>7

\* sweep_expired() takes channels from the registry and marks the ids it raced on.
LEMMA SweepInd ==
    ASSUME ChanInd, Sweep
    PROVE  ChanInd'
<1> USE DEF ChanInd
<1>1. /\ DOMAIN registry' = DOMAIN registry \ Swept
      /\ \A i \in DOMAIN registry' : registry'[i] = registry[i]
      /\ UNCHANGED <<cNow, obj, sess, forwarded>>
      /\ raced \subseteq raced'
      /\ \A i \in Swept, s \in Sessions :
           sess[s].obj = registry[i] /\ sess[s].pc # "gone" => i \in raced'
  BY DEF Sweep, Keep
<1>2. ChanTypes' /\ Opened' /\ OneId' /\ NoGhostSlot'
  BY <1>1 DEF ChanTypes, Opened, OneId, NoGhostSlot
<1>3. KeepsSeat'
  BY <1>1 DEF KeepsSeat, Seated, CutOff
<1>4. SamePair' /\ BytesCounted'
  BY <1>1 DEF SamePair, BytesCounted, UnderWay
<1> QED BY <1>2, <1>3, <1>4

\* The clock, and steps that change nothing.
LEMMA ChanIdle ==
    ASSUME ChanInd, UNCHANGED <<registry, obj, sess, forwarded, raced>>,
           cNow' \in 0..ChanTime, cNow' >= cNow
    PROVE  ChanInd'
<1>1. cNow \in Nat /\ \A o \in DOMAIN obj : obj[o].last \in Nat
  BY ChanAssumption DEF ChanInd, ChanTypes, Channels
<1> QED BY <1>1, ChanAssumption
        DEF ChanInd, ChanTypes, Opened, OneId, NoGhostSlot, KeepsSeat, Seated, CutOff,
            SamePair, BytesCounted, UnderWay

\* However sessions join, talk, break and leave, and whatever the sweeper takes from under them:
\* a channel forwards no more than its cap, no slot is left by a session that is gone, a pair
\* that was not swept has its object to itself, and frames come from the peer (channel.rs).
THEOREM ChannelsHold == ChanSpec => []ChanInv
<1>1. ChanInd /\ [ChanNext]_chanVars => ChanInd'
  <2> SUFFICES ASSUME ChanInd, [ChanNext]_chanVars PROVE ChanInd'
    OBVIOUS
  <2>1. CASE ChanTick \/ UNCHANGED chanVars
    <3>1. cNow \in 0..ChanTime
      BY DEF ChanInd, ChanTypes
    <3> QED BY <2>1, <3>1, ChanIdle, ChanAssumption DEF ChanTick, chanVars
  <2>2. CASE Sweep
    BY <2>2, SweepInd
  <2>3. ASSUME NEW s \in Sessions, ChanStep(s) PROVE ChanInd'
    BY <2>3, JoinInd, ReceiveInd, ForwardInd, RelayInd, LeaveInd DEF ChanStep
  <2> QED BY <2>1, <2>2, <2>3 DEF ChanNext
<1>2. ChanInd => ChanInv
  <2> SUFFICES ASSUME ChanInd PROVE ChanInv
    OBVIOUS
  <2>1. ChanTypeOK
    <3>1. \A o \in DOMAIN obj : obj[o].bytes \in Nat /\ obj[o].last \in 0..cNow
      BY ChanAssumption DEF ChanInd, ChanTypes, Channels
    <3>2. \A s \in Sessions : Live(s) => /\ sess[s].obj \in DOMAIN obj /\ sess[s].slot \in Slots
                                         /\ sess[s].out \in 0..MaxMessage
      BY DEF ChanInd, ChanTypes, SessionRecords, Opened, Live
    <3> QED BY <3>1, <3>2 DEF ChanInd, ChanTypes, ChanTypeOK
  <2>2. ForwardedWithinCap
    <3>1. \A o \in DOMAIN obj : Cardinality(UnderWay(o)) \in Nat /\ forwarded[o] \in Nat
      BY UnderWayFinite DEF ChanInd, ChanTypes
    <3> QED BY <3>1, ChanAssumption DEF ChanInd, BytesCounted, ForwardedWithinCap
  <2>3. NoGhostSlot /\ PairExclusive /\ SamePair
    BY DEF ChanInd, KeepsSeat, Seated, PairExclusive, Live
  <2> QED BY <2>1, <2>2, <2>3 DEF ChanInv
<1> QED BY <1>1, <1>2, ChanStart, PTL DEF ChanSpec
=============================================================================
