------------------------- MODULE RelayLimitsProofs -------------------------
(***************************************************************************)
(* Proofs about the limits of the relay, for any number of addresses,      *)
(* shares, requests, sizes, sessions and restarts.  RelayLimits: the       *)
(* download slots of a share are exact, what uploads may use is bounded    *)
(* and accounted for, and no interval of the length of a window holds more *)
(* than its cap.  SftpGate: what the gate of the SFTP endpoint promises;   *)
(* its counters say nothing about the sessions in flight, so the invariant *)
(* counts those as well, by how far each has come.                         *)
(* SftpLink: the buffers of a connection are accounted for and every call  *)
(* that waits can still be answered; the invariant follows the one call of *)
(* a connection from the client over the relay to the server and back.     *)
(***************************************************************************)
EXTENDS RelayLimits, SftpGate, SftpLink, FiniteSetTheorems, Loops, TLAPS

Handlers ==
    [op : Ops, b : Buckets \cup {<<>>}, share : ShareIds \cup {None},
     len : Nat, sent : Nat, day : Nat]

LimitsTypes ==
    /\ now \in Nat
    /\ rq \in [Reqs -> Handlers]
    /\ \A r \in Reqs : rq[r].op \notin {"idle", "day", "done"} => rq[r].share \in ShareIds
    /\ \A r \in Reqs : Uploading(r) \/ rq[r].op = "release" => rq[r].b \in Buckets
    /\ \A b \in DOMAIN budget : budget[b] \in [day : Nat, bytes : 0..DailyBytes]
    /\ \A b \in DOMAIN totals : totals[b] \in Nat
    /\ \A s \in DOMAIN byShare : s \in ShareIds /\ byShare[s] \in [b : Buckets, n : Nat]
    /\ \A k \in DOMAIN spent : k \in Buckets \X Nat /\ spent[k] \in Nat

\* The slots: the counter of a share is its bodies and its refusals.
SlotsInd ==
    /\ SlotsExact
    /\ \A s \in DOMAIN counter : s \in ShareIds /\ counter[s] \in Nat

\* The budget: no request is of a day to come, and the entry of a bucket that did
\* not stream past midnight covers what was spent today.
BudgetInd ==
    /\ BudgetHeld
    /\ \A r \in Reqs : rq[r].day <= Today
    /\ \A k \in DOMAIN spent : k[2] <= Today
    /\ \A b \in Buckets \ straddled :
         Get(spent, <<b, Today>>, 0) <= BudgetEntry(b, Today).bytes

\* The bytes: those of a release under way are still in the total.
Accounted ==
    \A b \in Buckets :
      /\ \A op \in {"attribute", "release"} : IsFiniteSet(PendingBytes(b, op))
      /\ IsFiniteSet(AttributedBytes(b))
      /\ Get(totals, b, 0) + Pending(b, "attribute") >= Attributed(b) + Pending(b, "release")

\* The cap: a bucket outside unmeasured has one upload or release under way at
\* most, whose share is its own, and room for it.
Measured ==
    /\ \A q, r \in Reqs :
         q # r /\ Uploading(q) /\ (Uploading(r) \/ rq[r].op = "release") =>
           /\ rq[q].b = rq[r].b => rq[q].b \in unmeasured
           /\ Uploading(r) /\ rq[q].share = rq[r].share => {rq[q].b, rq[r].b} \subseteq unmeasured
    /\ \A q \in Reqs :
         Uploading(q) /\ rq[q].share \in DOMAIN byShare /\ byShare[rq[q].share].b # rq[q].b =>
           {rq[q].b, byShare[rq[q].share].b} \subseteq unmeasured
    /\ \A q \in Reqs :
         Uploading(q) /\ rq[q].b \notin unmeasured =>
           Get(totals, rq[q].b, 0) + rq[q].len <= StorageCap
    /\ StorageCapHeld

\* The inductive invariant of the uploads.
UploadsInd == LimitsTypes /\ BudgetInd /\ Accounted /\ Measured
-----------------------------------------------------------------------------
\* The day of the clock is a number, and it never goes back.
LEMMA DayNumber ==
    ASSUME now \in Nat
    PROVE  Today \in Nat
BY LimitsAssumption, SMT DEF Today

LEMMA DayGrows ==
    ASSUME NEW n \in Nat, NEW w \in Nat \ {0}
    PROVE  (n \div w) \in Nat /\ ((n + 1) \div w) \in Nat /\ n \div w <= (n + 1) \div w
BY Z3

\* What a request finds when it begins: a handler that has done nothing yet.
LEMMA BeginFacts ==
    ASSUME LimitsTypes, NEW r \in Reqs, NEW op, NEW b, NEW s, NEW n, NEW d,
           Begin(r, op, b, s, n, d)
    PROVE  /\ rq[r].op = "idle" /\ DOMAIN rq' = Reqs
           /\ rq'[r].op = op /\ rq'[r].b = b /\ rq'[r].share = s
           /\ rq'[r].len = n /\ rq'[r].sent = 0 /\ rq'[r].day = d
           /\ (op \in Ops /\ b \in Buckets \cup {<<>>} /\ s \in ShareIds \cup {None} /\ n \in Nat
               /\ d \in Nat => rq'[r] \in Handlers /\ rq' \in [Reqs -> Handlers])
           /\ \A q \in Reqs : q # r => rq'[q] = rq[q]
<1> DEFINE x == [op |-> op, b |-> b, share |-> s, len |-> n, sent |-> 0, day |-> d]
<1>1. rq[r].op = "idle" /\ rq' = [rq EXCEPT ![r] = x] /\ rq \in [Reqs -> Handlers]
  BY DEF Begin, LimitsTypes
<1>2. x.op = op /\ x.b = b /\ x.share = s /\ x.len = n /\ x.sent = 0 /\ x.day = d
  OBVIOUS
<1>3. op \in Ops /\ b \in Buckets \cup {<<>>} /\ s \in ShareIds \cup {None} /\ n \in Nat
      /\ d \in Nat => x \in Handlers
  BY DEF Handlers
<1> HIDE DEF x
<1> QED BY <1>1, <1>2, <1>3

\* A request moves to another step and keeps the rest.
LEMMA GotoFacts ==
    ASSUME LimitsTypes, NEW r \in Reqs, NEW op \in Ops, Goto(r, op)
    PROVE  /\ rq' \in [Reqs -> Handlers]
           /\ rq'[r].op = op /\ rq'[r].b = rq[r].b /\ rq'[r].share = rq[r].share
           /\ rq'[r].len = rq[r].len /\ rq'[r].sent = rq[r].sent /\ rq'[r].day = rq[r].day
           /\ \A q \in Reqs : q # r => rq'[q] = rq[q]
<1>1. rq \in [Reqs -> Handlers] /\ rq' = [rq EXCEPT ![r].op = op]
  BY DEF Goto, LimitsTypes
<1>2. rq' \in [Reqs -> Handlers]
  BY <1>1 DEF Handlers
<1>3. /\ rq'[r].op = op /\ rq'[r].b = rq[r].b /\ rq'[r].share = rq[r].share
      /\ rq'[r].len = rq[r].len /\ rq'[r].sent = rq[r].sent /\ rq'[r].day = rq[r].day
      /\ \A q \in Reqs : q # r => rq'[q] = rq[q]
  BY <1>1 DEF Handlers
<1> QED BY <1>2, <1>3

\* Facts that every action leaves a handler with, from those about the one that moved.
LEMMA HandlerTypes ==
    ASSUME LimitsTypes, NEW r \in Reqs, rq' \in [Reqs -> Handlers],
           rq'[r].op \notin {"idle", "day", "done"} => rq'[r].share \in ShareIds,
           Uploading(r)' \/ rq'[r].op = "release" => rq'[r].b \in Buckets,
           \A q \in Reqs : q # r => rq'[q] = rq[q]
    PROVE  /\ \A q \in Reqs : rq'[q].op \notin {"idle", "day", "done"} => rq'[q].share \in ShareIds
           /\ \A q \in Reqs : (Uploading(q) \/ rq[q].op = "release")' => rq'[q].b \in Buckets
BY DEF LimitsTypes, Uploading

\* The entry of a bucket in the budget of a day.
LEMMA EntryType ==
    ASSUME LimitsTypes, NEW b, NEW d \in Nat
    PROVE  /\ BudgetEntry(b, d) \in [day : Nat, bytes : 0..DailyBytes]
           /\ BudgetEntry(b, d).day = d
BY LimitsAssumption DEF BudgetEntry, LimitsTypes

\* What try_consume() leaves in the map.
LEMMA AfterFacts ==
    ASSUME LimitsTypes, NEW b, NEW d \in Nat
    PROVE  /\ b \in DOMAIN BudgetAfter(b, d)
           /\ DOMAIN BudgetAfter(b, d) \subseteq DOMAIN budget \cup {b}
           /\ BudgetAfter(b, d)[b].day = d
           /\ BudgetAfter(b, d)[b].bytes = BudgetEntry(b, d).bytes + (IF BudgetFits(b, d) THEN 1 ELSE 0)
           /\ BudgetAfter(b, d)[b] \in [day : Nat, bytes : 0..DailyBytes]
           /\ \A x \in DOMAIN BudgetAfter(b, d) : x # b => BudgetAfter(b, d)[x] = budget[x]
           /\ \A x \in DOMAIN budget : budget[x].day >= d - 1 => x \in DOMAIN BudgetAfter(b, d)
<1> DEFINE e == BudgetEntry(b, d)
           v == IF BudgetFits(b, d) THEN [e EXCEPT !.bytes = @ + 1] ELSE e
           kept == IF Cardinality(DOMAIN budget) >= MaxKeys
                     THEN Keep(budget, {x \in DOMAIN budget : budget[x].day >= d - 1})
                     ELSE budget
<1>1. e \in [day : Nat, bytes : 0..DailyBytes] /\ e.day = d
  BY EntryType
<1>2. BudgetFits(b, d) => e.bytes + 1 <= DailyBytes
  BY DEF BudgetFits
<1>n. DailyBytes \in Nat
  BY LimitsAssumption
<1> HIDE DEF e
<1>3. v.day = d /\ v.bytes = e.bytes + (IF BudgetFits(b, d) THEN 1 ELSE 0)
  BY <1>1
<1>4. v \in [day : Nat, bytes : 0..DailyBytes]
  BY <1>1, <1>2, <1>n
<1>5. /\ DOMAIN kept \subseteq DOMAIN budget
      /\ \A x \in DOMAIN kept : kept[x] = budget[x]
      /\ \A x \in DOMAIN budget : budget[x].day >= d - 1 => x \in DOMAIN kept
  BY DEF Keep
<1>6. BudgetAfter(b, d) = Put(kept, b, v)
  BY DEF BudgetAfter, e
<1> HIDE DEF v, kept
<1> QED BY <1>3, <1>4, <1>5, <1>6 DEF Put, e

\* The relay starts empty.
LEMMA TypesStart == LimitsInit => LimitsTypes
<1> SUFFICES ASSUME LimitsInit PROVE LimitsTypes
  OBVIOUS
<1>1. now \in Nat
  BY LimitsAssumption DEF LimitsInit
<1>2. IdleReq \in Handlers /\ IdleReq.op = "idle"
  BY DEF IdleReq, Handlers, Ops
<1>3. rq \in [Reqs -> Handlers] /\ \A r \in Reqs : rq[r].op = "idle"
  BY <1>2 DEF LimitsInit
<1> QED BY <1>1, <1>3 DEF LimitsTypes, LimitsInit, EmptyMap, Uploading

\* Every step keeps the types.
LEMMA TypesStep == LimitsTypes /\ [LimitsNext]_limitVars => LimitsTypes'
<1> SUFFICES ASSUME LimitsTypes, [LimitsNext]_limitVars PROVE LimitsTypes'
  OBVIOUS
<1>t. rq \in [Reqs -> Handlers] /\ now \in Nat /\ Today \in Nat
  BY DayNumber DEF LimitsTypes
<1>1. ASSUME NEW r \in Reqs, NEW ip \in Addrs, JoinChannel(r, ip) \/ CreateHour(r, ip)
      PROVE  LimitsTypes'
  <2>1. PICK b \in Buckets, op \in {"day", "done"} : Begin(r, op, b, None, 0, 0)
    BY <1>1 DEF JoinChannel, CreateHour, Buckets
  <2>2. /\ rq' \in [Reqs -> Handlers] /\ rq'[r].op = op
        /\ \A q \in Reqs : q # r => rq'[q] = rq[q]
    BY <2>1, BeginFacts DEF Ops
  <2>3. UNCHANGED <<now, budget, totals, byShare, spent>>
    BY <1>1 DEF JoinChannel, CreateHour, past, uploadPast
  <2> QED BY <2>2, <2>3, HandlerTypes DEF LimitsTypes, Uploading
<1>2. ASSUME NEW r \in Reqs, NEW op \in {"serving", "backoff", "done", "stored"}, Goto(r, op),
             rq[r].op # "idle", op # "done" => rq[r].op \notin {"day", "done"},
             op = "stored" => rq[r].op = "stream",
             UNCHANGED <<now, budget, byShare, spent>>,
             \A b \in DOMAIN totals' : totals'[b] \in Nat
      PROVE  LimitsTypes'
  <2>1. /\ rq' \in [Reqs -> Handlers] /\ rq'[r].op = op
        /\ rq'[r].b = rq[r].b /\ rq'[r].share = rq[r].share
        /\ \A q \in Reqs : q # r => rq'[q] = rq[q]
    BY <1>2, GotoFacts DEF Ops
  <2> QED BY <1>2, <2>1, HandlerTypes DEF LimitsTypes, Uploading
<1>3. ASSUME NEW r \in Reqs, CreateDay(r) PROVE LimitsTypes'
  BY <1>2, <1>3 DEF CreateDay, uploadPast, LimitsTypes
<1>4. ASSUME NEW r \in Reqs, NEW b \in Buckets, NEW s \in ShareIds, NEW n \in Sizes,
             NEW declared \in BOOLEAN, BeginUpload(r, b, s, n, declared)
      PROVE  LimitsTypes'
  <2>1. Begin(r, "stream", b, s, n, Today) /\ UNCHANGED <<now, budget, totals, byShare, spent>>
    BY <1>4 DEF BeginUpload, maps
  <2>2. /\ rq' \in [Reqs -> Handlers] /\ rq'[r].op = "stream" /\ rq'[r].b = b
        /\ rq'[r].share = s /\ \A q \in Reqs : q # r => rq'[q] = rq[q]
    BY <1>t, <2>1, BeginFacts, LimitsAssumption DEF Ops
  <2> QED BY <2>1, <2>2, HandlerTypes DEF LimitsTypes
<1>5. ASSUME NEW r \in Reqs, StreamChunk(r) PROVE LimitsTypes'
  <2> DEFINE b == rq[r].b
             d == rq[r].day
  <2>1. rq[r].op = "stream" /\ b \in Buckets /\ d \in Nat /\ rq[r].share \in ShareIds
    BY <1>t, <1>5 DEF StreamChunk, LimitsTypes, Handlers, Uploading
  <2>2. budget' = BudgetAfter(b, d)
        /\ (spent' = spent \/ spent' = Put(spent, <<b, d>>, Get(spent, <<b, d>>, 0) + 1))
        /\ (rq' = [rq EXCEPT ![r].sent = @ + 1] \/ rq' = [rq EXCEPT ![r].op = "done"])
        /\ UNCHANGED <<now, totals, byShare>>
    BY <1>5 DEF StreamChunk
  <2>3. \A x \in DOMAIN budget' : budget'[x] \in [day : Nat, bytes : 0..DailyBytes]
    BY <2>1, <2>2, AfterFacts DEF LimitsTypes
  <2>4. \A k \in DOMAIN spent' : k \in Buckets \X Nat /\ spent'[k] \in Nat
    <3>1. <<b, d>> \in Buckets \X Nat /\ Get(spent, <<b, d>>, 0) + 1 \in Nat
      BY <2>1 DEF Get, LimitsTypes
    <3> HIDE DEF b, d
    <3> QED BY <2>2, <3>1 DEF Put, LimitsTypes
  <2>5. rq' \in [Reqs -> Handlers]
    <3>1. [rq[r] EXCEPT !.sent = @ + 1] \in Handlers
      BY <1>t, SMTT(30) DEF Handlers
    <3>2. [rq[r] EXCEPT !.op = "done"] \in Handlers
      BY <1>t DEF Handlers, Ops
    <3>3. \/ rq' = [rq EXCEPT ![r] = [rq[r] EXCEPT !.sent = @ + 1]]
          \/ rq' = [rq EXCEPT ![r] = [rq[r] EXCEPT !.op = "done"]]
      BY <1>t, <2>2 DEF Handlers
    <3> QED BY <1>t, <3>1, <3>2, <3>3
  <2>6. /\ rq'[r].op \in {"stream", "done"} /\ rq'[r].b = b /\ rq'[r].share = rq[r].share
        /\ \A q \in Reqs : q # r => rq'[q] = rq[q]
    BY <1>t, <2>1, <2>2 DEF Handlers
  <2> QED BY <2>1, <2>2, <2>3, <2>4, <2>5, <2>6, HandlerTypes DEF LimitsTypes
<1>6. ASSUME NEW r \in Reqs, NEW ok \in BOOLEAN, StoreUpload(r, ok) PROVE LimitsTypes'
  BY <1>2, <1>6 DEF StoreUpload, maps, past, uploadPast, LimitsTypes
<1>7. ASSUME NEW r \in Reqs, RegisterShare(r) PROVE LimitsTypes'
  <2> DEFINE s == rq[r].share
             e == Get(byShare, s, [b |-> rq[r].b, n |-> 0])
  <2>1. rq[r].op = "stored" /\ rq[r].b \in Buckets /\ s \in ShareIds /\ rq[r].len \in Nat
    BY <1>t, <1>7 DEF RegisterShare, LimitsTypes, Handlers, Uploading
  <2>2. e \in [b : Buckets, n : Nat]
    BY <2>1 DEF Get, LimitsTypes
  <2>3. /\ byShare' = Put(byShare, s, [e EXCEPT !.n = @ + rq[r].len])
        /\ rq' = [rq EXCEPT ![r].op = "attribute", ![r].b = e.b]
        /\ UNCHANGED <<now, budget, totals, spent>>
    BY <1>7 DEF RegisterShare, past, uploadPast
  <2> HIDE DEF e
  <2>4. [e EXCEPT !.n = @ + rq[r].len] \in [b : Buckets, n : Nat]
    BY <2>1, <2>2
  <2>5. \A x \in DOMAIN byShare' : x \in ShareIds /\ byShare'[x] \in [b : Buckets, n : Nat]
    BY <2>1, <2>3, <2>4 DEF Put, LimitsTypes
  <2>6. rq' \in [Reqs -> Handlers]
    <3>1. [rq[r] EXCEPT !.op = "attribute", !.b = e.b] \in Handlers
      BY <1>t, <2>2 DEF Handlers, Ops
    <3>2. rq' = [rq EXCEPT ![r] = [rq[r] EXCEPT !.op = "attribute", !.b = e.b]]
      BY <1>t, <2>3 DEF Handlers
    <3> QED BY <1>t, <3>1, <3>2
  <2>7. /\ rq'[r].op = "attribute" /\ rq'[r].b = e.b /\ rq'[r].share = s
        /\ \A q \in Reqs : q # r => rq'[q] = rq[q]
    BY <1>t, <2>3 DEF Handlers
  <2> QED BY <2>1, <2>2, <2>3, <2>5, <2>6, <2>7, HandlerTypes DEF LimitsTypes
<1>8. ASSUME NEW r \in Reqs, RegisterTotal(r) \/ ReleaseTotal(r) PROVE LimitsTypes'
  <2>1. rq[r].len \in Nat /\ \A b \in DOMAIN totals : totals[b] \in Nat
    BY <1>t DEF LimitsTypes, Handlers
  <2>2. \A b \in DOMAIN totals' : totals'[b] \in Nat
    BY <1>8, <2>1 DEF RegisterTotal, ReleaseTotal, Left, SatSub, Get, Put, Drop
  <2> QED BY <1>2, <1>8, <2>2 DEF RegisterTotal, ReleaseTotal, past, uploadPast
<1>9. ASSUME NEW r \in Reqs, NEW s \in ShareIds, ReleaseShare(r, s) PROVE LimitsTypes'
  <2>1. /\ Begin(r, "release", byShare[s].b, s, byShare[s].n, 0) /\ byShare' = Drop(byShare, s)
        /\ byShare[s] \in [b : Buckets, n : Nat] /\ UNCHANGED <<now, budget, totals, spent>>
    BY <1>9 DEF ReleaseShare, LimitsTypes
  <2>2. /\ rq' \in [Reqs -> Handlers] /\ rq'[r].op = "release" /\ rq'[r].b = byShare[s].b
        /\ rq'[r].share = s /\ \A q \in Reqs : q # r => rq'[q] = rq[q]
    BY <2>1, BeginFacts DEF Ops
  <2>3. \A x \in DOMAIN byShare' : x \in ShareIds /\ byShare'[x] \in [b : Buckets, n : Nat]
    BY <2>1 DEF Drop, LimitsTypes
  <2> QED BY <2>1, <2>2, <2>3, HandlerTypes DEF LimitsTypes
<1>10. ASSUME NEW r \in Reqs, NEW s \in ShareIds, NEW n \in Sizes, BeginDownload(r, s, n)
       PROVE  LimitsTypes'
  <2>1. PICK op \in {"slot", "done"} : Begin(r, op, <<>>, s, n, 0)
    BY <1>10 DEF BeginDownload
  <2>2. UNCHANGED <<now, budget, totals, byShare, spent>>
    BY <1>10 DEF BeginDownload, uploadPast
  <2>3. /\ rq' \in [Reqs -> Handlers] /\ rq'[r].op = op /\ rq'[r].share = s
        /\ \A q \in Reqs : q # r => rq'[q] = rq[q]
    BY <2>1, BeginFacts, LimitsAssumption DEF Ops
  <2> QED BY <2>2, <2>3, HandlerTypes DEF LimitsTypes, Uploading
<1>11. ASSUME NEW r \in Reqs, AcquireSlot(r) \/ BackOff(r) \/ DropGuard(r) PROVE LimitsTypes'
  BY <1>2, <1>11 DEF AcquireSlot, BackOff, DropGuard, past, uploadPast, LimitsTypes
<1>12. CASE LimitsTick
  BY <1>12 DEF LimitsTick, maps, past, uploadPast, LimitsTypes, Uploading
<1>13. CASE LimitsRestart
  <2>1. [IdleReq EXCEPT !.op = "done"] \in Handlers /\ [IdleReq EXCEPT !.op = "done"].op = "done"
    BY DEF IdleReq, Handlers, Ops
  <2>2. rq' \in [Reqs -> Handlers] /\ \A q \in Reqs : rq'[q].op \in {"idle", "done"}
    BY <1>t, <1>13, <2>1 DEF LimitsRestart
  <2> QED BY <1>13, <2>2 DEF LimitsRestart, LimitsTypes, EmptyMap, Uploading
<1>14. CASE UNCHANGED limitVars
  BY <1>14 DEF limitVars, maps, past, uploadPast, LimitsTypes, Uploading
<1> QED BY <1>1, <1>3, <1>4, <1>5, <1>6, <1>7, <1>8, <1>9, <1>10, <1>11, <1>12, <1>13, <1>14
        DEF LimitsNext, WindowNext, UploadNext, DownloadNext
-----------------------------------------------------------------------------
(***************************************************************************)
(* The download slots.                                                     *)
(***************************************************************************)
SlotAt(s, op) == {r \in Reqs : rq[r].op = op /\ rq[r].share = s}

LEMMA AtFinite ==
    ASSUME NEW s, NEW op
    PROVE  IsFiniteSet(SlotAt(s, op)) /\ In(s, op) \in Nat /\ In(s, op) = Cardinality(SlotAt(s, op))
<1>1. SlotAt(s, op) \in SUBSET Reqs
  BY DEF SlotAt
<1>2. IsFiniteSet(SlotAt(s, op))
  BY <1>1, FS_Subset, LimitsAssumption
<1>3. In(s, op) = Cardinality(SlotAt(s, op))
  BY DEF In, SlotAt
<1> QED BY <1>2, <1>3, FS_CardinalityType

\* A request that takes its slot or its refusal is one more; one that gives it
\* back is one less; nobody else counts differently.
LEMMA AtGains ==
    ASSUME NEW s, NEW op, NEW r \in Reqs, r \notin SlotAt(s, op), r \in SlotAt(s, op)',
           \A q \in Reqs : q # r => rq'[q] = rq[q]
    PROVE  In(s, op)' = In(s, op) + 1
<1>1. SlotAt(s, op)' = SlotAt(s, op) \cup {r}
  BY DEF SlotAt
<1>2. In(s, op)' = Cardinality(SlotAt(s, op)')
  BY DEF In, SlotAt
<1> QED BY <1>1, <1>2, AtFinite, FS_AddElement, SMTT(30)

LEMMA AtLoses ==
    ASSUME NEW s, NEW op, NEW r \in Reqs, r \in SlotAt(s, op), r \notin SlotAt(s, op)',
           \A q \in Reqs : q # r => rq'[q] = rq[q]
    PROVE  In(s, op)' = In(s, op) - 1
<1>1. SlotAt(s, op)' = SlotAt(s, op) \ {r}
  BY DEF SlotAt
<1>2. In(s, op)' = Cardinality(SlotAt(s, op)')
  BY DEF In, SlotAt
<1>3. IsFiniteSet(SlotAt(s, op)) /\ In(s, op) = Cardinality(SlotAt(s, op))
  BY AtFinite
<1>4. Cardinality(SlotAt(s, op) \ {r}) = Cardinality(SlotAt(s, op)) - 1
  BY <1>3, FS_RemoveElement
<1> QED BY <1>1, <1>2, <1>3, <1>4

LEMMA AtSame ==
    ASSUME NEW s, NEW op, \A q \in Reqs : q \in SlotAt(s, op) <=> q \in SlotAt(s, op)'
    PROVE  In(s, op)' = In(s, op)
<1>1. SlotAt(s, op)' = SlotAt(s, op)
  BY DEF SlotAt
<1> QED BY <1>1 DEF In, SlotAt

\* The relay starts with every slot free.
LEMMA SlotsStart == LimitsInit => SlotsInd
<1> SUFFICES ASSUME LimitsInit PROVE SlotsInd
  OBVIOUS
<1>1. ASSUME NEW s \in ShareIds, NEW op \in {"serving", "backoff"}
      PROVE  In(s, op) = 0
  <2>1. SlotAt(s, op) = {}
    BY DEF SlotAt, LimitsInit, IdleReq
  <2> QED BY <2>1, FS_EmptySet DEF In, SlotAt
<1>2. \A s \in ShareIds : In(s, "serving") = 0 /\ In(s, "backoff") = 0
  BY <1>1
<1> QED BY <1>2, LimitsAssumption DEF SlotsInd, SlotsExact, LimitsInit, Get, EmptyMap

\* Every step keeps the counter of a share exact.
LEMMA SlotsStep ==
    LimitsTypes /\ SlotsInd /\ [LimitsNext]_limitVars => SlotsInd'
<1> SUFFICES ASSUME LimitsTypes, SlotsInd, [LimitsNext]_limitVars PROVE SlotsInd'
  OBVIOUS
<1>t. rq \in [Reqs -> Handlers]
  BY DEF LimitsTypes
\* A step of a request that neither holds nor waits for a slot.
<1>1. ASSUME NEW r \in Reqs, rq[r].op \notin {"serving", "backoff"},
             rq'[r].op \notin {"serving", "backoff"},
             \A q \in Reqs : q # r => rq'[q] = rq[q], counter' = counter
      PROVE  SlotsInd'
  <2>1. ASSUME NEW s \in ShareIds, NEW op \in {"serving", "backoff"}
        PROVE  In(s, op)' = In(s, op)
    <3>1. \A q \in Reqs : q \in SlotAt(s, op) <=> q \in SlotAt(s, op)'
      BY <1>1 DEF SlotAt
    <3> QED BY <3>1, AtSame
  <2>2. \A s \in ShareIds : In(s, "serving")' = In(s, "serving") /\ In(s, "backoff")' = In(s, "backoff")
    BY <2>1
  <2> QED BY <1>1, <2>2 DEF SlotsInd, SlotsExact
<1>2. ASSUME NEW r \in Reqs, NEW op, NEW b, NEW s, NEW n, NEW d, Begin(r, op, b, s, n, d),
             op \notin {"serving", "backoff"}, counter' = counter
      PROVE  SlotsInd'
  BY <1>1, <1>2, BeginFacts
<1>3. ASSUME NEW r \in Reqs, NEW op \in Ops, Goto(r, op), op \notin {"serving", "backoff"},
             rq[r].op \notin {"serving", "backoff"}, counter' = counter
      PROVE  SlotsInd'
  BY <1>1, <1>3, GotoFacts
<1>4. ASSUME WindowNext PROVE SlotsInd'
  <2>1. ASSUME NEW r \in Reqs, NEW ip \in Addrs, JoinChannel(r, ip) PROVE SlotsInd'
    BY <1>2, <2>1 DEF JoinChannel
  <2>2. ASSUME NEW r \in Reqs, NEW ip \in Addrs, CreateHour(r, ip) PROVE SlotsInd'
    <3>1. PICK op \in {"day", "done"} : Begin(r, op, IpBucket(ip), None, 0, 0)
      BY <2>2 DEF CreateHour
    <3> QED BY <1>2, <2>2, <3>1 DEF CreateHour
  <2>3. ASSUME NEW r \in Reqs, CreateDay(r) PROVE SlotsInd'
    BY <1>3, <2>3 DEF CreateDay, Ops
  <2> QED BY <1>4, <2>1, <2>2, <2>3 DEF WindowNext
<1>5. ASSUME UploadNext PROVE SlotsInd'
  <2>1. ASSUME NEW r \in Reqs, NEW b \in Buckets, NEW s \in ShareIds, NEW n \in Sizes,
               NEW declared \in BOOLEAN, BeginUpload(r, b, s, n, declared)
        PROVE  SlotsInd'
    BY <1>2, <2>1 DEF BeginUpload, maps
  <2>2. ASSUME NEW r \in Reqs, StreamChunk(r) PROVE SlotsInd'
    <3>1. /\ rq[r].op = "stream" /\ rq'[r].op \in {"stream", "done"} /\ counter' = counter
          /\ \A q \in Reqs : q # r => rq'[q] = rq[q]
      BY <1>t, <2>2 DEF StreamChunk, Handlers
    <3> QED BY <1>1, <3>1
  <2>3. ASSUME NEW r \in Reqs, RegisterShare(r) PROVE SlotsInd'
    <3>1. /\ rq[r].op = "stored" /\ rq'[r].op = "attribute" /\ counter' = counter
          /\ \A q \in Reqs : q # r => rq'[q] = rq[q]
      BY <1>t, <2>3 DEF RegisterShare, Handlers
    <3> QED BY <1>1, <3>1
  <2>4. ASSUME NEW r \in Reqs, RegisterTotal(r) \/ ReleaseTotal(r) PROVE SlotsInd'
    BY <1>3, <2>4 DEF RegisterTotal, ReleaseTotal, Ops
  <2>5. ASSUME NEW r \in Reqs, NEW ok \in BOOLEAN, StoreUpload(r, ok) PROVE SlotsInd'
    BY <1>3, <2>5 DEF StoreUpload, maps, Ops
  <2>6. ASSUME NEW r \in Reqs, NEW s \in ShareIds, ReleaseShare(r, s) PROVE SlotsInd'
    BY <1>2, <2>6 DEF ReleaseShare
  <2> QED BY <1>5, <2>1, <2>2, <2>3, <2>4, <2>5, <2>6 DEF UploadNext
<1>6. ASSUME NEW r \in Reqs, NEW s \in ShareIds, NEW n \in Sizes, BeginDownload(r, s, n)
      PROVE  SlotsInd'
  <2>1. PICK op \in {"slot", "done"} : Begin(r, op, <<>>, s, n, 0)
    BY <1>6 DEF BeginDownload
  <2> QED BY <1>2, <1>6, <2>1 DEF BeginDownload
<1>7. ASSUME NEW r \in Reqs, AcquireSlot(r) PROVE SlotsInd'
  <2>1. PICK t \in ShareIds : t = rq[r].share
    BY <1>7 DEF AcquireSlot, LimitsTypes
  <2>2. PICK op \in {"serving", "backoff"} :
          /\ op = IF SlotFree(Get(counter, t, 0)) THEN "serving" ELSE "backoff"
          /\ Goto(r, op) /\ rq[r].op = "slot"
          /\ counter' = Put(counter, t, Get(counter, t, 0) + 1)
    BY <1>7, <2>1 DEF AcquireSlot
  <2>3. /\ rq'[r].op = op /\ rq'[r].share = t
        /\ \A q \in Reqs : q # r => rq'[q] = rq[q]
    BY <2>1, <2>2, GotoFacts DEF Ops
  <2>4. ASSUME NEW s \in ShareIds, NEW p \in {"serving", "backoff"}
        PROVE  In(s, p)' = IF s = t /\ p = op THEN In(s, p) + 1 ELSE In(s, p)
    <3>1. CASE s = t /\ p = op
      BY <2>2, <2>3, <3>1, AtGains DEF SlotAt
    <3>2. CASE ~(s = t /\ p = op)
      <4>1. \A q \in Reqs : q \in SlotAt(s, p) <=> q \in SlotAt(s, p)'
        BY <2>2, <2>3, <3>2 DEF SlotAt
      <4> QED BY <3>2, <4>1, AtSame
    <3> QED BY <3>1, <3>2
  <2>5. \A s \in ShareIds :
          /\ In(s, "serving")' = IF s = t /\ op = "serving" THEN In(s, "serving") + 1 ELSE In(s, "serving")
          /\ In(s, "backoff")' = IF s = t /\ op = "backoff" THEN In(s, "backoff") + 1 ELSE In(s, "backoff")
    BY <2>4
  <2>6. \A s \in ShareIds : In(s, "serving") \in Nat /\ In(s, "backoff") \in Nat
    BY AtFinite
  <2>7. Get(counter, t, 0) \in Nat /\ (op = "serving" => In(t, "serving") < MaxConcurrent)
    BY <2>2, <2>6, LimitsAssumption DEF SlotsInd, SlotsExact, Get, SlotFree
  <2>8. \A s \in ShareIds : Get(counter', s, 0) = IF s = t THEN Get(counter, s, 0) + 1
                                                   ELSE Get(counter, s, 0)
    BY <2>2 DEF Put, Get
  <2>9. SlotsExact'
    BY <2>2, <2>5, <2>6, <2>7, <2>8, LimitsAssumption DEF SlotsInd, SlotsExact
  <2>10. \A s \in DOMAIN counter' : s \in ShareIds /\ counter'[s] \in Nat
    BY <2>2, <2>7 DEF Put, SlotsInd
  <2> QED BY <2>9, <2>10 DEF SlotsInd
<1>8. ASSUME NEW r \in Reqs, BackOff(r) \/ DropGuard(r) PROVE SlotsInd'
  <2>1. PICK op \in {"serving", "backoff"}, t \in ShareIds : op = rq[r].op /\ t = rq[r].share
    BY <1>8 DEF BackOff, DropGuard, LimitsTypes
  <2>2. Goto(r, "done") /\ counter' = [counter EXCEPT ![t] = @ - 1]
    BY <1>8, <2>1 DEF BackOff, DropGuard
  <2>3. /\ rq'[r].op = "done" /\ \A q \in Reqs : q # r => rq'[q] = rq[q]
    BY <2>2, GotoFacts DEF Ops
  <2>4. ASSUME NEW s \in ShareIds, NEW p \in {"serving", "backoff"}
        PROVE  In(s, p)' = IF s = t /\ p = op THEN In(s, p) - 1 ELSE In(s, p)
    <3>1. CASE s = t /\ p = op
      BY <2>1, <2>3, <3>1, AtLoses DEF SlotAt
    <3>2. CASE ~(s = t /\ p = op)
      <4>1. \A q \in Reqs : q \in SlotAt(s, p) <=> q \in SlotAt(s, p)'
        BY <2>1, <2>3, <3>2 DEF SlotAt
      <4> QED BY <3>2, <4>1, AtSame
    <3> QED BY <3>1, <3>2
  <2>5. \A s \in ShareIds :
          /\ In(s, "serving")' = IF s = t /\ op = "serving" THEN In(s, "serving") - 1 ELSE In(s, "serving")
          /\ In(s, "backoff")' = IF s = t /\ op = "backoff" THEN In(s, "backoff") - 1 ELSE In(s, "backoff")
    BY <2>4
  <2>6. /\ \A s \in ShareIds : In(s, "serving") \in Nat /\ In(s, "backoff") \in Nat
        /\ In(t, "serving") + In(t, "backoff") > 0
    <3>1. \A s \in ShareIds : In(s, "serving") \in Nat /\ In(s, "backoff") \in Nat
      BY AtFinite
    <3>2. In(t, op) # 0
      <4>1. r \in SlotAt(t, op)
        BY <2>1 DEF SlotAt
      <4> QED BY <4>1, AtFinite, FS_EmptySet
    <3> QED BY <3>1, <3>2
  <2>7. t \in DOMAIN counter /\ counter[t] \in Nat \ {0}
    BY <2>6 DEF SlotsInd, SlotsExact, Get
  <2>8. \A s \in ShareIds : Get(counter', s, 0) = IF s = t THEN Get(counter, s, 0) - 1
                                                   ELSE Get(counter, s, 0)
    BY <2>2, <2>7 DEF Get
  <2>9. SlotsExact'
    BY <2>5, <2>6, <2>7, <2>8, LimitsAssumption DEF SlotsInd, SlotsExact
  <2>10. \A s \in DOMAIN counter' : s \in ShareIds /\ counter'[s] \in Nat
    BY <2>2, <2>7 DEF SlotsInd
  <2> QED BY <2>9, <2>10 DEF SlotsInd
<1>9. CASE LimitsTick \/ UNCHANGED limitVars
  <2>1. rq' = rq /\ counter' = counter
    BY <1>9 DEF LimitsTick, limitVars, maps
  <2> QED BY <2>1 DEF SlotsInd, SlotsExact, In
<1>10. CASE LimitsRestart
  <2>1. \A q \in Reqs : rq'[q].op \in {"idle", "done"}
    BY <1>t, <1>10 DEF LimitsRestart, IdleReq
  <2>2. ASSUME NEW s \in ShareIds, NEW op \in {"serving", "backoff"}
        PROVE  In(s, op)' = 0
    <3>1. SlotAt(s, op)' = {}
      BY <2>1 DEF SlotAt
    <3> QED BY <3>1, FS_EmptySet DEF In, SlotAt
  <2>3. \A s \in ShareIds : In(s, "serving")' = 0 /\ In(s, "backoff")' = 0
    BY <2>2
  <2> QED BY <1>10, <2>3, LimitsAssumption DEF LimitsRestart, SlotsInd, SlotsExact, Get, EmptyMap
<1> QED BY <1>4, <1>5, <1>6, <1>7, <1>8, <1>9, <1>10 DEF LimitsNext, DownloadNext

\* No interleaving of requests, refusals and dropped connections leaks a download
\* slot or serves more bodies of a share than allowed (ShareConcurrencyTracker).
THEOREM SlotsHold == LimitsSpec => []SlotsExact
<1>1. LimitsInit => LimitsTypes /\ SlotsInd
  BY TypesStart, SlotsStart
<1>2. (LimitsTypes /\ SlotsInd) /\ [LimitsNext]_limitVars => (LimitsTypes /\ SlotsInd)'
  BY TypesStep, SlotsStep
<1>3. SlotsInd => SlotsExact
  BY DEF SlotsInd
<1> QED BY <1>1, <1>2, <1>3, PTL DEF LimitsSpec
-----------------------------------------------------------------------------
(***************************************************************************)
(* The daily budget.                                                       *)
(***************************************************************************)
\* The relay starts with nothing spent.
LEMMA BudgetStart == LimitsInit => BudgetInd
<1> SUFFICES ASSUME LimitsInit PROVE BudgetInd
  OBVIOUS
<1>1. Today \in Nat /\ \A b : BudgetEntry(b, Today).bytes = 0
  BY TypesStart, DayNumber DEF LimitsTypes, LimitsInit, BudgetEntry, EmptyMap
<1>2. \A r \in Reqs : rq[r].day = 0
  BY DEF LimitsInit, IdleReq
<1> QED BY <1>1, <1>2 DEF BudgetInd, BudgetHeld, LimitsInit, EmptyMap, Get

\* A step that spends nothing keeps the budget, at the same instant or a later one.
LEMMA BudgetKept ==
    ASSUME LimitsTypes, BudgetInd, UNCHANGED <<budget, spent, straddled>>,
           now' \in Nat, Today <= Today', \A q \in Reqs : rq'[q].day <= Today'
    PROVE  BudgetInd'
<1>1. Today \in Nat /\ Today' \in Nat
  BY DayNumber, LimitsAssumption DEF Today, LimitsTypes
<1>2. ASSUME NEW b \in Buckets \ straddled'
      PROVE  Get(spent', <<b, Today'>>, 0) <= BudgetEntry(b, Today)'.bytes
  <2>1. CASE Today' = Today
    BY <2>1 DEF BudgetInd, BudgetEntry
  <2>2. CASE Today' # Today
    <3>1. <<b, Today'>> \notin DOMAIN spent
      BY <1>1, <2>2 DEF BudgetInd
    <3>2. BudgetEntry(b, Today').bytes \in Nat
      BY <1>1, EntryType
    <3> QED BY <3>1, <3>2 DEF Get, BudgetEntry
  <2> QED BY <2>1, <2>2
<1>3. \A k \in DOMAIN spent' : k[2] <= Today'
  BY <1>1 DEF BudgetInd, LimitsTypes
<1> QED BY <1>2, <1>3 DEF BudgetInd, BudgetHeld, BudgetEntry

\* One chunk, of today or of a day that is over.
LEMMA BudgetChunk ==
    ASSUME LimitsTypes, BudgetInd, NEW r \in Reqs, StreamChunk(r)
    PROVE  BudgetInd'
<1>1. PICK b \in Buckets, d \in Nat : b = rq[r].b /\ d = rq[r].day
  BY DEF StreamChunk, LimitsTypes, Handlers, Uploading
<1>2. /\ budget' = BudgetAfter(b, d) /\ now' = now
      /\ spent' = IF BudgetFits(b, d) THEN Put(spent, <<b, d>>, Get(spent, <<b, d>>, 0) + 1) ELSE spent
      /\ straddled' = IF d # Today THEN straddled \cup {b} ELSE straddled
  BY <1>1 DEF StreamChunk
<1>3. PICK t \in Nat : t = Today /\ t = Today'
  BY <1>2, DayNumber DEF Today, LimitsTypes
<1>4. d <= t /\ \A q \in Reqs : rq'[q].day <= t
  <2>1. \A q \in Reqs : rq'[q].day = rq[q].day
    BY DEF StreamChunk, LimitsTypes, Handlers
  <2> QED BY <1>1, <1>3, <2>1 DEF BudgetInd
<1>5. \A k \in DOMAIN spent' : k[2] <= t
  BY <1>1, <1>2, <1>3, <1>4 DEF BudgetInd, Put
<1>6. ASSUME NEW x \in Buckets, x # b
      PROVE  /\ BudgetEntry(x, t)'.bytes = BudgetEntry(x, t).bytes
             /\ Get(spent', <<x, t>>, 0) = Get(spent, <<x, t>>, 0)
  <2>1. Get(spent', <<x, t>>, 0) = Get(spent, <<x, t>>, 0)
    BY <1>2, <1>6 DEF Get, Put
  <2>2. /\ DOMAIN budget' \subseteq DOMAIN budget \cup {b}
        /\ \A y \in DOMAIN budget' : y # b => budget'[y] = budget[y]
        /\ \A y \in DOMAIN budget : budget[y].day >= d - 1 => y \in DOMAIN budget'
    BY <1>2, AfterFacts
  <2>3. BudgetEntry(x, t)'.bytes = BudgetEntry(x, t).bytes
    BY <1>4, <1>6, <2>2 DEF BudgetEntry
  <2> QED BY <2>1, <2>3
<1>7. ASSUME b \notin straddled'
      PROVE  /\ d = t
             /\ Get(spent', <<b, t>>, 0) <= BudgetEntry(b, t)'.bytes
             /\ Get(spent', <<b, t>>, 0) <= DailyBytes
  <2>1. d = t /\ b \notin straddled
    BY <1>2, <1>3, <1>7
  <2>2. Get(spent, <<b, t>>, 0) \in Nat /\ Get(spent, <<b, t>>, 0) <= BudgetEntry(b, t).bytes
    BY <1>1, <1>3, <2>1 DEF BudgetInd, LimitsTypes, Get
  <2>3. /\ BudgetEntry(b, t).bytes \in 0..DailyBytes
        /\ BudgetEntry(b, t)'.bytes = BudgetEntry(b, t).bytes + (IF BudgetFits(b, t) THEN 1 ELSE 0)
    <3>1. /\ b \in DOMAIN budget' /\ budget'[b].day = d
          /\ budget'[b].bytes = BudgetEntry(b, d).bytes + (IF BudgetFits(b, d) THEN 1 ELSE 0)
      BY <1>2, AfterFacts
    <3>2. BudgetEntry(b, t)' = budget'[b]
      BY <2>1, <3>1 DEF BudgetEntry
    <3> QED BY <2>1, <3>1, <3>2, EntryType
  <2>4. BudgetFits(b, t) => BudgetEntry(b, t).bytes + 1 <= DailyBytes
    BY DEF BudgetFits
  <2>5. Get(spent', <<b, t>>, 0) = Get(spent, <<b, t>>, 0) + (IF BudgetFits(b, t) THEN 1 ELSE 0)
    BY <1>2, <2>1, <2>2 DEF Get, Put
  <2> QED BY <2>1, <2>2, <2>3, <2>4, <2>5, LimitsAssumption
<1>8. \A x \in Buckets \ straddled' : Get(spent', <<x, t>>, 0) <= BudgetEntry(x, t)'.bytes
  <2>1. \A x \in Buckets \ straddled' : x \notin straddled
    BY <1>2
  <2>2. \A x \in Buckets \ straddled' : Get(spent, <<x, t>>, 0) <= BudgetEntry(x, t).bytes
    BY <1>3, <2>1 DEF BudgetInd
  <2> QED BY <1>6, <1>7, <2>2
<1>9. BudgetHeld'
  <2> SUFFICES ASSUME NEW k \in DOMAIN spent', k[1] \notin straddled'
               PROVE  spent'[k] <= DailyBytes
    BY DEF BudgetHeld
  <2>1. CASE k = <<b, d>>
    BY <1>7, <2>1 DEF Get
  <2>2. CASE k # <<b, d>>
    <3>1. k \in DOMAIN spent /\ spent'[k] = spent[k] /\ k[1] \notin straddled
      BY <1>2, <2>2 DEF Put
    <3> QED BY <3>1 DEF BudgetInd, BudgetHeld
  <2> QED BY <2>1, <2>2
<1>10. \A x \in Buckets \ straddled' : Get(spent', <<x, Today'>>, 0) <= BudgetEntry(x, Today)'.bytes
  BY <1>3, <1>8 DEF BudgetEntry
<1> QED BY <1>3, <1>4, <1>5, <1>9, <1>10 DEF BudgetInd, BudgetEntry
-----------------------------------------------------------------------------
(***************************************************************************)
(* The bytes attributed to a bucket.  A function w of lengths is counted   *)
(* by the columns 1..w[x]; when one length changes, so does the count.     *)
(***************************************************************************)
Columns(w) == UNION {{x} \X (1..w[x]) : x \in DOMAIN w}

LEMMA Column ==
    ASSUME NEW x, NEW n \in Nat
    PROVE  IsFiniteSet({x} \X (1..n)) /\ Cardinality({x} \X (1..n)) = n
<1> DEFINE S == {x}
           T == 1..n
<1>1. IsFiniteSet(S) /\ Cardinality(S) = 1
  BY FS_Singleton
<1>2. IsFiniteSet(T) /\ Cardinality(T) = n
  BY FS_Interval
<1> HIDE DEF S, T
<1>3. IsFiniteSet(S \X T) /\ Cardinality(S \X T) = Cardinality(S) * Cardinality(T)
  BY <1>1, <1>2, FS_Product, Zenon
<1>4. Cardinality(S \X T) = n
  BY <1>1, <1>2, <1>3
<1> QED BY <1>3, <1>4 DEF S, T

LEMMA AddColumn ==
    ASSUME NEW S, IsFiniteSet(S), NEW x, NEW n \in Nat, \A k \in 1..n : <<x, k>> \notin S
    PROVE  /\ IsFiniteSet(S \cup ({x} \X (1..n)))
           /\ Cardinality(S \cup ({x} \X (1..n))) = Cardinality(S) + n
<1> DEFINE C == {x} \X (1..n)
<1>1. S \cap C = {}
  OBVIOUS
<1>2. IsFiniteSet(C) /\ Cardinality(C) = n /\ Cardinality(S) \in Nat
  BY Column, FS_CardinalityType
<1> HIDE DEF C
<1>3. /\ IsFiniteSet(S \cup C)
      /\ Cardinality(S \cup C) = Cardinality(S) + Cardinality(C) - Cardinality(S \cap C)
  BY <1>2, FS_Union, Zenon
<1>4. Cardinality(S \cap C) = 0
  BY <1>1, FS_EmptySet
<1> QED BY <1>2, <1>3, <1>4 DEF C

\* A length that changes takes its column along.
LEMMA OneColumn ==
    ASSUME NEW D, NEW u \in [D -> Nat], NEW v \in [D -> Nat], NEW x \in D,
           \A y \in D : y # x => v[y] = u[y], IsFiniteSet(Columns(u))
    PROVE  /\ IsFiniteSet(Columns(v))
           /\ Cardinality(Columns(u)) \in Nat
           /\ Cardinality(Columns(v)) = Cardinality(Columns(u)) - u[x] + v[x]
<1> DEFINE W == UNION {{y} \X (1..u[y]) : y \in D \ {x}}
<1>1. W = UNION {{y} \X (1..v[y]) : y \in D \ {x}}
  OBVIOUS
<1>2. Columns(u) = W \cup ({x} \X (1..u[x]))
  BY DEF Columns
<1>3. Columns(v) = W \cup ({x} \X (1..v[x]))
  BY <1>1 DEF Columns
<1>4. \A k : <<x, k>> \notin W
  OBVIOUS
<1> HIDE DEF W
<1>5. IsFiniteSet(W)
  <2>1. W \in SUBSET Columns(u)
    BY <1>2
  <2> QED BY <2>1, FS_Subset
<1>6. u[x] \in Nat /\ v[x] \in Nat /\ Cardinality(W) \in Nat
  BY <1>5, FS_CardinalityType
<1>7. ASSUME NEW n \in Nat
      PROVE  /\ IsFiniteSet(W \cup ({x} \X (1..n)))
             /\ Cardinality(W \cup ({x} \X (1..n))) = Cardinality(W) + n
  BY <1>4, <1>5, AddColumn
<1>8. /\ Cardinality(Columns(u)) = Cardinality(W) + u[x]
      /\ IsFiniteSet(Columns(v)) /\ Cardinality(Columns(v)) = Cardinality(W) + v[x]
  BY <1>2, <1>3, <1>6, <1>7
<1> QED BY <1>6, <1>8

\* The lengths behind the two counts, of handlers q and of a table f of shares.
PendingLen(q, b, op) ==
    [r \in Reqs |-> IF q[r].op = op /\ q[r].b = b THEN q[r].len ELSE 0]
AttributedLen(f, b) ==
    [s \in ShareIds |-> IF s \in DOMAIN f /\ f[s].b = b THEN f[s].n ELSE 0]

LEMMA PendingColumns ==
    ASSUME NEW q \in [Reqs -> Handlers], NEW b, NEW op
    PROVE  /\ PendingLen(q, b, op) \in [Reqs -> Nat]
           /\ UNION {{r} \X (1..q[r].len) : r \in {p \in Reqs : q[p].op = op /\ q[p].b = b}}
                = Columns(PendingLen(q, b, op))
<1>1. PendingLen(q, b, op) \in [Reqs -> Nat]
  BY DEF PendingLen, Handlers
<1> DEFINE w == PendingLen(q, b, op)
           S == {p \in Reqs : q[p].op = op /\ q[p].b = b}
<1>2. \A r \in Reqs : w[r] = IF r \in S THEN q[r].len ELSE 0
  BY DEF PendingLen
<1>3. DOMAIN w = Reqs /\ S \subseteq Reqs
  BY <1>1
<1> HIDE DEF w, S
<1>4. UNION {{r} \X (1..q[r].len) : r \in S} = Columns(w)
  BY <1>2, <1>3 DEF Columns
<1> QED BY <1>1, <1>4 DEF w, S

LEMMA AttributedColumns ==
    ASSUME NEW f, \A s \in DOMAIN f : s \in ShareIds /\ f[s] \in [b : Buckets, n : Nat], NEW b
    PROVE  /\ AttributedLen(f, b) \in [ShareIds -> Nat]
           /\ UNION {{s} \X (1..f[s].n) : s \in {x \in DOMAIN f : f[x].b = b}}
                = Columns(AttributedLen(f, b))
<1>1. AttributedLen(f, b) \in [ShareIds -> Nat]
  BY DEF AttributedLen
<1> DEFINE w == AttributedLen(f, b)
           S == {x \in DOMAIN f : f[x].b = b}
<1>2. \A s \in ShareIds : w[s] = IF s \in S THEN f[s].n ELSE 0
  BY DEF AttributedLen
<1>3. DOMAIN w = ShareIds /\ S \subseteq ShareIds
  BY <1>1
<1> HIDE DEF w, S
<1>4. UNION {{s} \X (1..f[s].n) : s \in S} = Columns(w)
  BY <1>2, <1>3 DEF Columns
<1> QED BY <1>1, <1>4 DEF w, S

\* One handler moves.
LEMMA PendingMoves ==
    ASSUME LimitsTypes, LimitsTypes', NEW r \in Reqs, NEW b, NEW op,
           \A q \in Reqs : q # r => rq'[q] = rq[q], IsFiniteSet(PendingBytes(b, op))
    PROVE  /\ IsFiniteSet(PendingBytes(b, op)')
           /\ Pending(b, op) \in Nat
           /\ Pending(b, op)' = Pending(b, op)
                - (IF rq[r].op = op /\ rq[r].b = b THEN rq[r].len ELSE 0)
                + (IF rq'[r].op = op /\ rq'[r].b = b THEN rq'[r].len ELSE 0)
<1>1. PICK u \in [Reqs -> Nat], v \in [Reqs -> Nat] :
        u = PendingLen(rq, b, op) /\ v = PendingLen(rq', b, op)
  BY PendingColumns DEF LimitsTypes
<1>2. PendingBytes(b, op) = Columns(u) /\ PendingBytes(b, op)' = Columns(v)
  BY <1>1, PendingColumns DEF LimitsTypes, PendingBytes
<1>3. \A y \in Reqs : y # r => v[y] = u[y]
  BY <1>1 DEF PendingLen
<1>4. /\ u[r] = (IF rq[r].op = op /\ rq[r].b = b THEN rq[r].len ELSE 0)
      /\ v[r] = (IF rq'[r].op = op /\ rq'[r].b = b THEN rq'[r].len ELSE 0)
  BY <1>1 DEF PendingLen
<1>5. /\ IsFiniteSet(Columns(v)) /\ Cardinality(Columns(u)) \in Nat
      /\ Cardinality(Columns(v)) = Cardinality(Columns(u)) - u[r] + v[r]
  BY <1>2, <1>3, OneColumn
<1>6. Pending(b, op) = Cardinality(Columns(u)) /\ Pending(b, op)' = Cardinality(Columns(v))
  BY <1>2 DEF Pending
<1> QED BY <1>2, <1>4, <1>5, <1>6

\* The entry of one share changes.
LEMMA AttributedMoves ==
    ASSUME LimitsTypes, LimitsTypes', NEW s \in ShareIds, NEW b,
           \A x \in ShareIds : x # s => /\ x \in DOMAIN byShare' <=> x \in DOMAIN byShare
                                        /\ x \in DOMAIN byShare => byShare'[x] = byShare[x],
           IsFiniteSet(AttributedBytes(b))
    PROVE  /\ IsFiniteSet(AttributedBytes(b)')
           /\ Attributed(b) \in Nat
           /\ Attributed(b)' = Attributed(b)
                - (IF s \in DOMAIN byShare /\ byShare[s].b = b THEN byShare[s].n ELSE 0)
                + (IF s \in DOMAIN byShare' /\ byShare'[s].b = b THEN byShare'[s].n ELSE 0)
<1>1. PICK u \in [ShareIds -> Nat], v \in [ShareIds -> Nat] :
        u = AttributedLen(byShare, b) /\ v = AttributedLen(byShare', b)
  BY AttributedColumns DEF LimitsTypes
<1>2. AttributedBytes(b) = Columns(u) /\ AttributedBytes(b)' = Columns(v)
  BY <1>1, AttributedColumns DEF LimitsTypes, AttributedBytes
<1>3. \A y \in ShareIds : y # s => v[y] = u[y]
  BY <1>1 DEF AttributedLen
<1>4. /\ u[s] = (IF s \in DOMAIN byShare /\ byShare[s].b = b THEN byShare[s].n ELSE 0)
      /\ v[s] = (IF s \in DOMAIN byShare' /\ byShare'[s].b = b THEN byShare'[s].n ELSE 0)
  BY <1>1 DEF AttributedLen
<1>5. /\ IsFiniteSet(Columns(v)) /\ Cardinality(Columns(u)) \in Nat
      /\ Cardinality(Columns(v)) = Cardinality(Columns(u)) - u[s] + v[s]
  BY <1>2, <1>3, OneColumn
<1>6. Attributed(b) = Cardinality(Columns(u)) /\ Attributed(b)' = Cardinality(Columns(v))
  BY <1>2 DEF Attributed
<1> QED BY <1>2, <1>4, <1>5, <1>6

\* A relay without shares and without requests under way accounts for nothing.
LEMMA AccountedEmpty ==
    ASSUME totals = EmptyMap, byShare = EmptyMap,
           \A r \in Reqs : rq[r].op \notin {"attribute", "release"}
    PROVE  Accounted
<1>1. ASSUME NEW b \in Buckets
      PROVE  /\ \A op \in {"attribute", "release"} : PendingBytes(b, op) = {}
             /\ AttributedBytes(b) = {} /\ Get(totals, b, 0) = 0
  <2>1. \A op \in {"attribute", "release"} : {q \in Reqs : rq[q].op = op /\ rq[q].b = b} = {}
    OBVIOUS
  <2>2. \A op \in {"attribute", "release"} : PendingBytes(b, op) = {}
    BY <2>1 DEF PendingBytes
  <2>3. {x \in DOMAIN byShare : byShare[x].b = b} = {}
    BY DEF EmptyMap
  <2> QED BY <2>2, <2>3 DEF AttributedBytes, Get, EmptyMap
<1>2. IsFiniteSet({}) /\ Cardinality({}) = 0
  BY FS_EmptySet
<1> QED BY <1>1, <1>2 DEF Accounted, Pending, Attributed

\* A step of a request that is in neither of the two halves.
LEMMA AccountedKept ==
    ASSUME LimitsTypes, LimitsTypes', Accounted, NEW r \in Reqs,
           rq[r].op \notin {"attribute", "release"}, rq'[r].op \notin {"attribute", "release"},
           \A q \in Reqs : q # r => rq'[q] = rq[q], UNCHANGED <<totals, byShare>>
    PROVE  Accounted'
<1> SUFFICES ASSUME NEW b \in Buckets
             PROVE  /\ \A op \in {"attribute", "release"} : IsFiniteSet(PendingBytes(b, op)')
                    /\ IsFiniteSet(AttributedBytes(b)')
                    /\ Get(totals', b, 0) + Pending(b, "attribute")'
                         >= Attributed(b)' + Pending(b, "release")'
  BY DEF Accounted
<1>1. \A op \in {"attribute", "release"} :
        IsFiniteSet(PendingBytes(b, op)') /\ Pending(b, op)' = Pending(b, op)
  <2> TAKE op \in {"attribute", "release"}
  <2>1. IsFiniteSet(PendingBytes(b, op))
    BY DEF Accounted
  <2>2. /\ IsFiniteSet(PendingBytes(b, op)') /\ Pending(b, op) \in Nat
        /\ Pending(b, op)' = Pending(b, op) - 0 + 0
    BY <2>1, PendingMoves
  <2> QED BY <2>2
<1>2. AttributedBytes(b)' = AttributedBytes(b)
  BY DEF AttributedBytes
<1> QED BY <1>1, <1>2 DEF Accounted, Attributed

\* register(), first lock: the share is credited, the bucket will be.
LEMMA AccountedRegister ==
    ASSUME LimitsTypes, LimitsTypes', Accounted, NEW r \in Reqs, RegisterShare(r)
    PROVE  Accounted'
<1>1. PICK s \in ShareIds, n \in Nat, c \in Buckets :
        /\ s = rq[r].share /\ n = rq[r].len /\ rq[r].op = "stored"
        /\ c = Get(byShare, s, [b |-> rq[r].b, n |-> 0]).b
  <2>1. rq[r].op = "stored" /\ rq[r].share \in ShareIds /\ rq[r].len \in Nat /\ rq[r].b \in Buckets
    BY DEF RegisterShare, LimitsTypes, Handlers, Uploading
  <2>2. Get(byShare, rq[r].share, [b |-> rq[r].b, n |-> 0]).b \in Buckets
    BY <2>1 DEF Get, LimitsTypes
  <2> QED BY <2>1, <2>2
<1>2. /\ rq'[r].op = "attribute" /\ rq'[r].b = c /\ rq'[r].len = n
      /\ \A q \in Reqs : q # r => rq'[q] = rq[q]
      /\ totals' = totals
  BY <1>1 DEF RegisterShare, LimitsTypes, Handlers
<1>3. /\ s \in DOMAIN byShare' /\ byShare'[s].b = c
      /\ byShare'[s].n = n + (IF s \in DOMAIN byShare THEN byShare[s].n ELSE 0)
      /\ s \in DOMAIN byShare => byShare[s].b = c /\ byShare[s].n \in Nat
      /\ \A x \in ShareIds : x # s => /\ x \in DOMAIN byShare' <=> x \in DOMAIN byShare
                                      /\ x \in DOMAIN byShare => byShare'[x] = byShare[x]
  <2> DEFINE e == Get(byShare, s, [b |-> rq[r].b, n |-> 0])
  <2>1. byShare' = Put(byShare, s, [e EXCEPT !.n = @ + n])
    BY <1>1 DEF RegisterShare
  <2>2. /\ e \in [b : Buckets, n : Nat] /\ e.b = c
        /\ s \in DOMAIN byShare => byShare[s] = e
        /\ s \notin DOMAIN byShare => e.n = 0
    BY <1>1 DEF Get, LimitsTypes, RegisterShare, Uploading
  <2> HIDE DEF e
  <2>3. [e EXCEPT !.n = @ + n].b = c /\ [e EXCEPT !.n = @ + n].n = e.n + n
    BY <2>2
  <2>4. s \in DOMAIN byShare' /\ byShare'[s] = [e EXCEPT !.n = @ + n]
    BY <2>1 DEF Put
  <2>5. \A x \in ShareIds : x # s => /\ x \in DOMAIN byShare' <=> x \in DOMAIN byShare
                                     /\ x \in DOMAIN byShare => byShare'[x] = byShare[x]
    BY <2>1 DEF Put
  <2> QED BY <2>2, <2>3, <2>4, <2>5
<1> SUFFICES ASSUME NEW b \in Buckets
             PROVE  /\ \A op \in {"attribute", "release"} : IsFiniteSet(PendingBytes(b, op)')
                    /\ IsFiniteSet(AttributedBytes(b)')
                    /\ Get(totals', b, 0) + Pending(b, "attribute")'
                         >= Attributed(b)' + Pending(b, "release")'
  BY DEF Accounted
<1>4. /\ IsFiniteSet(PendingBytes(b, "attribute")) /\ IsFiniteSet(PendingBytes(b, "release"))
      /\ IsFiniteSet(AttributedBytes(b)) /\ Get(totals, b, 0) \in Nat
      /\ Get(totals, b, 0) + Pending(b, "attribute") >= Attributed(b) + Pending(b, "release")
  BY DEF Accounted, Get, LimitsTypes
<1>5. /\ IsFiniteSet(PendingBytes(b, "attribute")') /\ Pending(b, "attribute") \in Nat
      /\ Pending(b, "attribute")' = Pending(b, "attribute") - 0 + (IF c = b THEN n ELSE 0)
  BY <1>1, <1>2, <1>4, PendingMoves
<1>6. /\ IsFiniteSet(PendingBytes(b, "release")') /\ Pending(b, "release") \in Nat
      /\ Pending(b, "release")' = Pending(b, "release") - 0 + 0
  BY <1>1, <1>2, <1>4, PendingMoves
<1>7. /\ IsFiniteSet(AttributedBytes(b)') /\ Attributed(b) \in Nat
      /\ Attributed(b)' = Attributed(b)
           - (IF s \in DOMAIN byShare /\ byShare[s].b = b THEN byShare[s].n ELSE 0)
           + (IF s \in DOMAIN byShare' /\ byShare'[s].b = b THEN byShare'[s].n ELSE 0)
  BY <1>3, <1>4, AttributedMoves
<1>8. Attributed(b)' = Attributed(b) + (IF c = b THEN n ELSE 0)
  BY <1>3, <1>7
<1> QED BY <1>2, <1>4, <1>5, <1>6, <1>7, <1>8

\* register(), second lock: the bucket is credited.
LEMMA AccountedTotal ==
    ASSUME LimitsTypes, LimitsTypes', Accounted, NEW r \in Reqs, RegisterTotal(r) \/ ReleaseTotal(r)
    PROVE  Accounted'
<1>1. PICK c \in Buckets, n \in Nat, op \in {"attribute", "release"} :
        /\ c = rq[r].b /\ n = rq[r].len /\ op = rq[r].op
        /\ op = "attribute" => totals' = Put(totals, c, Get(totals, c, 0) + n)
        /\ op = "release" => totals' = IF Left(c, n) = 0 THEN Drop(totals, c) ELSE Put(totals, c, Left(c, n))
  BY DEF RegisterTotal, ReleaseTotal, LimitsTypes, Handlers, Uploading
<1>2. Goto(r, "done") /\ byShare' = byShare
  BY DEF RegisterTotal, ReleaseTotal
<1>3. rq'[r].op = "done" /\ \A q \in Reqs : q # r => rq'[q] = rq[q]
  BY <1>2, GotoFacts DEF Ops
<1> SUFFICES ASSUME NEW b \in Buckets
             PROVE  /\ \A p \in {"attribute", "release"} : IsFiniteSet(PendingBytes(b, p)')
                    /\ IsFiniteSet(AttributedBytes(b)')
                    /\ Get(totals', b, 0) + Pending(b, "attribute")'
                         >= Attributed(b)' + Pending(b, "release")'
  BY DEF Accounted
<1>4. /\ IsFiniteSet(PendingBytes(b, "attribute")) /\ IsFiniteSet(PendingBytes(b, "release"))
      /\ IsFiniteSet(AttributedBytes(b)) /\ Get(totals, b, 0) \in Nat
      /\ Get(totals, b, 0) + Pending(b, "attribute") >= Attributed(b) + Pending(b, "release")
  BY DEF Accounted, Get, LimitsTypes
<1>5. /\ IsFiniteSet(PendingBytes(b, "attribute")') /\ Pending(b, "attribute") \in Nat
      /\ Pending(b, "attribute")' = Pending(b, "attribute")
           - (IF op = "attribute" /\ c = b THEN n ELSE 0) + 0
  BY <1>1, <1>3, <1>4, PendingMoves
<1>6. /\ IsFiniteSet(PendingBytes(b, "release")') /\ Pending(b, "release") \in Nat
      /\ Pending(b, "release")' = Pending(b, "release")
           - (IF op = "release" /\ c = b THEN n ELSE 0) + 0
  BY <1>1, <1>3, <1>4, PendingMoves
<1>7. AttributedBytes(b)' = AttributedBytes(b) /\ Attributed(b)' = Attributed(b) /\ Attributed(b) \in Nat
  BY <1>2, <1>4, FS_CardinalityType DEF AttributedBytes, Attributed
<1>8. CASE op = "attribute"
  <2>1. Get(totals', b, 0) = Get(totals, b, 0) + (IF c = b THEN n ELSE 0)
    BY <1>1, <1>4, <1>8 DEF Get, Put
  <2> QED BY <1>4, <1>5, <1>6, <1>7, <1>8, <2>1
<1>9. CASE op = "release"
  <2>1. Get(totals', b, 0) = IF c = b THEN Left(b, n) ELSE Get(totals, b, 0)
    BY <1>1, <1>9 DEF Get, Put, Drop
  <2>2. Left(b, n) >= Get(totals, b, 0) - n /\ Left(b, n) \in Nat
        /\ (Left(b, n) = 0 \/ Left(b, n) = Get(totals, b, 0) - n)
    BY <1>4 DEF Left, SatSub
  <2> QED BY <1>4, <1>5, <1>6, <1>7, <1>9, <2>1, <2>2
<1> QED BY <1>8, <1>9

\* release(), first lock: the share is gone, its bytes are still in the total.
LEMMA AccountedRelease ==
    ASSUME LimitsTypes, LimitsTypes', Accounted, NEW r \in Reqs, NEW s \in ShareIds,
           ReleaseShare(r, s)
    PROVE  Accounted'
<1>1. PICK c \in Buckets, n \in Nat : c = byShare[s].b /\ n = byShare[s].n /\ s \in DOMAIN byShare
  BY DEF ReleaseShare, LimitsTypes
<1>2. Begin(r, "release", c, s, n, 0) /\ byShare' = Drop(byShare, s) /\ totals' = totals
  BY <1>1 DEF ReleaseShare
<1>3. /\ rq[r].op = "idle" /\ rq'[r].op = "release" /\ rq'[r].b = c /\ rq'[r].len = n
      /\ \A q \in Reqs : q # r => rq'[q] = rq[q]
  BY <1>2, BeginFacts
<1>4. /\ s \notin DOMAIN byShare'
      /\ \A x \in ShareIds : x # s => /\ x \in DOMAIN byShare' <=> x \in DOMAIN byShare
                                      /\ x \in DOMAIN byShare => byShare'[x] = byShare[x]
  BY <1>2 DEF Drop
<1> SUFFICES ASSUME NEW b \in Buckets
             PROVE  /\ \A op \in {"attribute", "release"} : IsFiniteSet(PendingBytes(b, op)')
                    /\ IsFiniteSet(AttributedBytes(b)')
                    /\ Get(totals', b, 0) + Pending(b, "attribute")'
                         >= Attributed(b)' + Pending(b, "release")'
  BY DEF Accounted
<1>5. /\ IsFiniteSet(PendingBytes(b, "attribute")) /\ IsFiniteSet(PendingBytes(b, "release"))
      /\ IsFiniteSet(AttributedBytes(b)) /\ Get(totals, b, 0) \in Nat
      /\ Get(totals, b, 0) + Pending(b, "attribute") >= Attributed(b) + Pending(b, "release")
  BY DEF Accounted, Get, LimitsTypes
<1>6. /\ IsFiniteSet(PendingBytes(b, "attribute")') /\ Pending(b, "attribute") \in Nat
      /\ Pending(b, "attribute")' = Pending(b, "attribute") - 0 + 0
  BY <1>3, <1>5, PendingMoves
<1>7. /\ IsFiniteSet(PendingBytes(b, "release")') /\ Pending(b, "release") \in Nat
      /\ Pending(b, "release")' = Pending(b, "release") - 0 + (IF c = b THEN n ELSE 0)
  BY <1>3, <1>5, PendingMoves
<1>8. /\ IsFiniteSet(AttributedBytes(b)') /\ Attributed(b) \in Nat
      /\ Attributed(b)' = Attributed(b) - (IF c = b THEN n ELSE 0) + 0
  BY <1>1, <1>4, <1>5, AttributedMoves
<1> QED BY <1>2, <1>5, <1>6, <1>7, <1>8
-----------------------------------------------------------------------------
(***************************************************************************)
(* The storage cap.                                                        *)
(***************************************************************************)
\* A step that begins no upload and no release, and adds nothing to a total.
LEMMA MeasuredKept ==
    ASSUME LimitsTypes, LimitsTypes', Measured,
           \A q \in Reqs : Uploading(q)' => /\ Uploading(q) /\ rq'[q].b = rq[q].b
                                            /\ rq'[q].share = rq[q].share /\ rq'[q].len = rq[q].len,
           \A q \in Reqs : rq'[q].op = "release" => rq[q].op = "release" /\ rq'[q].b = rq[q].b,
           UNCHANGED <<byShare, unmeasured>>,
           \A b \in DOMAIN totals' : b \in DOMAIN totals /\ totals'[b] <= totals[b]
    PROVE  Measured'
<1>1. \A q, r \in Reqs :
         q # r /\ Uploading(q)' /\ (Uploading(r)' \/ rq'[r].op = "release") =>
           /\ rq'[q].b = rq'[r].b => rq'[q].b \in unmeasured'
           /\ Uploading(r)' /\ rq'[q].share = rq'[r].share => {rq'[q].b, rq'[r].b} \subseteq unmeasured'
  BY DEF Measured
<1>2. \A q \in Reqs :
         Uploading(q)' /\ rq'[q].share \in DOMAIN byShare' /\ byShare'[rq'[q].share].b # rq'[q].b =>
           {rq'[q].b, byShare'[rq'[q].share].b} \subseteq unmeasured'
  BY DEF Measured
<1>3. \A b : Get(totals', b, 0) <= Get(totals, b, 0) /\ Get(totals', b, 0) \in Nat
             /\ Get(totals, b, 0) \in Nat
  BY DEF Get, LimitsTypes
<1>4. \A q \in Reqs :
         Uploading(q)' /\ rq'[q].b \notin unmeasured' =>
           Get(totals', rq'[q].b, 0) + rq'[q].len <= StorageCap
  <2> TAKE q \in Reqs
  <2> HAVE Uploading(q)' /\ rq'[q].b \notin unmeasured'
  <2>1. Get(totals, rq[q].b, 0) + rq[q].len <= StorageCap
    BY DEF Measured
  <2>2. rq[q].len \in Nat
    BY DEF LimitsTypes, Handlers
  <2> QED BY <1>3, <2>1, <2>2, LimitsAssumption
<1>5. StorageCapHeld'
  <2> SUFFICES ASSUME NEW b \in DOMAIN totals', b \notin unmeasured' PROVE totals'[b] <= StorageCap
    BY DEF StorageCapHeld
  <2>1. b \in DOMAIN totals /\ totals'[b] <= totals[b] /\ totals[b] <= StorageCap
        /\ totals[b] \in Nat /\ totals'[b] \in Nat
    BY DEF Measured, StorageCapHeld, LimitsTypes
  <2> QED BY <2>1, LimitsAssumption
<1> QED BY <1>1, <1>2, <1>4, <1>5 DEF Measured, Uploading

\* would_accept(): an upload that declares its length and meets nobody has room.
LEMMA MeasuredUpload ==
    ASSUME LimitsTypes, LimitsTypes', Measured, NEW r \in Reqs, NEW b \in Buckets,
           NEW s \in ShareIds, NEW n \in Sizes, NEW declared \in BOOLEAN,
           BeginUpload(r, b, s, n, declared)
    PROVE  Measured'
<1>1. /\ Begin(r, "stream", b, s, n, Today) /\ UNCHANGED <<totals, byShare>>
      /\ declared => WouldAccept(b, n)
      /\ unmeasured \subseteq unmeasured' /\ (~declared => b \in unmeasured')
      /\ Contended(b, s) =>
           /\ b \in unmeasured'
           /\ s \in DOMAIN byShare => byShare[s].b \in unmeasured'
           /\ \A q \in Reqs : rq[q].share = s => rq[q].b \in unmeasured'
  BY DEF BeginUpload, maps
<1>2. /\ rq[r].op = "idle" /\ rq'[r].op = "stream" /\ rq'[r].b = b /\ rq'[r].share = s
      /\ rq'[r].len = n /\ \A q \in Reqs : q # r => rq'[q] = rq[q]
  BY <1>1, BeginFacts
<1>3. ASSUME NEW q \in Reqs, NEW p \in Reqs, q # p, Uploading(q)',
             Uploading(p)' \/ rq'[p].op = "release"
      PROVE  /\ rq'[q].b = rq'[p].b => rq'[q].b \in unmeasured'
             /\ Uploading(p)' /\ rq'[q].share = rq'[p].share => {rq'[q].b, rq'[p].b} \subseteq unmeasured'
  <2>1. CASE q # r /\ p # r
    <3>1. Uploading(q) /\ (Uploading(p) <=> Uploading(p)') /\ rq'[q] = rq[q] /\ rq'[p] = rq[p]
      BY <1>2, <1>3, <2>1 DEF Uploading
    <3> QED BY <1>1, <1>3, <3>1 DEF Measured
  <2>2. CASE q = r \/ p = r
    <3>1. PICK o \in Reqs : o # r /\ {q, p} = {r, o} /\ rq'[o] = rq[o]
      BY <1>2, <1>3, <2>2
    <3>2. Uploading(o) \/ rq[o].op = "release"
      BY <1>3, <3>1 DEF Uploading
    <3>3. rq[o].b = b \/ rq[o].share = s => Contended(b, s)
      BY <3>2 DEF Contended
    <3> QED BY <1>1, <1>2, <3>1, <3>3
  <2> QED BY <2>1, <2>2
<1>4. ASSUME NEW q \in Reqs, Uploading(q)', rq'[q].share \in DOMAIN byShare',
             byShare'[rq'[q].share].b # rq'[q].b
      PROVE  {rq'[q].b, byShare'[rq'[q].share].b} \subseteq unmeasured'
  <2>1. CASE q = r
    BY <1>1, <1>2, <1>4, <2>1 DEF Contended
  <2>2. CASE q # r
    BY <1>1, <1>2, <1>4, <2>2 DEF Measured, Uploading
  <2> QED BY <2>1, <2>2
<1>5. ASSUME NEW q \in Reqs, Uploading(q)', rq'[q].b \notin unmeasured'
      PROVE  Get(totals', rq'[q].b, 0) + rq'[q].len <= StorageCap
  <2>1. CASE q = r
    BY <1>1, <1>2, <1>5, <2>1 DEF WouldAccept
  <2>2. CASE q # r
    BY <1>1, <1>2, <1>5, <2>2 DEF Measured, Uploading
  <2> QED BY <2>1, <2>2
<1>6. StorageCapHeld'
  BY <1>1 DEF Measured, StorageCapHeld
<1> QED BY <1>3, <1>4, <1>5, <1>6 DEF Measured, Uploading

\* register(), first lock: the bucket changes only when both are out of measure.
LEMMA MeasuredRegister ==
    ASSUME LimitsTypes, LimitsTypes', Measured, NEW r \in Reqs, RegisterShare(r)
    PROVE  Measured'
<1>1. PICK s \in ShareIds, c \in Buckets :
        /\ s = rq[r].share /\ rq[r].op = "stored"
        /\ c = Get(byShare, s, [b |-> rq[r].b, n |-> 0]).b
  <2>1. rq[r].op = "stored" /\ rq[r].share \in ShareIds /\ rq[r].b \in Buckets
    BY DEF RegisterShare, LimitsTypes, Uploading
  <2>2. Get(byShare, rq[r].share, [b |-> rq[r].b, n |-> 0]).b \in Buckets
    BY <2>1 DEF Get, LimitsTypes
  <2> QED BY <2>1, <2>2
<1>2. /\ rq'[r].op = "attribute" /\ rq'[r].b = c /\ rq'[r].len = rq[r].len /\ rq'[r].share = s
      /\ \A q \in Reqs : q # r => rq'[q] = rq[q]
      /\ UNCHANGED <<totals, unmeasured>>
  BY <1>1 DEF RegisterShare, LimitsTypes, Handlers, past, uploadPast
<1>3. /\ s \in DOMAIN byShare' /\ byShare'[s].b = c
      /\ \A x : x # s => /\ x \in DOMAIN byShare' <=> x \in DOMAIN byShare
                         /\ x \in DOMAIN byShare => byShare'[x] = byShare[x]
  <2> DEFINE e == Get(byShare, s, [b |-> rq[r].b, n |-> 0])
  <2>1. byShare' = Put(byShare, s, [e EXCEPT !.n = @ + rq[r].len])
    BY <1>1 DEF RegisterShare
  <2>2. e \in [b : Buckets, n : Nat] /\ e.b = c
    BY <1>1 DEF Get, LimitsTypes, RegisterShare, Uploading
  <2> HIDE DEF e
  <2>3. [e EXCEPT !.n = @ + rq[r].len].b = c
    BY <2>2
  <2> QED BY <2>1, <2>3 DEF Put
<1>4. /\ Uploading(r) /\ Uploading(r)'
      /\ c # rq[r].b => {c, rq[r].b} \subseteq unmeasured
  BY <1>1, <1>2 DEF Measured, Uploading, Get
<1>5. \A q \in Reqs : q # r => (Uploading(q)' <=> Uploading(q))
  BY <1>2 DEF Uploading
<1>6. ASSUME NEW q \in Reqs, NEW p \in Reqs, q # p, Uploading(q)',
             Uploading(p)' \/ rq'[p].op = "release"
      PROVE  /\ rq'[q].b = rq'[p].b => rq'[q].b \in unmeasured'
             /\ Uploading(p)' /\ rq'[q].share = rq'[p].share => {rq'[q].b, rq'[p].b} \subseteq unmeasured'
  <2>1. /\ Uploading(q) /\ (Uploading(p) \/ rq[p].op = "release") /\ (Uploading(p)' => Uploading(p))
        /\ rq'[q].share = rq[q].share /\ rq'[p].share = rq[p].share
    BY <1>1, <1>2, <1>4, <1>5, <1>6
  <2>2. /\ rq[q].b = rq[p].b => rq[q].b \in unmeasured
        /\ Uploading(p) /\ rq[q].share = rq[p].share => {rq[q].b, rq[p].b} \subseteq unmeasured
    BY <1>6, <2>1 DEF Measured
  <2>3. \A x \in {q, p} : rq'[x].b = rq[x].b \/ {rq'[x].b, rq[x].b} \subseteq unmeasured
    BY <1>2, <1>4
  <2> QED BY <1>2, <2>1, <2>2, <2>3
<1>7. ASSUME NEW q \in Reqs, Uploading(q)', rq'[q].share \in DOMAIN byShare',
             byShare'[rq'[q].share].b # rq'[q].b
      PROVE  {rq'[q].b, byShare'[rq'[q].share].b} \subseteq unmeasured'
  <2>1. q # r
    BY <1>2, <1>3, <1>7
  <2>2. Uploading(q) /\ rq'[q] = rq[q]
    BY <1>2, <1>5, <1>7, <2>1
  <2>3. CASE rq[q].share = s
    <3>1. {rq[q].b, rq[r].b} \subseteq unmeasured
      BY <1>1, <1>4, <2>1, <2>2, <2>3 DEF Measured
    <3> QED BY <1>2, <1>3, <1>4, <2>2, <2>3, <3>1
  <2>4. CASE rq[q].share # s
    BY <1>2, <1>3, <1>7, <2>2, <2>4 DEF Measured
  <2> QED BY <2>3, <2>4
<1>8. ASSUME NEW q \in Reqs, Uploading(q)', rq'[q].b \notin unmeasured'
      PROVE  Get(totals', rq'[q].b, 0) + rq'[q].len <= StorageCap
  <2>1. Uploading(q) /\ rq'[q].b = rq[q].b /\ rq'[q].len = rq[q].len
    BY <1>2, <1>4, <1>5, <1>8
  <2> QED BY <1>2, <1>8, <2>1 DEF Measured
<1>9. StorageCapHeld'
  BY <1>2 DEF Measured, StorageCapHeld
<1> QED BY <1>6, <1>7, <1>8, <1>9 DEF Measured, Uploading

\* register(), second lock: the only upload of its bucket takes the room it found.
LEMMA MeasuredTotal ==
    ASSUME LimitsTypes, LimitsTypes', Measured, NEW r \in Reqs, RegisterTotal(r)
    PROVE  Measured'
<1>1. PICK c \in Buckets, n \in Nat : /\ c = rq[r].b /\ n = rq[r].len /\ rq[r].op = "attribute"
                          /\ totals' = Put(totals, c, Get(totals, c, 0) + n)
  BY DEF RegisterTotal, LimitsTypes, Handlers, Uploading
<1>2. Goto(r, "done") /\ UNCHANGED <<byShare, unmeasured>>
  BY DEF RegisterTotal, past, uploadPast
<1>3. rq'[r].op = "done" /\ \A q \in Reqs : q # r => rq'[q] = rq[q]
  BY <1>2, GotoFacts DEF Ops
<1>4. Uploading(r) /\ ~Uploading(r)' /\ \A q \in Reqs : q # r => (Uploading(q)' <=> Uploading(q))
  BY <1>1, <1>3 DEF Uploading
<1>5. \A q, p \in Reqs :
         q # p /\ Uploading(q)' /\ (Uploading(p)' \/ rq'[p].op = "release") =>
           /\ rq'[q].b = rq'[p].b => rq'[q].b \in unmeasured'
           /\ Uploading(p)' /\ rq'[q].share = rq'[p].share => {rq'[q].b, rq'[p].b} \subseteq unmeasured'
  BY <1>2, <1>3, <1>4 DEF Measured
<1>6. \A q \in Reqs :
         Uploading(q)' /\ rq'[q].share \in DOMAIN byShare' /\ byShare'[rq'[q].share].b # rq'[q].b =>
           {rq'[q].b, byShare'[rq'[q].share].b} \subseteq unmeasured'
  BY <1>2, <1>3, <1>4 DEF Measured
<1>7. ASSUME NEW q \in Reqs, Uploading(q)', rq'[q].b \notin unmeasured'
      PROVE  Get(totals', rq'[q].b, 0) + rq'[q].len <= StorageCap
  <2>1. q # r /\ Uploading(q) /\ rq'[q] = rq[q] /\ rq[q].b # c
    BY <1>1, <1>2, <1>3, <1>4, <1>7 DEF Measured
  <2>2. Get(totals', rq[q].b, 0) = Get(totals, rq[q].b, 0)
    BY <1>1, <2>1 DEF Get, Put
  <2> QED BY <1>2, <1>7, <2>1, <2>2 DEF Measured
<1>8. StorageCapHeld'
  <2> SUFFICES ASSUME NEW b \in DOMAIN totals', b \notin unmeasured' PROVE totals'[b] <= StorageCap
    BY DEF StorageCapHeld
  <2>1. CASE b = c
    BY <1>1, <1>2, <1>4, <2>1 DEF Measured, Put
  <2>2. CASE b # c
    BY <1>1, <1>2, <2>2 DEF Measured, StorageCapHeld, Put
  <2> QED BY <2>1, <2>2
<1> QED BY <1>5, <1>6, <1>7, <1>8 DEF Measured, Uploading

\* release(), first lock.
LEMMA MeasuredRelease ==
    ASSUME LimitsTypes, LimitsTypes', Measured, NEW r \in Reqs, NEW s \in ShareIds,
           ReleaseShare(r, s)
    PROVE  Measured'
<1>1. PICK c : /\ c = byShare[s].b /\ Begin(r, "release", c, s, byShare[s].n, 0)
               /\ byShare' = Drop(byShare, s) /\ totals' = totals
               /\ unmeasured \subseteq unmeasured' /\ (Contended(c, s) => c \in unmeasured')
  BY DEF ReleaseShare
<1>2. /\ rq[r].op = "idle" /\ rq'[r].op = "release" /\ rq'[r].b = c
      /\ \A q \in Reqs : q # r => rq'[q] = rq[q]
  BY <1>1, BeginFacts
<1>3. ~Uploading(r)' /\ \A q \in Reqs : q # r => (Uploading(q)' <=> Uploading(q))
  BY <1>2 DEF Uploading
<1>4. ASSUME NEW q \in Reqs, NEW p \in Reqs, q # p, Uploading(q)',
             Uploading(p)' \/ rq'[p].op = "release"
      PROVE  /\ rq'[q].b = rq'[p].b => rq'[q].b \in unmeasured'
             /\ Uploading(p)' /\ rq'[q].share = rq'[p].share => {rq'[q].b, rq'[p].b} \subseteq unmeasured'
  <2>1. q # r /\ Uploading(q) /\ rq'[q] = rq[q]
    BY <1>2, <1>3, <1>4
  <2>2. CASE p = r
    BY <1>1, <1>2, <1>3, <2>1, <2>2 DEF Contended
  <2>3. CASE p # r
    BY <1>1, <1>2, <1>3, <1>4, <2>1, <2>3 DEF Measured
  <2> QED BY <2>2, <2>3
<1>5. \A q \in Reqs :
         Uploading(q)' /\ rq'[q].share \in DOMAIN byShare' /\ byShare'[rq'[q].share].b # rq'[q].b =>
           {rq'[q].b, byShare'[rq'[q].share].b} \subseteq unmeasured'
  BY <1>1, <1>2, <1>3 DEF Measured, Drop
<1>6. \A q \in Reqs : Uploading(q)' /\ rq'[q].b \notin unmeasured' =>
        Get(totals', rq'[q].b, 0) + rq'[q].len <= StorageCap
  BY <1>1, <1>2, <1>3 DEF Measured
<1>7. StorageCapHeld'
  BY <1>1 DEF Measured, StorageCapHeld
<1> QED BY <1>4, <1>5, <1>6, <1>7 DEF Measured, Uploading
-----------------------------------------------------------------------------
\* The relay starts with nothing stored.
LEMMA UploadsStart == LimitsInit => UploadsInd
<1> SUFFICES ASSUME LimitsInit PROVE UploadsInd
  OBVIOUS
<1>1. \A r \in Reqs : rq[r].op = "idle"
  BY DEF LimitsInit, IdleReq
<1>2. Accounted
  BY <1>1, AccountedEmpty DEF LimitsInit
<1>3. Measured
  BY <1>1 DEF Measured, Uploading, StorageCapHeld, LimitsInit, EmptyMap
<1> QED BY <1>2, <1>3, TypesStart, BudgetStart DEF UploadsInd

\* Every step keeps the three parts.
LEMMA UploadsStep == UploadsInd /\ [LimitsNext]_limitVars => UploadsInd'
<1> SUFFICES ASSUME UploadsInd, [LimitsNext]_limitVars PROVE UploadsInd'
  OBVIOUS
<1>t. LimitsTypes /\ LimitsTypes' /\ BudgetInd /\ Accounted /\ Measured /\ Today \in Nat
      /\ rq \in [Reqs -> Handlers]
  BY TypesStep, DayNumber DEF UploadsInd, LimitsTypes
\* The day stands still, and a request that begins is of today.
<1>b. ASSUME NEW r \in Reqs, now' = now, UNCHANGED <<budget, spent, straddled>>,
             rq'[r].day <= Today, \A q \in Reqs : q # r => rq'[q] = rq[q]
      PROVE  BudgetInd'
  <2>1. Today' = Today /\ now' \in Nat /\ Today <= Today'
    BY <1>t, <1>b DEF Today, LimitsTypes
  <2>2. \A q \in Reqs : rq'[q].day <= Today'
    BY <1>t, <1>b, <2>1 DEF BudgetInd
  <2> QED BY <1>t, <1>b, <2>1, <2>2, BudgetKept
\* A request that is no upload and no release, before or after.
<1>o. ASSUME NEW r \in Reqs, now' = now,
             UNCHANGED <<budget, totals, byShare, spent, straddled, unmeasured>>,
             rq'[r].day <= Today, \A q \in Reqs : q # r => rq'[q] = rq[q],
             rq[r].op \notin {"attribute", "release"},
             ~Uploading(r)' \/ (rq[r].op = "stream" /\ rq'[r].op \in {"stream", "stored"}
                                /\ rq'[r].b = rq[r].b /\ rq'[r].share = rq[r].share
                                /\ rq'[r].len = rq[r].len),
             rq'[r].op # "release"
      PROVE  UploadsInd'
  <2>1. Accounted'
    BY <1>t, <1>o, AccountedKept DEF Uploading
  <2>2. \A q \in Reqs : Uploading(q)' => /\ Uploading(q) /\ rq'[q].b = rq[q].b
                                         /\ rq'[q].share = rq[q].share /\ rq'[q].len = rq[q].len
    BY <1>o DEF Uploading
  <2>3. \A q \in Reqs : rq'[q].op = "release" => rq[q].op = "release" /\ rq'[q].b = rq[q].b
    BY <1>o
  <2>4. \A b \in DOMAIN totals' : b \in DOMAIN totals /\ totals'[b] <= totals[b]
    BY <1>t, <1>o DEF LimitsTypes
  <2>5. Measured'
    BY <1>t, <1>o, <2>2, <2>3, <2>4, MeasuredKept
  <2> QED BY <1>b, <1>o, <1>t, <2>1, <2>5 DEF UploadsInd
<1>1. ASSUME NEW r \in Reqs, NEW op \in {"day", "done", "slot"}, NEW b, NEW s, NEW n,
             Begin(r, op, b, s, n, 0),
             UNCHANGED <<now, budget, totals, byShare, spent, straddled, unmeasured>>
      PROVE  UploadsInd'
  <2>1. /\ rq[r].op = "idle" /\ rq'[r].op = op /\ rq'[r].day = 0
        /\ \A q \in Reqs : q # r => rq'[q] = rq[q]
    BY <1>t, <1>1, BeginFacts
  <2> QED BY <1>1, <1>o, <1>t, <2>1 DEF Uploading
<1>2. ASSUME NEW r \in Reqs, NEW op \in {"serving", "backoff", "done", "stored"}, Goto(r, op),
             rq[r].op \notin {"attribute", "release"}, op = "stored" => rq[r].op = "stream",
             UNCHANGED <<now, budget, totals, byShare, spent, straddled, unmeasured>>
      PROVE  UploadsInd'
  <2>1. /\ rq'[r].op = op /\ rq'[r].b = rq[r].b /\ rq'[r].share = rq[r].share
        /\ rq'[r].len = rq[r].len /\ rq'[r].day = rq[r].day
        /\ \A q \in Reqs : q # r => rq'[q] = rq[q]
    BY <1>t, <1>2, GotoFacts DEF Ops
  <2>2. rq'[r].day <= Today
    BY <1>t, <2>1 DEF BudgetInd
  <2> QED BY <1>2, <1>o, <2>1, <2>2 DEF Uploading
<1>3. ASSUME WindowNext PROVE UploadsInd'
  <2>1. ASSUME NEW r \in Reqs, NEW ip \in Addrs, JoinChannel(r, ip) \/ CreateHour(r, ip)
        PROVE  UploadsInd'
    <3>1. PICK op \in {"day", "done"} : Begin(r, op, IpBucket(ip), None, 0, 0)
      BY <2>1 DEF JoinChannel, CreateHour
    <3>2. UNCHANGED <<now, budget, totals, byShare, spent, straddled, unmeasured>>
      BY <2>1 DEF JoinChannel, CreateHour, past, uploadPast
    <3> QED BY <1>1, <3>1, <3>2
  <2>2. ASSUME NEW r \in Reqs, CreateDay(r) PROVE UploadsInd'
    BY <1>2, <2>2 DEF CreateDay, uploadPast
  <2> QED BY <1>3, <2>1, <2>2 DEF WindowNext
<1>4. ASSUME NEW r \in Reqs, NEW b \in Buckets, NEW s \in ShareIds, NEW n \in Sizes,
             NEW declared \in BOOLEAN, BeginUpload(r, b, s, n, declared)
      PROVE  UploadsInd'
  <2>1. /\ Begin(r, "stream", b, s, n, Today)
        /\ UNCHANGED <<now, budget, totals, byShare, spent, straddled>>
    BY <1>4 DEF BeginUpload, maps
  <2>2. /\ rq[r].op = "idle" /\ rq'[r].op = "stream" /\ rq'[r].day = Today
        /\ \A q \in Reqs : q # r => rq'[q] = rq[q]
    BY <1>t, <2>1, BeginFacts
  <2>3. Accounted'
    BY <1>t, <2>1, <2>2, AccountedKept
  <2>4. Measured'
    BY <1>t, <1>4, MeasuredUpload
  <2>5. BudgetInd'
    BY <1>b, <1>t, <2>1, <2>2
  <2> QED BY <1>t, <2>3, <2>4, <2>5 DEF UploadsInd
<1>5. ASSUME NEW r \in Reqs, StreamChunk(r) PROVE UploadsInd'
  <2>1. /\ rq[r].op = "stream" /\ rq'[r].op \in {"stream", "done"}
        /\ rq'[r].b = rq[r].b /\ rq'[r].share = rq[r].share /\ rq'[r].len = rq[r].len
        /\ \A q \in Reqs : q # r => rq'[q] = rq[q]
    BY <1>t, <1>5 DEF StreamChunk, Handlers
  <2>2. UNCHANGED <<totals, byShare, unmeasured>>
    BY <1>5 DEF StreamChunk
  <2>3. Accounted'
    BY <1>t, <2>1, <2>2, AccountedKept
  <2>4. \A q \in Reqs : Uploading(q)' => /\ Uploading(q) /\ rq'[q].b = rq[q].b
                                         /\ rq'[q].share = rq[q].share /\ rq'[q].len = rq[q].len
    BY <2>1 DEF Uploading
  <2>5. \A q \in Reqs : rq'[q].op = "release" => rq[q].op = "release" /\ rq'[q].b = rq[q].b
    BY <2>1
  <2>6. \A b \in DOMAIN totals' : b \in DOMAIN totals /\ totals'[b] <= totals[b]
    BY <1>t, <2>2 DEF LimitsTypes
  <2>7. Measured'
    BY <1>t, <2>2, <2>4, <2>5, <2>6, MeasuredKept
  <2> QED BY <1>5, <1>t, <2>3, <2>7, BudgetChunk DEF UploadsInd
<1>6. ASSUME NEW r \in Reqs, NEW ok \in BOOLEAN, StoreUpload(r, ok) PROVE UploadsInd'
  BY <1>2, <1>6 DEF StoreUpload, maps, past, uploadPast
<1>7. ASSUME NEW r \in Reqs, RegisterShare(r) PROVE UploadsInd'
  <2>1. /\ rq'[r].day = rq[r].day /\ \A q \in Reqs : q # r => rq'[q] = rq[q]
    BY <1>t, <1>7 DEF RegisterShare, Handlers
  <2>2. UNCHANGED <<now, budget, spent, straddled>>
    BY <1>7 DEF RegisterShare, past, uploadPast
  <2>3. rq'[r].day <= Today
    BY <1>t, <2>1 DEF BudgetInd
  <2>4. BudgetInd'
    BY <1>b, <2>1, <2>2, <2>3
  <2> QED BY <1>7, <1>t, <2>4, AccountedRegister, MeasuredRegister DEF UploadsInd
<1>8. ASSUME NEW r \in Reqs, RegisterTotal(r) \/ ReleaseTotal(r) PROVE UploadsInd'
  <2>1. Goto(r, "done") /\ UNCHANGED <<now, budget, byShare, spent, straddled, unmeasured>>
    BY <1>8 DEF RegisterTotal, ReleaseTotal, past, uploadPast
  <2>2. /\ rq'[r].op = "done" /\ rq'[r].day = rq[r].day /\ \A q \in Reqs : q # r => rq'[q] = rq[q]
    BY <1>t, <2>1, GotoFacts DEF Ops
  <2>3. BudgetInd'
    <3>1. rq'[r].day <= Today
      BY <1>t, <2>2 DEF BudgetInd
    <3> QED BY <1>b, <2>1, <2>2, <3>1
  <2>4. Accounted'
    BY <1>8, <1>t, AccountedTotal
  <2>5. CASE RegisterTotal(r)
    BY <1>t, <2>3, <2>4, <2>5, MeasuredTotal DEF UploadsInd
  <2>6. CASE ReleaseTotal(r)
    <3>1. \A q \in Reqs : Uploading(q)' => /\ Uploading(q) /\ rq'[q].b = rq[q].b
                                           /\ rq'[q].share = rq[q].share /\ rq'[q].len = rq[q].len
      BY <2>2 DEF Uploading
    <3>2. \A q \in Reqs : rq'[q].op = "release" => rq[q].op = "release" /\ rq'[q].b = rq[q].b
      BY <2>2
    <3>3. \A b \in DOMAIN totals' : b \in DOMAIN totals /\ totals'[b] <= totals[b]
      <4>1. PICK n \in Nat : n = rq[r].len
        BY <1>t DEF Handlers
      <4>2. totals' = IF Left(rq[r].b, n) = 0 THEN Drop(totals, rq[r].b)
                      ELSE Put(totals, rq[r].b, Left(rq[r].b, n))
        BY <2>6, <4>1 DEF ReleaseTotal
      <4>3. \A b \in DOMAIN totals : totals[b] \in Nat
        BY <1>t DEF LimitsTypes
      <4> QED BY <4>1, <4>2, <4>3 DEF Left, SatSub, Get, Put, Drop
    <3>4. Measured'
      BY <1>t, <2>1, <3>1, <3>2, <3>3, MeasuredKept
    <3> QED BY <1>t, <2>3, <2>4, <3>4 DEF UploadsInd
  <2> QED BY <1>8, <2>5, <2>6
<1>9. ASSUME NEW r \in Reqs, NEW s \in ShareIds, ReleaseShare(r, s) PROVE UploadsInd'
  <2>1. Begin(r, "release", byShare[s].b, s, byShare[s].n, 0)
        /\ UNCHANGED <<now, budget, spent, straddled>>
    BY <1>9 DEF ReleaseShare
  <2>2. rq'[r].day = 0 /\ \A q \in Reqs : q # r => rq'[q] = rq[q]
    BY <1>t, <2>1, BeginFacts
  <2>3. BudgetInd'
    BY <1>b, <1>t, <2>1, <2>2
  <2> QED BY <1>9, <1>t, <2>3, AccountedRelease, MeasuredRelease DEF UploadsInd
<1>10. ASSUME DownloadNext PROVE UploadsInd'
  <2>1. ASSUME NEW r \in Reqs, NEW s \in ShareIds, NEW n \in Sizes, BeginDownload(r, s, n)
        PROVE  UploadsInd'
    <3>1. PICK op \in {"slot", "done"} : Begin(r, op, <<>>, s, n, 0)
      BY <2>1 DEF BeginDownload
    <3>2. UNCHANGED <<now, budget, totals, byShare, spent, straddled, unmeasured>>
      BY <2>1 DEF BeginDownload, uploadPast
    <3> QED BY <1>1, <3>1, <3>2
  <2>2. ASSUME NEW r \in Reqs, AcquireSlot(r) \/ BackOff(r) \/ DropGuard(r) PROVE UploadsInd'
    BY <1>2, <2>2 DEF AcquireSlot, BackOff, DropGuard, past, uploadPast
  <2> QED BY <1>10, <2>1, <2>2 DEF DownloadNext
<1>11. CASE LimitsTick \/ UNCHANGED limitVars
  <2>1. /\ UNCHANGED <<rq, budget, totals, byShare, spent, straddled, unmeasured>>
        /\ now' \in {now, now + 1}
    BY <1>11 DEF LimitsTick, limitVars, maps, past, uploadPast
  <2>2. now' \in Nat /\ Today' \in Nat /\ Today <= Today'
    <3>1. PICK w \in Nat \ {0} : w = DayW
      BY LimitsAssumption
    <3>2. (now \div w) \in Nat /\ ((now + 1) \div w) \in Nat /\ now \div w <= (now + 1) \div w
      BY <1>t, DayGrows DEF LimitsTypes
    <3>3. Today = now \div w /\ (Today' = now \div w \/ Today' = (now + 1) \div w)
      BY <2>1, <3>1 DEF Today
    <3> QED BY <1>t, <2>1, <3>2, <3>3 DEF LimitsTypes
  <2>3. \A q \in Reqs : rq'[q].day <= Today'
    <3>1. \A q \in Reqs : rq[q].day \in Nat /\ rq[q].day <= Today
      BY <1>t DEF BudgetInd, Handlers
    <3> QED BY <1>t, <2>1, <2>2, <3>1
  <2>4. BudgetInd'
    BY <1>t, <2>1, <2>2, <2>3, BudgetKept
  <2>5. Accounted'
    <3>1. \A b, op : PendingBytes(b, op)' = PendingBytes(b, op)
      BY <2>1 DEF PendingBytes
    <3>2. \A b : AttributedBytes(b)' = AttributedBytes(b)
      BY <2>1 DEF AttributedBytes
    <3> QED BY <1>t, <2>1, <3>1, <3>2 DEF Accounted, Pending, Attributed
  <2>6. Measured'
    BY <1>t, <2>1 DEF Measured, Uploading, StorageCapHeld
  <2> QED BY <1>t, <2>4, <2>5, <2>6 DEF UploadsInd
<1>12. CASE LimitsRestart
  <2>1. /\ budget' = EmptyMap /\ totals' = EmptyMap /\ byShare' = EmptyMap /\ spent' = EmptyMap
        /\ now' = now
    BY <1>12 DEF LimitsRestart
  <2>2. \A q \in Reqs : rq'[q].op \in {"idle", "done"} /\ rq'[q].day <= Today
    BY <1>12, <1>t DEF LimitsRestart, IdleReq, BudgetInd
  <2>3. BudgetInd'
    <3>1. Today' = Today /\ \A b : BudgetEntry(b, Today)'.bytes = 0
      BY <2>1 DEF Today, BudgetEntry, EmptyMap
    <3> QED BY <2>1, <2>2, <3>1 DEF BudgetInd, BudgetHeld, EmptyMap, Get
  <2>4. Accounted'
    <3>1. ASSUME NEW b \in Buckets
          PROVE  /\ \A op \in {"attribute", "release"} : PendingBytes(b, op)' = {}
                 /\ AttributedBytes(b)' = {} /\ Get(totals', b, 0) = 0
      <4>1. \A op \in {"attribute", "release"} : {q \in Reqs : rq'[q].op = op /\ rq'[q].b = b} = {}
        BY <2>2
      <4>2. \A op \in {"attribute", "release"} : PendingBytes(b, op)' = {}
        BY <4>1 DEF PendingBytes
      <4>3. {x \in DOMAIN byShare' : byShare'[x].b = b} = {}
        BY <2>1 DEF EmptyMap
      <4> QED BY <2>1, <4>2, <4>3 DEF AttributedBytes, Get, EmptyMap
    <3>2. IsFiniteSet({}) /\ Cardinality({}) = 0
      BY FS_EmptySet
    <3> QED BY <3>1, <3>2 DEF Accounted, Pending, Attributed
  <2>5. Measured'
    BY <2>1, <2>2 DEF Measured, Uploading, StorageCapHeld, EmptyMap
  <2> QED BY <1>t, <2>3, <2>4, <2>5 DEF UploadsInd
<1> QED BY <1>3, <1>4, <1>5, <1>6, <1>7, <1>8, <1>9, <1>10, <1>11, <1>12
        DEF LimitsNext, UploadNext

\* Uploads stay within the daily budget, no attributed byte is forgotten by the
\* total of its bucket, and a bucket that declares its lengths and never races with
\* itself stays within the storage cap, whichever way the locks of concurrent
\* uploads and releases interleave (ByteBudgetTracker, ShareStoragePerIpTracker).
THEOREM UploadsHold == LimitsSpec => []UploadsInv
<1>1. UploadsInd => UploadsInv
  <2> SUFFICES ASSUME UploadsInd, NEW b \in Buckets
               PROVE  Get(totals, b, 0) + Pending(b, "attribute") >= Attributed(b)
    BY DEF UploadsInd, UploadsInv, BudgetInd, Measured, NeverUndercounts
  <2>1. /\ IsFiniteSet(PendingBytes(b, "attribute")) /\ IsFiniteSet(PendingBytes(b, "release"))
        /\ IsFiniteSet(AttributedBytes(b)) /\ Get(totals, b, 0) \in Nat
        /\ Get(totals, b, 0) + Pending(b, "attribute") >= Attributed(b) + Pending(b, "release")
    BY DEF UploadsInd, Accounted, Get, LimitsTypes
  <2>2. Pending(b, "attribute") \in Nat /\ Pending(b, "release") \in Nat /\ Attributed(b) \in Nat
    BY <2>1, FS_CardinalityType DEF Pending, Attributed
  <2> QED BY <2>1, <2>2
<1> QED BY <1>1, UploadsStart, UploadsStep, PTL DEF LimitsSpec
-----------------------------------------------------------------------------
(***************************************************************************)
(* The sliding windows.  A list of timestamps still holds every admitted   *)
(* event of the window that ends now, so that its length bounds them.      *)
(***************************************************************************)
Stamps(n) == [by : Reqs, at : 0..n]
Fresh(ts, w, n) == {e \in ts : e.at > n - w}
VecsFine(f, n) == \A b \in DOMAIN f : IsFiniteSet(f[b]) /\ f[b] \in SUBSET Stamps(n)
KeysFine(f) == IsFiniteSet(DOMAIN f) /\ Cardinality(DOMAIN f) <= MaxKeys
Bounded(H, n, w, max) == \A t \in 0..n : Cardinality({e \in H : InWindow(e, t, w)}) <= max

\* What is in the windows now is in the lists now.
CreatedFine(H, f, n, w, max) ==
    /\ IsFiniteSet(H) /\ H \in SUBSET [b : Buckets, stamp : Stamps(n)]
    /\ \A e \in H : e.stamp.at > n - w => e.stamp \in Get(f, e.b, {})
    /\ \A b \in Buckets : Bounded({e \in H : e.b = b}, n, w, max)
JoinedFine(H, f, n, q) ==
    /\ IsFiniteSet(H) /\ H \in SUBSET [ip : Addrs, stamp : Stamps(n)]
    /\ \A e \in H : e.stamp.at > n - JoinW => e.stamp \in Get(f, IpBucket(e.ip), {})
    /\ \A e \in H : q[e.stamp.by].op # "idle"
    /\ \A e, x \in H : e.stamp = x.stamp => e = x
    /\ \A ip \in Addrs : Bounded({e \in H : SameClient(e.ip, ip)}, n, JoinW, JoinMax)

\* An event joins those of its key when the list T of the window that ends now has room.
LEMMA WindowGrows ==
    ASSUME NEW n \in Nat, NEW w \in Nat, NEW max \in Nat, NEW H, IsFiniteSet(H),
           \A e \in H : e.stamp.at \in 0..n, Bounded(H, n, w, max),
           NEW T, IsFiniteSet(T), Cardinality(T) < max,
           \A e \in H : e.stamp.at > n - w => e.stamp \in T,
           \A e, y \in H : e.stamp = y.stamp => e = y,
           NEW x, x.stamp.at = n
    PROVE  Bounded(H \cup {x}, n, w, max)
<1> SUFFICES ASSUME NEW t \in 0..n
             PROVE  Cardinality({e \in H \cup {x} : InWindow(e, t, w)}) <= max
  BY DEF Bounded
<1>1. PICK W : W = {e \in H : InWindow(e, t, w)}
  OBVIOUS
<1>2. IsFiniteSet(W) /\ Cardinality(W) \in Nat
  <2>1. W \in SUBSET H
    BY <1>1
  <2> QED BY <2>1, FS_Subset, FS_CardinalityType
<1>3. PICK V : V = {e \in H \cup {x} : InWindow(e, t, w)}
  OBVIOUS
<1>4. CASE t # n
  <2>1. ~InWindow(x, t, w)
    BY <1>4 DEF InWindow
  <2>2. V = W
    BY <1>1, <1>3, <2>1
  <2> QED BY <1>1, <1>3, <2>2 DEF Bounded
<1>5. CASE t = n
  <2>1. PICK g : g = [e \in W |-> e.stamp]
    OBVIOUS
  <2>2. g \in [W -> T]
    BY <1>1, <1>5, <2>1 DEF InWindow
  <2>3. \A e, y \in W : g[e] = g[y] => e = y
    BY <1>1, <2>1
  <2>4. g \in Injection(W, T)
    BY <2>2, <2>3 DEF Injection, IsInjective
  <2>5. Cardinality(W) <= Cardinality(T) /\ Cardinality(T) \in Nat
    BY <2>4, FS_Injection, FS_CardinalityType
  <2>6. V \in SUBSET (W \cup {x})
    BY <1>1, <1>3
  <2>7. IsFiniteSet(W \cup {x}) /\ Cardinality(W \cup {x}) <= Cardinality(W) + 1
    <3>1. IsFiniteSet(W \cup {x})
          /\ Cardinality(W \cup {x}) = IF x \in W THEN Cardinality(W) ELSE Cardinality(W) + 1
      BY <1>2, FS_AddElement
    <3> QED BY <1>2, <3>1
  <2>8. Cardinality(V) <= Cardinality(W \cup {x}) /\ Cardinality(V) \in Nat /\ Cardinality(W \cup {x}) \in Nat
    BY <2>6, <2>7, FS_Subset, FS_CardinalityType
  <2>9. Cardinality(V) <= max
    BY <1>2, <2>5, <2>7, <2>8
  <2> QED BY <1>3, <2>9
<1> QED BY <1>4, <1>5

\* Time goes by.
LEMMA WindowLater ==
    ASSUME NEW n \in Nat, NEW w \in Nat, NEW max \in Nat, NEW H, IsFiniteSet(H),
           \A e \in H : e.stamp.at \in 0..n, Bounded(H, n, w, max)
    PROVE  Bounded(H, n + 1, w, max)
<1> SUFFICES ASSUME NEW t \in 0..(n + 1)
             PROVE  Cardinality({e \in H : InWindow(e, t, w)}) <= max
  BY DEF Bounded
<1>1. CASE t \in 0..n
  BY <1>1 DEF Bounded
<1>2. CASE t = n + 1
  <2>1. PICK W : W = {e \in H : InWindow(e, n, w)}
    OBVIOUS
  <2>2. PICK V : V = {e \in H : InWindow(e, t, w)}
    OBVIOUS
  <2>3. V \in SUBSET W /\ W \in SUBSET H
    BY <1>2, <2>1, <2>2 DEF InWindow
  <2>4. IsFiniteSet(W)
    BY <2>3, FS_Subset
  <2>5. Cardinality(V) <= Cardinality(W) /\ IsFiniteSet(V)
    BY <2>3, <2>4, FS_Subset
  <2>6. Cardinality(V) \in Nat /\ Cardinality(W) \in Nat
    BY <2>4, <2>5, FS_CardinalityType
  <2>7. Cardinality(W) <= max
    BY <2>1 DEF Bounded
  <2>8. Cardinality(V) <= max
    BY <2>5, <2>6, <2>7
  <2> QED BY <2>2, <2>8
<1>3. t \in 0..n \/ t = n + 1
  OBVIOUS
<1> QED BY <1>1, <1>2, <1>3

LEMMA BoundedNone ==
    ASSUME NEW n, NEW w, NEW max \in Nat
    PROVE  Bounded({}, n, w, max)
<1>1. \A t : {e \in {} : InWindow(e, t, w)} = {}
  OBVIOUS
<1>2. Cardinality({}) = 0
  BY FS_EmptySet
<1> QED BY <1>1, <1>2 DEF Bounded

\* retain() and push().
LEMMA ListGrows ==
    ASSUME NEW n \in Nat, NEW w \in Nat, NEW ts, IsFiniteSet(ts), ts \in SUBSET Stamps(n),
           NEW r \in Reqs, NEW new \in SUBSET {[by |-> r, at |-> n]}
    PROVE  IsFiniteSet(Fresh(ts, w, n) \cup new) /\ Fresh(ts, w, n) \cup new \in SUBSET Stamps(n)
<1>1. Fresh(ts, w, n) \in SUBSET ts
  BY DEF Fresh
<1>2. IsFiniteSet(Fresh(ts, w, n))
  BY <1>1, FS_Subset
<1>3. new = {} \/ new = {[by |-> r, at |-> n]}
  OBVIOUS
<1>4. IsFiniteSet(Fresh(ts, w, n) \cup new)
  <2>1. CASE new = {}
    <3>1. Fresh(ts, w, n) \cup new = Fresh(ts, w, n)
      BY <2>1
    <3> QED BY <1>2, <3>1
  <2>2. CASE new = {[by |-> r, at |-> n]}
    BY <1>2, <2>2, FS_AddElement
  <2> QED BY <1>3, <2>1, <2>2
<1>5. [by |-> r, at |-> n] \in Stamps(n)
  BY DEF Stamps
<1> QED BY <1>1, <1>3, <1>4, <1>5

\* A later clock only widens the types.
LEMMA StampsGrow ==
    ASSUME NEW n \in Nat
    PROVE  Stamps(n) \in SUBSET Stamps(n + 1)
BY DEF Stamps

\* SlidingWindowLimiterByKey::check_and_record(): the map stays bounded, the entries of the
\* other keys stay, and a key that is admitted and tracked had room.
LEMMA KeyedFine ==
    ASSUME now \in Nat, NEW f, VecsFine(f, now), NEW k, NEW r \in Reqs, NEW w \in Nat, NEW max
    PROVE  LET g == KeyedRecord(f, k, r, w, max)
           IN  /\ VecsFine(g, now)
               /\ KeysFine(f) => KeysFine(g)
               /\ DOMAIN f \in SUBSET DOMAIN g
               /\ \A x \in DOMAIN f : x # k => g[x] = f[x]
               /\ \A x \in DOMAIN f : Fresh(f[x], w, now) \in SUBSET g[x]
               /\ k \in DOMAIN g /\ KeyedAdmits(f, k, w, max) => Stamp(r) \in g[k]
<1>1. PICK new : new = IF KeyedAdmits(f, k, w, max) THEN {Stamp(r)} ELSE {}
  OBVIOUS
<1>2. new \in SUBSET {[by |-> r, at |-> now]}
  BY <1>1 DEF Stamp
<1>3. PICK ts : ts = Get(f, k, {})
  OBVIOUS
<1>4. IsFiniteSet(ts) /\ ts \in SUBSET Stamps(now)
  BY <1>3, FS_EmptySet DEF Get, VecsFine
<1>5. PICK v : v = Fresh(ts, w, now) \cup new
  OBVIOUS
<1>6. IsFiniteSet(v) /\ v \in SUBSET Stamps(now)
  BY <1>2, <1>4, <1>5, ListGrows
<1>7. PICK g : g = KeyedRecord(f, k, r, w, max)
  OBVIOUS
<1>8. g = f \/ g = Put(f, k, v)
  BY <1>1, <1>3, <1>5, <1>7 DEF KeyedRecord, Recent, Retain, Fresh
<1>9. Tracked(f, k) => g = Put(f, k, v)
  BY <1>1, <1>3, <1>5, <1>7 DEF KeyedRecord, Recent, Retain, Fresh
<1>10. ~Tracked(f, k) => g = f /\ k \notin DOMAIN f
  BY <1>7 DEF KeyedRecord, Tracked
<1>11. VecsFine(g, now)
  BY <1>6, <1>8 DEF VecsFine, Put
<1>12. DOMAIN f \in SUBSET DOMAIN g /\ \A x \in DOMAIN f : x # k => g[x] = f[x]
  BY <1>8 DEF Put
<1>13. ASSUME NEW x \in DOMAIN f PROVE Fresh(f[x], w, now) \in SUBSET g[x]
  <2>1. CASE x = k
    <3>1. Tracked(f, k) /\ g[k] = v /\ ts = f[k]
      BY <1>3, <1>9, <2>1 DEF Tracked, Put, Get
    <3> QED BY <1>5, <2>1, <3>1
  <2>2. CASE x # k
    BY <1>12, <2>2 DEF Fresh
  <2> QED BY <2>1, <2>2
<1>14. ASSUME k \in DOMAIN g, KeyedAdmits(f, k, w, max) PROVE Stamp(r) \in g[k]
  <2>1. g[k] = v
    BY <1>9, <1>10, <1>14 DEF Put
  <2> QED BY <1>1, <1>5, <1>14, <2>1
<1>15. ASSUME KeysFine(f) PROVE KeysFine(g)
  <2>1. CASE g = f
    BY <1>15, <2>1
  <2>2. CASE g = Put(f, k, v) /\ Tracked(f, k)
    <3>1. DOMAIN g = DOMAIN f \cup {k}
      BY <2>2 DEF Put
    <3>2. IsFiniteSet(DOMAIN g) /\ Cardinality(DOMAIN f) \in Nat
          /\ Cardinality(DOMAIN g) = IF k \in DOMAIN f THEN Cardinality(DOMAIN f) ELSE Cardinality(DOMAIN f) + 1
      BY <1>15, <3>1, FS_AddElement, FS_CardinalityType DEF KeysFine
    <3>3. k \in DOMAIN f \/ Cardinality(DOMAIN f) < MaxKeys
      BY <2>2 DEF Tracked
    <3>4. MaxKeys \in Nat
      BY LimitsAssumption
    <3> QED BY <1>15, <3>2, <3>3, <3>4 DEF KeysFine
  <2> QED BY <1>9, <1>10, <2>1, <2>2
<1> QED BY <1>7, <1>11, <1>12, <1>13, <1>14, <1>15

\* ShareCreationRateLimiter, under either lock.
LEMMA CreatedGrows ==
    ASSUME now \in Nat, NEW w \in Nat, NEW max \in Nat \ {0}, NEW f, VecsFine(f, now), NEW H, CreatedFine(H, f, now, w, max), NEW k \in Buckets,
           NEW r \in Reqs
    PROVE  LET g == KeyedRecord(f, k, r, w, max)
           IN  CreatedFine(IF KeyedAdmits(f, k, w, max) /\ k \in DOMAIN g
                             THEN H \cup {[b |-> k, stamp |-> Stamp(r)]} ELSE H, g, now, w, max)
<1>1. PICK g : g = KeyedRecord(f, k, r, w, max)
  OBVIOUS
<1>2. w \in Nat /\ max \in Nat \ {0}
  OBVIOUS
<1>3. /\ VecsFine(g, now) /\ DOMAIN f \in SUBSET DOMAIN g
      /\ \A x \in DOMAIN f : Fresh(f[x], w, now) \in SUBSET g[x]
      /\ k \in DOMAIN g /\ KeyedAdmits(f, k, w, max) => Stamp(r) \in g[k]
  BY <1>1, <1>2, KeyedFine
<1>4. /\ IsFiniteSet(H) /\ H \in SUBSET [b : Buckets, stamp : Stamps(now)]
      /\ \A e \in H : e.stamp.at > now - w => e.stamp \in Get(f, e.b, {})
      /\ \A b \in Buckets : Bounded({e \in H : e.b = b}, now, w, max)
  BY DEF CreatedFine
<1>5. \A e \in H : e.stamp.at > now - w => e.stamp \in Get(g, e.b, {})
  <2> SUFFICES ASSUME NEW e \in H, e.stamp.at > now - w PROVE e.stamp \in Get(g, e.b, {})
    OBVIOUS
  <2>1. e.b \in DOMAIN f /\ e.stamp \in f[e.b]
    BY <1>4 DEF Get
  <2>2. e.stamp \in Fresh(f[e.b], w, now)
    BY <2>1 DEF Fresh
  <2> QED BY <1>3, <2>1, <2>2 DEF Get
<1>6. CASE ~(KeyedAdmits(f, k, w, max) /\ k \in DOMAIN g)
  BY <1>1, <1>4, <1>5, <1>6 DEF CreatedFine
<1>7. CASE KeyedAdmits(f, k, w, max) /\ k \in DOMAIN g
  <2>1. PICK x : x = [b |-> k, stamp |-> Stamp(r)]
    OBVIOUS
  <2>2. x \in [b : Buckets, stamp : Stamps(now)] /\ x.b = k /\ x.stamp = Stamp(r) /\ x.stamp.at = now
    BY <2>1 DEF Stamp, Stamps
  <2>3. PICK G : G = H \cup {x}
    OBVIOUS
  <2>4. IsFiniteSet(G) /\ G \in SUBSET [b : Buckets, stamp : Stamps(now)]
    BY <1>4, <2>2, <2>3, FS_AddElement
  <2>5. \A e \in G : e.stamp.at > now - w => e.stamp \in Get(g, e.b, {})
    BY <1>3, <1>5, <1>7, <2>2, <2>3 DEF Get
  <2>6. ASSUME NEW b \in Buckets PROVE Bounded({e \in G : e.b = b}, now, w, max)
    <3>1. PICK B : B = {e \in H : e.b = b}
      OBVIOUS
    <3>2. Bounded(B, now, w, max) /\ B \in SUBSET H
      BY <1>4, <3>1
    <3>3. CASE b # k
      <4>1. {e \in G : e.b = b} = B
        BY <2>2, <2>3, <3>1, <3>3
      <4> QED BY <3>2, <4>1
    <3>4. CASE b = k
      <4>1. {e \in G : e.b = b} = B \cup {x}
        BY <2>2, <2>3, <3>1, <3>4
      <4>2. IsFiniteSet(B) /\ \A e \in B : e.stamp.at \in 0..now
        BY <1>4, <3>2, FS_Subset DEF Stamps
      <4>3. PICK T : T = Fresh(Get(f, k, {}), w, now)
        OBVIOUS
      <4>4. IsFiniteSet(T) /\ Cardinality(T) < max
        <5>1. CASE k \in DOMAIN f
          <6>1. T = Retain(f[k], w)
            BY <4>3, <5>1 DEF Fresh, Retain, Get
          <6>2. IsFiniteSet(f[k]) /\ T \in SUBSET f[k]
            BY <5>1, <6>1 DEF VecsFine, Retain
          <6> QED BY <1>7, <5>1, <6>1, <6>2, FS_Subset DEF KeyedAdmits
        <5>2. CASE k \notin DOMAIN f
          <6>1. T = {}
            BY <4>3, <5>2 DEF Fresh, Get
          <6> QED BY <1>2, <6>1, FS_EmptySet
        <5> QED BY <5>1, <5>2
      <4>5. \A e \in B : e.stamp.at > now - w => e.stamp \in T
        BY <1>4, <3>1, <3>4, <4>3 DEF Fresh
      <4>6. \A e, y \in B : e.stamp = y.stamp => e = y
        BY <1>4, <3>1
      <4>7. Bounded(B \cup {x}, now, w, max)
        BY <1>2, <2>2, <3>2, <4>2, <4>4, <4>5, <4>6, WindowGrows
      <4> QED BY <4>1, <4>7
    <3> QED BY <3>3, <3>4
  <2>7. CreatedFine(G, g, now, w, max)
    BY <2>4, <2>5, <2>6 DEF CreatedFine
  <2> QED BY <1>1, <1>7, <2>1, <2>3, <2>7
<1> QED BY <1>6, <1>7

\* Addresses of one client are those of one bucket.
LEMMA BucketOfClient ==
    ASSUME NEW a \in Addrs, NEW b \in Addrs
    PROVE  SameClient(a, b) <=> IpBucket(a) = IpBucket(b)
<1>1. a.v \in {4, 6} /\ b.v \in {4, 6}
  BY LimitsAssumption
<1> QED BY <1>1 DEF SameClient, IpBucket

\* SlidingWindowLimiter::check_and_record(): what it drops of the other buckets is empty.
LEMMA JoinsFine ==
    ASSUME now \in Nat, VecsFine(join, now), NEW b, NEW r \in Reqs
    PROVE  LET g == JoinRecord(b, r)
           IN  /\ VecsFine(g, now)
               /\ \A x : Fresh(Get(join, x, {}), JoinW, now) \in SUBSET Get(g, x, {})
               /\ JoinAdmits(b) => Stamp(r) \in Get(g, b, {})
<1>1. PICK new : new = IF JoinAdmits(b) THEN {Stamp(r)} ELSE {}
  OBVIOUS
<1>2. new \in SUBSET {[by |-> r, at |-> now]}
  BY <1>1 DEF Stamp
<1>3. PICK ts : ts = Get(join, b, {})
  OBVIOUS
<1>4. IsFiniteSet(ts) /\ ts \in SUBSET Stamps(now)
  BY <1>3, FS_EmptySet DEF Get, VecsFine
<1>5. PICK v : v = Fresh(ts, JoinW, now) \cup new
  OBVIOUS
<1>6. IsFiniteSet(v) /\ v \in SUBSET Stamps(now)
  BY <1>2, <1>4, <1>5, ListGrows, LimitsAssumption
<1>7. PICK f : f = Put(join, b, v)
  OBVIOUS
<1>8. DOMAIN f = DOMAIN join \cup {b} /\ f[b] = v /\ \A x \in DOMAIN join : x # b => f[x] = join[x]
  BY <1>7 DEF Put
<1>9. PICK g : g = JoinRecord(b, r)
  OBVIOUS
<1>10. g = f \/ g = Keep(f, {x \in DOMAIN f : f[x] # {}})
  BY <1>1, <1>3, <1>5, <1>7, <1>9 DEF JoinRecord, Recent, Retain, Fresh
<1>11. /\ DOMAIN g \in SUBSET DOMAIN f /\ \A x \in DOMAIN g : g[x] = f[x]
       /\ \A x \in DOMAIN f : f[x] # {} => x \in DOMAIN g
  BY <1>10 DEF Keep
<1>12. VecsFine(g, now)
  BY <1>6, <1>8, <1>11 DEF VecsFine
<1>13. \A x : Get(g, x, {}) = Get(f, x, {})
  BY <1>11 DEF Get
<1>14. ASSUME NEW x PROVE Fresh(Get(join, x, {}), JoinW, now) \in SUBSET Get(f, x, {})
  <2>1. CASE x = b
    BY <1>3, <1>5, <1>8, <2>1 DEF Get
  <2>2. CASE x # b
    BY <1>8, <2>2 DEF Get, Fresh
  <2> QED BY <2>1, <2>2
<1>15. JoinAdmits(b) => Stamp(r) \in Get(f, b, {})
  BY <1>1, <1>5, <1>8 DEF Get
<1> QED BY <1>9, <1>12, <1>13, <1>14, <1>15

\* ChannelJoinLimiter.
LEMMA JoinedGrows ==
    ASSUME now \in Nat, VecsFine(join, now), NEW H, JoinedFine(H, join, now, rq), NEW ip \in Addrs,
           NEW r \in Reqs, rq[r].op = "idle", NEW q, q[r].op # "idle",
           \A x \in Reqs : x # r => q[x] = rq[x]
    PROVE  JoinedFine(IF JoinAdmits(IpBucket(ip)) THEN H \cup {[ip |-> ip, stamp |-> Stamp(r)]} ELSE H,
                      JoinRecord(IpBucket(ip), r), now, q)
<1>1. PICK b : b = IpBucket(ip)
  OBVIOUS
<1>2. PICK g : g = JoinRecord(b, r)
  OBVIOUS
<1>3. JoinW \in Nat /\ JoinMax \in Nat \ {0}
  BY LimitsAssumption
<1>4. /\ \A x : Fresh(Get(join, x, {}), JoinW, now) \in SUBSET Get(g, x, {})
      /\ JoinAdmits(b) => Stamp(r) \in Get(g, b, {})
  BY <1>2, JoinsFine
<1>5. /\ IsFiniteSet(H) /\ H \in SUBSET [ip : Addrs, stamp : Stamps(now)]
      /\ \A e \in H : e.stamp.at > now - JoinW => e.stamp \in Get(join, IpBucket(e.ip), {})
      /\ \A e \in H : rq[e.stamp.by].op # "idle"
      /\ \A e, x \in H : e.stamp = x.stamp => e = x
      /\ \A a \in Addrs : Bounded({e \in H : SameClient(e.ip, a)}, now, JoinW, JoinMax)
  BY DEF JoinedFine
<1>6. \A e \in H : e.stamp.at > now - JoinW => e.stamp \in Get(g, IpBucket(e.ip), {})
  <2> SUFFICES ASSUME NEW e \in H, e.stamp.at > now - JoinW PROVE e.stamp \in Get(g, IpBucket(e.ip), {})
    OBVIOUS
  <2>1. e.stamp \in Fresh(Get(join, IpBucket(e.ip), {}), JoinW, now)
    BY <1>5 DEF Fresh
  <2> QED BY <1>4, <2>1
<1>7. \A e \in H : e.stamp.by # r /\ q[e.stamp.by].op # "idle"
  <2>1. \A e \in H : e.stamp.by \in Reqs
    BY <1>5 DEF Stamps
  <2> QED BY <1>5, <2>1
<1>8. CASE ~JoinAdmits(b)
  BY <1>1, <1>2, <1>5, <1>6, <1>7, <1>8 DEF JoinedFine
<1>9. CASE JoinAdmits(b)
  <2>1. PICK x : x = [ip |-> ip, stamp |-> Stamp(r)]
    OBVIOUS
  <2>2. /\ x \in [ip : Addrs, stamp : Stamps(now)] /\ x.ip = ip /\ x.stamp = Stamp(r)
        /\ x.stamp.at = now /\ x.stamp.by = r
    BY <2>1 DEF Stamp, Stamps
  <2>3. PICK G : G = H \cup {x}
    OBVIOUS
  <2>4. IsFiniteSet(G) /\ G \in SUBSET [ip : Addrs, stamp : Stamps(now)]
    BY <1>5, <2>2, <2>3, FS_AddElement
  <2>5. \A e \in G : e.stamp.at > now - JoinW => e.stamp \in Get(g, IpBucket(e.ip), {})
    BY <1>1, <1>4, <1>6, <1>9, <2>2, <2>3
  <2>6. \A e \in G : q[e.stamp.by].op # "idle"
    BY <1>7, <2>2, <2>3
  <2>7. \A e, y \in G : e.stamp = y.stamp => e = y
    BY <1>5, <1>7, <2>2, <2>3
  <2>8. ASSUME NEW a \in Addrs PROVE Bounded({e \in G : SameClient(e.ip, a)}, now, JoinW, JoinMax)
    <3>1. PICK B : B = {e \in H : SameClient(e.ip, a)}
      OBVIOUS
    <3>2. Bounded(B, now, JoinW, JoinMax) /\ B \in SUBSET H
      BY <1>5, <3>1
    <3>3. CASE ~SameClient(ip, a)
      <4>1. {e \in G : SameClient(e.ip, a)} = B
        BY <2>2, <2>3, <3>1, <3>3
      <4> QED BY <3>2, <4>1
    <3>4. CASE SameClient(ip, a)
      <4>1. {e \in G : SameClient(e.ip, a)} = B \cup {x}
        BY <2>2, <2>3, <3>1, <3>4
      <4>2. IsFiniteSet(B) /\ \A e \in B : e.stamp.at \in 0..now
        BY <1>5, <3>2, FS_Subset DEF Stamps
      <4>3. PICK T : T = Recent(join, b, JoinW)
        OBVIOUS
      <4>4. IsFiniteSet(T) /\ Cardinality(T) < JoinMax
        <5>1. IsFiniteSet(Get(join, b, {})) /\ T \in SUBSET Get(join, b, {})
          BY <4>3, FS_EmptySet DEF Get, VecsFine, Recent, Retain
        <5> QED BY <1>9, <4>3, <5>1, FS_Subset DEF JoinAdmits
      <4>5. \A e \in B : IpBucket(e.ip) = b
        <5>1. \A e \in B : e.ip \in Addrs /\ SameClient(e.ip, a)
          BY <1>5, <3>1
        <5>2. b = IpBucket(a)
          BY <1>1, <3>4, BucketOfClient
        <5> QED BY <5>1, <5>2, BucketOfClient
      <4>6. \A e \in B : e.stamp.at > now - JoinW => e.stamp \in T
        BY <1>5, <3>2, <4>3, <4>5 DEF Recent, Retain
      <4>7. \A e, y \in B : e.stamp = y.stamp => e = y
        BY <1>5, <3>2
      <4>8. Bounded(B \cup {x}, now, JoinW, JoinMax)
        BY <1>3, <2>2, <3>2, <4>2, <4>4, <4>6, <4>7, WindowGrows
      <4> QED BY <4>1, <4>8
    <3> QED BY <3>3, <3>4
  <2>9. JoinedFine(G, g, now, q)
    BY <2>4, <2>5, <2>6, <2>7, <2>8 DEF JoinedFine
  <2> QED BY <1>1, <1>2, <1>9, <2>1, <2>3, <2>9
<1> QED BY <1>1, <1>8, <1>9
-----------------------------------------------------------------------------
\* The bytes of the entries of a share.
ByteSet(es) == UNION {{e} \X (1..e.n) : e \in es}
Served(n) == [by : Reqs, at : 0..n, n : Nat]
Within(es, cap) == BytesOf(es) <= ShareBytes \/ BytesOf(es) <= cap
ServedFine(f, fst, n) ==
    /\ KeysFine(f)
    /\ \A s \in DOMAIN f :
         /\ s \in DOMAIN fst /\ fst[s] \in Nat
         /\ f[s] \in SUBSET Served(n) /\ IsFiniteSet(ByteSet(f[s]))
         /\ Within(Fresh(f[s], HourW, n), fst[s])

LEMMA BytesShrink ==
    ASSUME NEW T, IsFiniteSet(ByteSet(T)), NEW S \in SUBSET T
    PROVE  /\ IsFiniteSet(ByteSet(S)) /\ BytesOf(S) \in Nat /\ BytesOf(T) \in Nat
           /\ BytesOf(S) <= BytesOf(T)
<1>1. ByteSet(S) \in SUBSET ByteSet(T)
  BY DEF ByteSet
<1>2. IsFiniteSet(ByteSet(S)) /\ Cardinality(ByteSet(S)) <= Cardinality(ByteSet(T))
  BY <1>1, FS_Subset
<1>3. Cardinality(ByteSet(S)) \in Nat /\ Cardinality(ByteSet(T)) \in Nat
  BY <1>2, FS_CardinalityType
<1> QED BY <1>2, <1>3 DEF BytesOf, ByteSet

LEMMA BytesGrow ==
    ASSUME NEW S, IsFiniteSet(ByteSet(S)), NEW x, x.n \in Nat
    PROVE  /\ IsFiniteSet(ByteSet(S \cup {x})) /\ BytesOf(S) \in Nat /\ BytesOf(S \cup {x}) \in Nat
           /\ BytesOf(S \cup {x}) <= BytesOf(S) + x.n
<1>1. PICK C : C = {x} \X (1..x.n)
  OBVIOUS
<1>2. IsFiniteSet(C) /\ Cardinality(C) = x.n
  BY <1>1, Column
<1>3. ByteSet(S \cup {x}) = ByteSet(S) \cup C
  BY <1>1 DEF ByteSet
<1>4. PICK B : B = ByteSet(S)
  OBVIOUS
<1>5. IsFiniteSet(B \cup C) /\ Cardinality(B \cup C) = Cardinality(B) + Cardinality(C) - Cardinality(B \cap C)
  BY <1>2, <1>4, FS_Union
<1>6. IsFiniteSet(B \cap C)
  BY <1>2, FS_Intersection, <1>4
<1>7. Cardinality(B) \in Nat /\ Cardinality(B \cap C) \in Nat /\ Cardinality(B \cup C) \in Nat
  BY <1>4, <1>5, <1>6, FS_CardinalityType
<1>8. BytesOf(S) = Cardinality(B) /\ BytesOf(S \cup {x}) = Cardinality(B \cup C)
  BY <1>3, <1>4 DEF BytesOf, ByteSet
<1>9. BytesOf(S \cup {x}) <= BytesOf(S) + x.n
  BY <1>2, <1>5, <1>7, <1>8
<1> QED BY <1>3, <1>4, <1>5, <1>7, <1>8, <1>9

\* ShareBytesPerShareTracker::try_consume().
LEMMA ServedGrows ==
    ASSUME now \in Nat, NEW fst, ServedFine(served, fst, now), NEW s, NEW r \in Reqs, NEW n \in Nat
    PROVE  LET g == ReserveBytes(s, r, n)
           IN  ServedFine(g, IF s \notin DOMAIN served /\ s \in DOMAIN g THEN Put(fst, s, n) ELSE fst, now)
<1>1. PICK g : g = ReserveBytes(s, r, n)
  OBVIOUS
<1>2. PICK h : h = IF s \notin DOMAIN served /\ s \in DOMAIN g THEN Put(fst, s, n) ELSE fst
  OBVIOUS
<1>n. HourW \in Nat /\ ShareBytes \in Nat /\ MaxKeys \in Nat
  BY LimitsAssumption
<1>3. CASE s \notin DOMAIN served /\ Cardinality(DOMAIN served) >= MaxKeys
  <2>1. g = served
    BY <1>1, <1>3 DEF ReserveBytes
  <2>2. h = fst
    BY <1>2, <1>3, <2>1
  <2> QED BY <1>1, <1>2, <2>1, <2>2
<1>4. CASE ~(s \notin DOMAIN served /\ Cardinality(DOMAIN served) >= MaxKeys)
  <2>1. PICK x : x = [by |-> r, at |-> now, n |-> n]
    OBVIOUS
  <2>2. x \in Served(now) /\ x.n = n /\ x.at = now
    BY <2>1 DEF Served
  <2>3. PICK old : old = FreshBytes(s)
    OBVIOUS
  <2>4. PICK v : v = old \cup (IF BytesFit(s, n) THEN {x} ELSE {})
    OBVIOUS
  <2>5. g = Put(served, s, v)
    BY <1>1, <1>4, <2>1, <2>3, <2>4 DEF ReserveBytes
  <2>6. DOMAIN g = DOMAIN served \cup {s} /\ g[s] = v /\ \A y \in DOMAIN served : y # s => g[y] = served[y]
    BY <2>5 DEF Put
  <2>7. KeysFine(g)
    <3>1. IsFiniteSet(DOMAIN g) /\ Cardinality(DOMAIN served) \in Nat
          /\ Cardinality(DOMAIN g) = IF s \in DOMAIN served THEN Cardinality(DOMAIN served)
                                     ELSE Cardinality(DOMAIN served) + 1
      BY <2>6, FS_AddElement, FS_CardinalityType DEF KeysFine, ServedFine
    <3>2. Cardinality(DOMAIN served) <= MaxKeys
      BY DEF KeysFine, ServedFine
    <3>3. Cardinality(DOMAIN g) <= MaxKeys
      BY <1>4, <1>n, <3>1, <3>2
    <3> QED BY <3>1, <3>3 DEF KeysFine
  <2>8. ASSUME NEW y \in DOMAIN served, y # s
        PROVE  /\ y \in DOMAIN h /\ h[y] \in Nat /\ g[y] \in SUBSET Served(now)
               /\ IsFiniteSet(ByteSet(g[y])) /\ Within(Fresh(g[y], HourW, now), h[y])
    <3>1. h[y] = fst[y] /\ y \in DOMAIN h
      BY <1>2, <2>8 DEF Put, ServedFine
    <3>2. g[y] = served[y]
      BY <2>6, <2>8
    <3> QED BY <2>8, <3>1, <3>2 DEF ServedFine
  <2>9. s \in DOMAIN h /\ h[s] \in Nat
    <3>1. CASE s \in DOMAIN served
      BY <1>2, <3>1 DEF ServedFine
    <3>2. CASE s \notin DOMAIN served
      BY <1>2, <2>6, <3>2 DEF Put
    <3> QED BY <3>1, <3>2
  <2>10. /\ old \in SUBSET Served(now) /\ IsFiniteSet(ByteSet(old)) /\ Fresh(old, HourW, now) = old
         /\ s \in DOMAIN served => Within(old, h[s])
    <3>1. CASE s \in DOMAIN served
      <4>1. old = Fresh(served[s], HourW, now)
        BY <2>3, <3>1 DEF FreshBytes, Retain, Get, Fresh
      <4>2. old \in SUBSET served[s] /\ Fresh(old, HourW, now) = old
        BY <4>1 DEF Fresh
      <4>3. IsFiniteSet(ByteSet(old))
        BY <3>1, <4>2, BytesShrink DEF ServedFine
      <4>4. h[s] = fst[s]
        BY <1>2, <3>1
      <4> QED BY <3>1, <4>1, <4>2, <4>3, <4>4 DEF ServedFine
    <3>2. CASE s \notin DOMAIN served
      <4>1. old = {}
        BY <2>3, <3>2 DEF FreshBytes, Retain, Get
      <4>2. ByteSet(old) = {}
        BY <4>1 DEF ByteSet
      <4>3. IsFiniteSet(ByteSet(old))
        BY <4>2, FS_EmptySet
      <4> QED BY <3>2, <4>1, <4>3 DEF Fresh
    <3> QED BY <3>1, <3>2
  <2>11. v \in SUBSET Served(now) /\ IsFiniteSet(ByteSet(v)) /\ Fresh(v, HourW, now) = v /\ Within(v, h[s])
    <3>1. CASE ~BytesFit(s, n)
      <4>1. v = old
        BY <2>4, <3>1
      <4>2. s \in DOMAIN served
        BY <3>1 DEF BytesFit
      <4> QED BY <2>10, <4>1, <4>2
    <3>2. CASE BytesFit(s, n)
      <4>1. v = old \cup {x}
        BY <2>4, <3>2
      <4>2. /\ IsFiniteSet(ByteSet(v)) /\ BytesOf(old) \in Nat /\ BytesOf(v) \in Nat
            /\ BytesOf(v) <= BytesOf(old) + n
        BY <2>2, <2>10, <4>1, BytesGrow
      <4>3. now > now - HourW
        BY <1>n, LimitsAssumption
      <4>4. Fresh(v, HourW, now) = v
        BY <2>2, <2>10, <4>1, <4>3 DEF Fresh
      <4>5. CASE s \in DOMAIN served
        <5>1. BytesOf(old) + n <= ShareBytes
          BY <2>3, <3>2, <4>5 DEF BytesFit
        <5>2. BytesOf(v) <= ShareBytes
          BY <1>n, <4>2, <5>1
        <5> QED BY <2>2, <2>10, <4>1, <4>2, <4>4, <5>2 DEF Within
      <4>6. CASE s \notin DOMAIN served
        <5>1. old = {}
          BY <2>3, <4>6 DEF FreshBytes, Retain, Get
        <5>2. ByteSet(old) = {}
          BY <5>1 DEF ByteSet
        <5>3. BytesOf(old) = 0
          BY <5>2, FS_EmptySet DEF BytesOf, ByteSet
        <5>4. h[s] = n
          BY <1>2, <2>6, <4>6 DEF Put
        <5>5. BytesOf(v) <= h[s]
          BY <4>2, <5>3, <5>4
        <5> QED BY <2>2, <2>10, <4>1, <4>2, <4>4, <5>5 DEF Within
      <4> QED BY <4>5, <4>6
    <3> QED BY <3>1, <3>2
  <2>12. ServedFine(g, h, now)
    BY <2>6, <2>7, <2>8, <2>9, <2>11 DEF ServedFine
  <2> QED BY <1>1, <1>2, <2>12
<1> QED BY <1>3, <1>4

\* The clock: entries leave the window of a share, none joins it.
LEMMA ServedLater ==
    ASSUME NEW n \in Nat, NEW f, NEW fst, ServedFine(f, fst, n)
    PROVE  ServedFine(f, fst, n + 1)
<1>n. HourW \in Nat /\ ShareBytes \in Nat
  BY LimitsAssumption
<1>1. ASSUME NEW s \in DOMAIN f
      PROVE  /\ s \in DOMAIN fst /\ fst[s] \in Nat
             /\ f[s] \in SUBSET Served(n + 1) /\ IsFiniteSet(ByteSet(f[s]))
             /\ Within(Fresh(f[s], HourW, n + 1), fst[s])
  <2>1. /\ s \in DOMAIN fst /\ fst[s] \in Nat /\ f[s] \in SUBSET Served(n)
        /\ IsFiniteSet(ByteSet(f[s])) /\ Within(Fresh(f[s], HourW, n), fst[s])
    BY <1>1 DEF ServedFine
  <2>2. f[s] \in SUBSET Served(n + 1)
    BY <2>1 DEF Served
  <2>3. PICK T : T = Fresh(f[s], HourW, n)
    OBVIOUS
  <2>4. PICK S : S = Fresh(f[s], HourW, n + 1)
    OBVIOUS
  <2>5. T \in SUBSET f[s]
    BY <2>3 DEF Fresh
  <2>6. S \in SUBSET T
    BY <1>n, <2>1, <2>3, <2>4 DEF Fresh, Served
  <2>7. IsFiniteSet(ByteSet(T))
    BY <2>1, <2>5, BytesShrink
  <2>8. BytesOf(S) \in Nat /\ BytesOf(T) \in Nat /\ BytesOf(S) <= BytesOf(T)
    BY <2>6, <2>7, BytesShrink
  <2>9. Within(S, fst[s])
    BY <1>n, <2>1, <2>3, <2>8 DEF Within
  <2> QED BY <2>1, <2>2, <2>4, <2>9
<1> QED BY <1>1 DEF ServedFine
-----------------------------------------------------------------------------
\* The lists of the three windows, and what they say of the past.
WindowsFine ==
    /\ VecsFine(hour, now) /\ VecsFine(day, now) /\ VecsFine(join, now) /\ KeysFine(hour)
    /\ CreatedFine(hourly, hour, now, HourW, PerHour)
    /\ CreatedFine(created, day, now, DayW, PerDay)
    /\ JoinedFine(joined, join, now, rq)
    /\ ServedFine(served, first, now)

\* No empty entry is kept, and no empty body is under way.
Underway ==
    /\ \A r \in Reqs : (rq[r].op = "day" => rq[r].b \in Buckets) /\ (Uploading(r) => rq[r].len # 0)
    /\ \A b \in DOMAIN totals : totals[b] # 0
    /\ \A s \in DOMAIN byShare : byShare[s].n # 0

\* The inductive invariant of the windows.
WindowsInd == LimitsTypes /\ Underway /\ WindowsFine

\* The clock moves on: a window that ends later holds nothing new.
LEMMA CreatedLater ==
    ASSUME NEW n \in Nat, NEW w \in Nat, NEW max \in Nat, NEW H, NEW f,
           CreatedFine(H, f, n, w, max)
    PROVE  CreatedFine(H, f, n + 1, w, max)
<1>1. /\ IsFiniteSet(H) /\ H \in SUBSET [b : Buckets, stamp : Stamps(n)]
      /\ \A e \in H : e.stamp.at > n - w => e.stamp \in Get(f, e.b, {})
      /\ \A b \in Buckets : Bounded({e \in H : e.b = b}, n, w, max)
  BY DEF CreatedFine
<1>2. w \in Nat /\ max \in Nat
  OBVIOUS
<1>3. H \in SUBSET [b : Buckets, stamp : Stamps(n + 1)]
  BY <1>1, StampsGrow
<1>4. \A e \in H : e.stamp.at \in 0..n
  BY <1>1 DEF Stamps
<1>5. \A e \in H : e.stamp.at > (n + 1) - w => e.stamp.at > n - w
  BY <1>2, <1>4
<1>6. ASSUME NEW b \in Buckets PROVE Bounded({e \in H : e.b = b}, n + 1, w, max)
  <2>1. PICK B : B = {e \in H : e.b = b}
    OBVIOUS
  <2>2. B \in SUBSET H /\ Bounded(B, n, w, max)
    BY <1>1, <2>1
  <2>3. IsFiniteSet(B) /\ \A e \in B : e.stamp.at \in 0..n
    BY <1>1, <1>4, <2>2, FS_Subset
  <2>4. Bounded(B, n + 1, w, max)
    BY <1>2, <2>2, <2>3, WindowLater
  <2> QED BY <2>1, <2>4
<1> QED BY <1>1, <1>3, <1>5, <1>6 DEF CreatedFine

LEMMA JoinedLater ==
    ASSUME NEW n \in Nat, NEW H, NEW f, NEW q, JoinedFine(H, f, n, q)
    PROVE  JoinedFine(H, f, n + 1, q)
<1>1. /\ IsFiniteSet(H) /\ H \in SUBSET [ip : Addrs, stamp : Stamps(n)]
      /\ \A e \in H : e.stamp.at > n - JoinW => e.stamp \in Get(f, IpBucket(e.ip), {})
      /\ \A e \in H : q[e.stamp.by].op # "idle"
      /\ \A e, x \in H : e.stamp = x.stamp => e = x
      /\ \A ip \in Addrs : Bounded({e \in H : SameClient(e.ip, ip)}, n, JoinW, JoinMax)
  BY DEF JoinedFine
<1>2. JoinW \in Nat /\ JoinMax \in Nat
  BY LimitsAssumption
<1>3. H \in SUBSET [ip : Addrs, stamp : Stamps(n + 1)]
  BY <1>1, StampsGrow
<1>4. \A e \in H : e.stamp.at \in 0..n
  BY <1>1 DEF Stamps
<1>5. \A e \in H : e.stamp.at > (n + 1) - JoinW => e.stamp.at > n - JoinW
  BY <1>2, <1>4
<1>6. ASSUME NEW ip \in Addrs PROVE Bounded({e \in H : SameClient(e.ip, ip)}, n + 1, JoinW, JoinMax)
  <2>1. PICK B : B = {e \in H : SameClient(e.ip, ip)}
    OBVIOUS
  <2>2. B \in SUBSET H /\ Bounded(B, n, JoinW, JoinMax)
    BY <1>1, <2>1
  <2>3. IsFiniteSet(B) /\ \A e \in B : e.stamp.at \in 0..n
    BY <1>1, <1>4, <2>2, FS_Subset
  <2>4. Bounded(B, n + 1, JoinW, JoinMax)
    BY <1>2, <2>2, <2>3, WindowLater
  <2> QED BY <2>1, <2>4
<1> QED BY <1>1, <1>3, <1>5, <1>6 DEF JoinedFine

LEMMA VecsLater ==
    ASSUME NEW n \in Nat, NEW f, VecsFine(f, n)
    PROVE  VecsFine(f, n + 1)
BY StampsGrow DEF VecsFine

\* A request that was sent stays sent.
LEMMA JoinedKept ==
    ASSUME NEW n, NEW H, NEW f, NEW q, JoinedFine(H, f, n, q), NEW p,
           \A r \in Reqs : q[r].op # "idle" => p[r].op # "idle"
    PROVE  JoinedFine(H, f, n, p)
<1>1. \A e \in H : e.stamp.by \in Reqs
  BY DEF JoinedFine, Stamps
<1>2. \A e \in H : p[e.stamp.by].op # "idle"
  BY <1>1 DEF JoinedFine
<1> QED BY <1>2 DEF JoinedFine

\* A relay that starts has seen nothing.
LEMMA NothingSeen ==
    ASSUME NEW n, NEW q
    PROVE  /\ VecsFine(EmptyMap, n) /\ KeysFine(EmptyMap) /\ CreatedFine({}, EmptyMap, n, HourW, PerHour)
           /\ CreatedFine({}, EmptyMap, n, DayW, PerDay)
           /\ JoinedFine({}, EmptyMap, n, q) /\ ServedFine(EmptyMap, EmptyMap, n)
<1>1. DOMAIN EmptyMap = {}
  BY DEF EmptyMap
<1>2. IsFiniteSet({}) /\ Cardinality({}) = 0
  BY FS_EmptySet
<1>3. MaxKeys \in Nat /\ PerHour \in Nat /\ PerDay \in Nat /\ JoinMax \in Nat
  BY LimitsAssumption
<1>4. KeysFine(EmptyMap)
  BY <1>1, <1>2, <1>3 DEF KeysFine
<1>5. VecsFine(EmptyMap, n)
  BY <1>1 DEF VecsFine
<1>6. ServedFine(EmptyMap, EmptyMap, n)
  BY <1>1, <1>4 DEF ServedFine
<1>7. PICK none : none = {}
  OBVIOUS
<1>8. CreatedFine(none, EmptyMap, n, DayW, PerDay)
  <2>1. \A b : {e \in none : e.b = b} = {}
    BY <1>7
  <2>2. \A b \in Buckets : Bounded({e \in none : e.b = b}, n, DayW, PerDay)
    BY <1>3, <2>1, BoundedNone
  <2> QED BY <1>2, <1>7, <2>2 DEF CreatedFine
<1>10. CreatedFine(none, EmptyMap, n, HourW, PerHour)
  <2>1. \A b : {e \in none : e.b = b} = {}
    BY <1>7
  <2>2. \A b \in Buckets : Bounded({e \in none : e.b = b}, n, HourW, PerHour)
    BY <1>3, <2>1, BoundedNone
  <2> QED BY <1>2, <1>7, <2>2 DEF CreatedFine
<1>9. JoinedFine(none, EmptyMap, n, q)
  <2>1. \A ip : {e \in none : SameClient(e.ip, ip)} = {}
    BY <1>7
  <2>2. \A ip \in Addrs : Bounded({e \in none : SameClient(e.ip, ip)}, n, JoinW, JoinMax)
    BY <1>3, <2>1, BoundedNone
  <2> QED BY <1>2, <1>7, <2>2 DEF JoinedFine
<1> QED BY <1>4, <1>5, <1>6, <1>7, <1>8, <1>9, <1>10

LEMMA WindowsStart == LimitsInit => WindowsInd
<1> SUFFICES ASSUME LimitsInit PROVE WindowsInd
  OBVIOUS
<1>1. WindowsFine
  BY NothingSeen DEF LimitsInit, WindowsFine
<1>2. \A r \in Reqs : rq[r].op = "idle"
  BY DEF LimitsInit, IdleReq
<1>3. Underway
  BY <1>2 DEF LimitsInit, Underway, Uploading, EmptyMap
<1> QED BY <1>1, <1>3, TypesStart DEF WindowsInd

\* Steps that touch no window and no table of bytes: one request moves on.
LEMMA WindowsQuiet ==
    ASSUME WindowsInd, LimitsTypes', NEW r \in Reqs, rq'[r].op # "idle",
           \A q \in Reqs : q # r => rq'[q] = rq[q],
           rq'[r].op = "day" => rq'[r].b \in Buckets, Uploading(r)' => rq'[r].len # 0,
           \A b \in DOMAIN totals' : totals'[b] # 0,
           \A s \in DOMAIN byShare' : byShare'[s].n # 0,
           UNCHANGED <<now, hour, day, join, served, hourly, created, joined, first>>
    PROVE  WindowsInd'
<1>1. JoinedFine(joined, join, now, rq')
  BY JoinedKept DEF WindowsInd, WindowsFine
<1>2. WindowsFine'
  BY <1>1 DEF WindowsInd, WindowsFine
<1>3. Underway'
  BY DEF WindowsInd, Underway, Uploading
<1> QED BY <1>2, <1>3 DEF WindowsInd

\* A step that leaves the uploads alone leaves no empty entry.
LEMMA UnderwayKept ==
    ASSUME WindowsInd, NEW r \in Reqs, \A q \in Reqs : q # r => rq'[q] = rq[q],
           rq'[r].op = "day" => rq'[r].b \in Buckets, ~Uploading(r)',
           UNCHANGED <<totals, byShare>>
    PROVE  Underway'
BY DEF WindowsInd, Underway, Uploading

LEMMA WindowsStep == WindowsInd /\ [LimitsNext]_limitVars => WindowsInd'
<1> SUFFICES ASSUME WindowsInd, [LimitsNext]_limitVars PROVE WindowsInd'
  OBVIOUS
<1>t. LimitsTypes /\ Underway /\ WindowsFine /\ LimitsTypes' /\ now \in Nat
  BY TypesStep DEF WindowsInd, LimitsTypes
<1>r. rq \in [Reqs -> Handlers]
  BY <1>t DEF LimitsTypes
<1>1. ASSUME NEW r \in Reqs, NEW ip \in Addrs, JoinChannel(r, ip) PROVE WindowsInd'
  <2>1. PICK b : b = IpBucket(ip) /\ b \in Buckets
    BY DEF Buckets
  <2>2. /\ Begin(r, "done", b, None, 0, 0) /\ join' = JoinRecord(b, r)
        /\ joined' = IF JoinAdmits(b) THEN joined \cup {[ip |-> ip, stamp |-> Stamp(r)]} ELSE joined
        /\ UNCHANGED <<now, hour, day, served, hourly, created, first, totals, byShare>>
    BY <1>1, <2>1 DEF JoinChannel
  <2>3. rq[r].op = "idle" /\ rq'[r].op = "done" /\ \A q \in Reqs : q # r => rq'[q] = rq[q]
    BY <1>t, <2>2, BeginFacts
  <2>4. VecsFine(join', now)
    BY <1>t, <2>2, JoinsFine DEF WindowsFine
  <2>5. JoinedFine(joined', join', now, rq')
    BY <1>t, <2>1, <2>2, <2>3, JoinedGrows DEF WindowsFine
  <2>6. WindowsFine'
    BY <1>t, <2>2, <2>4, <2>5 DEF WindowsFine
  <2>7. Underway'
    BY <2>2, <2>3, UnderwayKept DEF Uploading
  <2> QED BY <1>t, <2>6, <2>7 DEF WindowsInd
<1>2. ASSUME NEW r \in Reqs, NEW ip \in Addrs, CreateHour(r, ip) PROVE WindowsInd'
  <2>1. PICK b : b = IpBucket(ip) /\ b \in Buckets
    BY DEF Buckets
  <2>2. PICK op \in {"day", "done"} : Begin(r, op, b, None, 0, 0)
    BY <1>2, <2>1 DEF CreateHour
  <2>3. /\ hour' = KeyedRecord(hour, b, r, HourW, PerHour)
        /\ hourly' = IF KeyedAdmits(hour, b, HourW, PerHour) /\ b \in DOMAIN hour'
                       THEN hourly \cup {[b |-> b, stamp |-> Stamp(r)]} ELSE hourly
        /\ UNCHANGED <<now, day, join, served, created, joined, first, totals, byShare>>
    BY <1>2, <2>1 DEF CreateHour
  <2>4. rq[r].op = "idle" /\ rq'[r].op = op /\ rq'[r].b = b /\ \A q \in Reqs : q # r => rq'[q] = rq[q]
    BY <1>t, <2>2, BeginFacts
  <2>5. HourW \in Nat /\ PerHour \in Nat \ {0}
    BY LimitsAssumption
  <2>6. VecsFine(hour', now) /\ KeysFine(hour')
    BY <1>t, <2>3, <2>5, KeyedFine DEF WindowsFine
  <2>7. JoinedFine(joined, join, now, rq')
    BY <1>t, <2>4, JoinedKept DEF WindowsFine
  <2>10. CreatedFine(hourly', hour', now, HourW, PerHour)
    BY <1>t, <2>1, <2>3, <2>5, CreatedGrows DEF WindowsFine
  <2>8. WindowsFine'
    BY <1>t, <2>3, <2>6, <2>7, <2>10 DEF WindowsFine
  <2>9. Underway'
    BY <2>1, <2>3, <2>4, UnderwayKept DEF Uploading
  <2> QED BY <1>t, <2>8, <2>9 DEF WindowsInd
<1>3. ASSUME NEW r \in Reqs, CreateDay(r) PROVE WindowsInd'
  <2>1. PICK b : b = rq[r].b
    OBVIOUS
  <2>2. /\ rq[r].op = "day" /\ Goto(r, "done") /\ day' = KeyedRecord(day, b, r, DayW, PerDay)
        /\ created' = IF KeyedAdmits(day, b, DayW, PerDay) /\ b \in DOMAIN day'
                        THEN created \cup {[b |-> b, stamp |-> Stamp(r)]} ELSE created
        /\ UNCHANGED <<now, hour, join, served, hourly, joined, first, totals, byShare>>
    BY <1>3, <2>1 DEF CreateDay
  <2>3. b \in Buckets
    BY <1>t, <2>1, <2>2 DEF Underway
  <2>4. rq'[r].op = "done" /\ \A q \in Reqs : q # r => rq'[q] = rq[q]
    BY <1>t, <2>2, GotoFacts DEF Ops
  <2>5. DayW \in Nat /\ PerDay \in Nat \ {0}
    BY LimitsAssumption
  <2>6. VecsFine(day', now)
    BY <1>t, <2>2, <2>5, KeyedFine DEF WindowsFine
  <2>7. CreatedFine(created', day', now, DayW, PerDay)
    BY <1>t, <2>2, <2>3, <2>5, CreatedGrows DEF WindowsFine
  <2>8. JoinedFine(joined, join, now, rq')
    BY <1>t, <2>4, JoinedKept DEF WindowsFine
  <2>9. WindowsFine'
    BY <1>t, <2>2, <2>6, <2>7, <2>8 DEF WindowsFine
  <2>10. Underway'
    BY <2>2, <2>4, UnderwayKept DEF Uploading
  <2> QED BY <1>t, <2>9, <2>10 DEF WindowsInd
<1>4. ASSUME NEW r \in Reqs, NEW b \in Buckets, NEW s \in ShareIds, NEW n \in Sizes,
             NEW declared \in BOOLEAN, BeginUpload(r, b, s, n, declared)
      PROVE  WindowsInd'
  <2>1. /\ Begin(r, "stream", b, s, n, Today)
        /\ UNCHANGED <<now, hour, day, join, served, hourly, created, joined, first, totals, byShare>>
    BY <1>4 DEF BeginUpload, maps
  <2>2. rq'[r].op = "stream" /\ rq'[r].len = n /\ \A q \in Reqs : q # r => rq'[q] = rq[q]
    BY <1>t, <2>1, BeginFacts
  <2>3. n # 0
    BY LimitsAssumption
  <2> QED BY <1>t, <2>1, <2>2, <2>3, WindowsQuiet DEF Underway
<1>5. ASSUME NEW r \in Reqs, StreamChunk(r) PROVE WindowsInd'
  <2>1. /\ rq[r].op = "stream"
        /\ (rq' = [rq EXCEPT ![r].sent = @ + 1] \/ rq' = [rq EXCEPT ![r].op = "done"])
        /\ UNCHANGED <<now, hour, day, join, served, hourly, created, joined, first, totals, byShare>>
    BY <1>5 DEF StreamChunk
  <2>2. rq'[r].op \in {"stream", "done"} /\ rq'[r].len = rq[r].len /\ \A q \in Reqs : q # r => rq'[q] = rq[q]
    BY <1>r, <2>1 DEF Handlers
  <2>3. rq[r].len # 0
    BY <1>t, <2>1 DEF Underway, Uploading
  <2> QED BY <1>t, <2>1, <2>2, <2>3, WindowsQuiet DEF Underway
<1>6. ASSUME NEW r \in Reqs, NEW ok \in BOOLEAN, StoreUpload(r, ok) PROVE WindowsInd'
  <2>1. PICK op \in {"stored", "done"} : Goto(r, op)
    BY <1>6 DEF StoreUpload
  <2>2. /\ rq[r].op = "stream"
        /\ UNCHANGED <<now, hour, day, join, served, hourly, created, joined, first, totals, byShare>>
    BY <1>6 DEF StoreUpload, maps, past
  <2>3. rq'[r].op = op /\ rq'[r].len = rq[r].len /\ \A q \in Reqs : q # r => rq'[q] = rq[q]
    BY <1>t, <2>1, GotoFacts DEF Ops
  <2>4. rq[r].len # 0
    BY <1>t, <2>2 DEF Underway, Uploading
  <2> QED BY <1>t, <2>2, <2>3, <2>4, WindowsQuiet DEF Underway
<1>7. ASSUME NEW r \in Reqs, RegisterShare(r) PROVE WindowsInd'
  <2>1. PICK s, e : s = rq[r].share /\ e = Get(byShare, s, [b |-> rq[r].b, n |-> 0])
    OBVIOUS
  <2>2. rq[r].op = "stored" /\ rq[r].b \in Buckets /\ s \in ShareIds /\ rq[r].len \in Nat /\ rq[r].len # 0
    BY <1>t, <1>r, <1>7, <2>1 DEF RegisterShare, LimitsTypes, Handlers, Uploading, Underway
  <2>3. e \in [b : Buckets, n : Nat]
    BY <1>t, <2>1, <2>2 DEF Get, LimitsTypes
  <2>4. /\ byShare' = Put(byShare, s, [e EXCEPT !.n = @ + rq[r].len])
        /\ rq' = [rq EXCEPT ![r].op = "attribute", ![r].b = e.b]
        /\ UNCHANGED <<now, hour, day, join, served, hourly, created, joined, first, totals>>
    BY <1>7, <2>1 DEF RegisterShare, past
  <2>5. rq'[r].op = "attribute" /\ rq'[r].len = rq[r].len /\ \A q \in Reqs : q # r => rq'[q] = rq[q]
    BY <1>r, <2>4 DEF Handlers
  <2>6. PICK v : v = [e EXCEPT !.n = @ + rq[r].len]
    OBVIOUS
  <2>7. v.n = e.n + rq[r].len
    BY <2>3, <2>6
  <2>8. v.n # 0
    BY <2>2, <2>3, <2>7
  <2>9. \A x \in DOMAIN byShare' : byShare'[x].n # 0
    BY <1>t, <2>4, <2>6, <2>8 DEF Put, Underway
  <2> QED BY <1>t, <2>2, <2>4, <2>5, <2>9, WindowsQuiet DEF Underway
<1>8. ASSUME NEW r \in Reqs, RegisterTotal(r) \/ ReleaseTotal(r) PROVE WindowsInd'
  <2>1. /\ rq[r].op \in {"attribute", "release"} /\ Goto(r, "done")
        /\ UNCHANGED <<now, hour, day, join, served, hourly, created, joined, first, byShare>>
    BY <1>8 DEF RegisterTotal, ReleaseTotal, past
  <2>2. rq'[r].op = "done" /\ \A q \in Reqs : q # r => rq'[q] = rq[q]
    BY <1>t, <2>1, GotoFacts DEF Ops
  <2>3. rq[r].len \in Nat /\ Get(totals, rq[r].b, 0) \in Nat
    BY <1>t, <1>r DEF LimitsTypes, Handlers, Get
  <2>4. \A b \in DOMAIN totals' : totals'[b] # 0
    <3>1. CASE RegisterTotal(r)
      <4>1. rq[r].len # 0 /\ totals' = Put(totals, rq[r].b, Get(totals, rq[r].b, 0) + rq[r].len)
        BY <1>t, <3>1 DEF RegisterTotal, Underway, Uploading
      <4>2. Get(totals, rq[r].b, 0) + rq[r].len # 0
        BY <2>3, <4>1
      <4> QED BY <1>t, <4>1, <4>2 DEF Put, Underway
    <3>2. CASE ReleaseTotal(r)
      BY <1>t, <3>2 DEF ReleaseTotal, Put, Drop, Underway
    <3> QED BY <1>8, <3>1, <3>2
  <2> QED BY <1>t, <2>1, <2>2, <2>4, WindowsQuiet DEF Underway, Uploading
<1>9. ASSUME NEW r \in Reqs, NEW s \in ShareIds, ReleaseShare(r, s) PROVE WindowsInd'
  <2>1. /\ Begin(r, "release", byShare[s].b, s, byShare[s].n, 0) /\ byShare' = Drop(byShare, s)
        /\ UNCHANGED <<now, hour, day, join, served, hourly, created, joined, first, totals>>
    BY <1>9 DEF ReleaseShare
  <2>2. rq'[r].op = "release" /\ \A q \in Reqs : q # r => rq'[q] = rq[q]
    BY <1>t, <2>1, BeginFacts
  <2>3. \A x \in DOMAIN byShare' : byShare'[x].n # 0
    BY <1>t, <2>1 DEF Drop, Underway
  <2> QED BY <1>t, <2>1, <2>2, <2>3, WindowsQuiet DEF Underway, Uploading
<1>10. ASSUME NEW r \in Reqs, NEW s \in ShareIds, NEW n \in Sizes, BeginDownload(r, s, n)
       PROVE  WindowsInd'
  <2>1. PICK op \in {"slot", "done"} : Begin(r, op, <<>>, s, n, 0)
    BY <1>10 DEF BeginDownload
  <2>2. /\ served' = ReserveBytes(s, r, n)
        /\ first' = IF s \notin DOMAIN served /\ s \in DOMAIN served' THEN Put(first, s, n) ELSE first
        /\ UNCHANGED <<now, hour, day, join, hourly, created, joined, totals, byShare>>
    BY <1>10 DEF BeginDownload
  <2>3. rq[r].op = "idle" /\ rq'[r].op = op /\ \A q \in Reqs : q # r => rq'[q] = rq[q]
    BY <1>t, <2>1, BeginFacts
  <2>4. n \in Nat
    BY LimitsAssumption
  <2>5. ServedFine(served', first', now)
    BY <1>t, <2>2, <2>4, ServedGrows DEF WindowsFine
  <2>6. JoinedFine(joined, join, now, rq')
    BY <1>t, <2>3, JoinedKept DEF WindowsFine
  <2>7. WindowsFine'
    BY <1>t, <2>2, <2>5, <2>6 DEF WindowsFine
  <2>8. Underway'
    BY <2>2, <2>3, UnderwayKept DEF Uploading
  <2> QED BY <1>t, <2>7, <2>8 DEF WindowsInd
<1>11. ASSUME NEW r \in Reqs, AcquireSlot(r) \/ BackOff(r) \/ DropGuard(r) PROVE WindowsInd'
  <2>1. PICK op \in {"serving", "backoff", "done"} : Goto(r, op)
    BY <1>11 DEF AcquireSlot, BackOff, DropGuard
  <2>2. UNCHANGED <<now, hour, day, join, served, hourly, created, joined, first, totals, byShare>>
    BY <1>11 DEF AcquireSlot, BackOff, DropGuard, past
  <2>3. rq'[r].op = op /\ \A q \in Reqs : q # r => rq'[q] = rq[q]
    BY <1>t, <2>1, GotoFacts DEF Ops
  <2> QED BY <1>t, <2>2, <2>3, WindowsQuiet DEF Underway, Uploading
<1>12. CASE LimitsTick
  <2>1. /\ now' = now + 1
        /\ UNCHANGED <<hour, day, join, served, hourly, created, joined, first, totals, byShare, rq>>
    BY <1>12 DEF LimitsTick, maps, past
  <2>2. VecsFine(hour, now + 1) /\ VecsFine(day, now + 1) /\ VecsFine(join, now + 1)
    BY <1>t, VecsLater DEF WindowsFine
  <2>6. HourW \in Nat /\ PerHour \in Nat /\ DayW \in Nat /\ PerDay \in Nat
    BY LimitsAssumption
  <2>3. /\ CreatedFine(hourly, hour, now + 1, HourW, PerHour)
        /\ CreatedFine(created, day, now + 1, DayW, PerDay) /\ JoinedFine(joined, join, now + 1, rq)
        /\ ServedFine(served, first, now + 1)
    BY <1>t, <2>6, CreatedLater, JoinedLater, ServedLater DEF WindowsFine
  <2>4. WindowsFine'
    BY <1>t, <2>1, <2>2, <2>3 DEF WindowsFine
  <2>5. Underway'
    BY <1>t, <2>1 DEF Underway, Uploading
  <2> QED BY <1>t, <2>4, <2>5 DEF WindowsInd
<1>13. CASE LimitsRestart
  <2>1. WindowsFine'
    BY <1>13, NothingSeen DEF LimitsRestart, WindowsFine
  <2>2. \A r \in Reqs : rq'[r].op \in {"idle", "done"}
    BY <1>13 DEF LimitsRestart, IdleReq
  <2>3. Underway'
    BY <1>13, <2>2 DEF LimitsRestart, Underway, Uploading, EmptyMap
  <2> QED BY <1>t, <2>1, <2>3 DEF WindowsInd
<1>14. CASE UNCHANGED limitVars
  <2>1. UNCHANGED <<now, hour, day, join, served, hourly, created, joined, first, totals, byShare, rq>>
    BY <1>14 DEF limitVars, maps, past
  <2> QED BY <1>t, <2>1 DEF WindowsInd, WindowsFine, Underway, Uploading
<1> QED BY <1>1, <1>2, <1>3, <1>4, <1>5, <1>6, <1>7, <1>8, <1>9, <1>10, <1>11, <1>12, <1>13, <1>14
        DEF LimitsNext, WindowNext, UploadNext, DownloadNext

\* What the windows and the types say of a state.
LEMMA WindowsEnough == WindowsInd /\ SlotsInd => LimitsInv
<1> SUFFICES ASSUME WindowsInd, SlotsInd PROVE LimitsInv
  OBVIOUS
<1>1. LimitsTypes /\ Underway /\ WindowsFine
  BY DEF WindowsInd
<1>2. CreationWindows
  <2> SUFFICES ASSUME NEW b \in Buckets, NEW t \in 0..now
               PROVE  /\ Cardinality({e \in hourly : e.b = b /\ InWindow(e, t, HourW)}) <= PerHour
                      /\ Cardinality({e \in created : e.b = b /\ InWindow(e, t, DayW)}) <= PerDay
    BY DEF CreationWindows
  <2>1. PICK A, B : A = {e \in hourly : e.b = b} /\ B = {e \in created : e.b = b}
    OBVIOUS
  <2>2. Bounded(A, now, HourW, PerHour) /\ Bounded(B, now, DayW, PerDay)
    BY <1>1, <2>1 DEF WindowsFine, CreatedFine
  <2>3. /\ {e \in hourly : e.b = b /\ InWindow(e, t, HourW)} = {e \in A : InWindow(e, t, HourW)}
        /\ {e \in created : e.b = b /\ InWindow(e, t, DayW)} = {e \in B : InWindow(e, t, DayW)}
    BY <2>1
  <2> QED BY <2>2, <2>3 DEF Bounded
<1>3. JoinWindows
  <2> SUFFICES ASSUME NEW ip \in Addrs, NEW t \in 0..now
               PROVE  Cardinality({e \in joined : SameClient(e.ip, ip) /\ InWindow(e, t, JoinW)}) <= JoinMax
    BY DEF JoinWindows
  <2>1. PICK B : B = {e \in joined : SameClient(e.ip, ip)}
    OBVIOUS
  <2>2. Bounded(B, now, JoinW, JoinMax)
    BY <1>1, <2>1 DEF WindowsFine, JoinedFine
  <2>3. {e \in joined : SameClient(e.ip, ip) /\ InWindow(e, t, JoinW)} = {e \in B : InWindow(e, t, JoinW)}
    BY <2>1
  <2> QED BY <2>2, <2>3 DEF Bounded
<1>4. HourlyBytesHeld
  <2>1. \A s \in DOMAIN served : FreshBytes(s) = Fresh(served[s], HourW, now)
    BY DEF FreshBytes, Retain, Get, Fresh
  <2> QED BY <1>1, <2>1 DEF HourlyBytesHeld, WindowsFine, ServedFine, Within
<1>5. LimitsTypeOK
  <2>1. \A f \in {hour, day, join} : \A b \in DOMAIN f : f[b] \subseteq [by : Reqs, at : 0..now]
    BY <1>1 DEF WindowsFine, VecsFine, Stamps
  <2>2. now \in Nat /\ \A b \in DOMAIN budget : budget[b] \in [day : Nat, bytes : 0..DailyBytes]
    BY <1>1 DEF LimitsTypes
  <2>3. /\ \A b \in DOMAIN totals : totals[b] \in Nat \ {0}
        /\ \A s \in DOMAIN byShare : s \in ShareIds /\ byShare[s].n \in Nat \ {0}
    BY <1>1 DEF LimitsTypes, Underway
  <2>4. \A r \in Reqs : rq[r].op \in Ops /\ rq[r].share \in ShareIds \cup {None}
    BY <1>1 DEF LimitsTypes, Handlers
  <2>5. \A s \in DOMAIN counter : s \in ShareIds /\ counter[s] \in Nat
    BY DEF SlotsInd
  <2>6. Cardinality(DOMAIN hour) <= MaxKeys /\ Cardinality(DOMAIN served) <= MaxKeys
    BY <1>1 DEF WindowsFine, ServedFine, KeysFine
  <2> QED BY <2>1, <2>2, <2>3, <2>4, <2>5, <2>6 DEF LimitsTypeOK
<1> QED BY <1>2, <1>3, <1>4, <1>5 DEF LimitsInv

\* In no interval of the window's length, whichever it is, does a bucket create more
\* shares or a client join more channels than allowed, or a share serve more bytes than
\* its hour holds, and the tables stay within their size: whatever requests run between
\* the locks, whatever time passes and whenever the relay restarts (rate_limit.rs).
THEOREM WindowsHold == LimitsSpec => []LimitsInv
<1>1. LimitsInit => WindowsInd /\ SlotsInd
  BY WindowsStart, SlotsStart
<1>2. WindowsInd /\ SlotsInd /\ [LimitsNext]_limitVars => (WindowsInd /\ SlotsInd)'
  <2>1. WindowsInd => LimitsTypes
    BY DEF WindowsInd
  <2> QED BY <2>1, WindowsStep, SlotsStep
<1>3. WindowsInd /\ SlotsInd => LimitsInv
  BY WindowsEnough
<1> QED BY <1>1, <1>2, <1>3, PTL DEF LimitsSpec
-----------------------------------------------------------------------------
(***************************************************************************)
(* The gate of the SFTP endpoint.                                          *)
(***************************************************************************)
\* How far a session has come: not there, before its login was recorded, waiting for the
\* server's verdict with or without having been counted, past it.
Stage(r) ==
    IF r.pc \in {"new", "checked", "gone"} THEN "out"
    ELSE IF r.pc \in {"upgraded", "spray", "connect", "hostkey", "accepted"} THEN "ahead"
    ELSE IF r.pc = "auth" THEN (IF r.counted THEN "counted" ELSE "free")
    ELSE "past"
Stages == {"out", "ahead", "counted", "free", "past"}

\* The sessions of a bucket at some stages, and how many they are.
Of(b, K) == {l \in Logins : login[l].b = b /\ Stage(login[l]) \in K}
Num(b, K) == Cardinality(Of(b, K))
Opened == {"ahead", "counted", "free", "past"}
Judged == {"counted", "free"}

Pcs == {"new", "gone", "checked", "upgraded", "spray", "connect", "hostkey", "accepted", "auth", "closing",
        "ready"}
Visits == [pc : Pcs, b : Clients \cup {None}, host : Hosts \cup {None}, key : Nat \cup {None},
           stored : Nat \cup {None}, counted : BOOLEAN]
LoginTypes ==
    /\ login \in [Logins -> Visits]
    /\ \A l \in Logins : login[l].pc \notin {"new", "gone"} =>
                           login[l].b \in Clients /\ login[l].host \in Hosts
    /\ serverKey \in [Hosts -> Nat] /\ pin \in [Hosts -> Nat \cup {None}]
GateTypes ==
    /\ gNow \in Nat \ {0} /\ gNow <= GateTime
    /\ wrong \in [Clients -> Nat]
    /\ DOMAIN reached = Clients
    /\ \A b \in DOMAIN slots : b \in Clients /\ slots[b] \in 1..MaxPerIp
    /\ \A b \in DOMAIN fails : /\ b \in Clients
                               /\ fails[b] \in [count : Nat, start : Nat, until : Nat]
                               /\ fails[b].start <= gNow
    /\ \A b \in DOMAIN seenHosts : /\ b \in Clients
                                   /\ seenHosts[b] = [names |-> seenHosts[b].names,
                                                      start |-> seenHosts[b].start]
                                   /\ seenHosts[b].names \subseteq Hosts
                                   /\ IsFiniteSet(seenHosts[b].names)
                                   /\ seenHosts[b].start \in Nat

SlotsAt(b) == Get(slots, b, 0) = Num(b, Opened)

\* As long as no block has fallen in its window a bucket's count covers the refusals and the
\* verdicts still out, but for the sessions an older window left in flight; a block lasts
\* longer than the window it fell in.
GuessesAt(b) ==
    /\ wrong[b] + Num(b, {"counted"}) < FailureLimit + MaxPerIp
    /\ b \notin DOMAIN fails => wrong[b] = 0 /\ Num(b, Judged) = 0
    /\ b \in DOMAIN fails =>
         IF fails[b].until = 0
         THEN /\ fails[b].count < FailureLimit
              /\ wrong[b] + Num(b, Judged) < fails[b].count + MaxPerIp
         ELSE fails[b].until > fails[b].start + FailureWindow

\* The hosts a bucket went on to are among the names its window holds.
HostsAt(b) ==
    /\ reached[b] \subseteq (IF b \in DOMAIN seenHosts THEN seenHosts[b].names ELSE {})
    /\ Cardinality(reached[b]) <= HostLimit

GateInd ==
    /\ LoginTypes /\ GateTypes /\ CredentialsToPinned
    /\ \A b \in Clients : SlotsAt(b) /\ GuessesAt(b) /\ HostsAt(b)
-----------------------------------------------------------------------------
(***************************************************************************)
(* Counting sessions.                                                      *)
(***************************************************************************)
LEMMA OfFinite ==
    ASSUME NEW b, NEW K
    PROVE  IsFiniteSet(Of(b, K)) /\ Num(b, K) \in Nat
<1>1. Of(b, K) \in SUBSET Logins
  BY DEF Of
<1>2. IsFiniteSet(Of(b, K))
  BY <1>1, FS_Subset, GateAssumption
<1> QED BY <1>2, FS_CardinalityType DEF Num

\* A step of one session changes a count by that session only.
LEMMA NumMoves ==
    ASSUME NEW b, NEW K, NEW l \in Logins, \A q \in Logins : q # l => login'[q] = login[q]
    PROVE  /\ Num(b, K) \in Nat
           /\ (l \in Of(b, K) <=> l \in Of(b, K)') => Of(b, K)' = Of(b, K) /\ Num(b, K)' = Num(b, K)
           /\ l \notin Of(b, K) /\ l \in Of(b, K)' => Num(b, K)' = Num(b, K) + 1
           /\ l \in Of(b, K) /\ l \notin Of(b, K)' => Num(b, K)' = Num(b, K) - 1
<1>1. IsFiniteSet(Of(b, K)) /\ Num(b, K) \in Nat
  BY OfFinite
<1>2. CASE l \in Of(b, K) <=> l \in Of(b, K)'
  <2>1. Of(b, K)' = Of(b, K)
    BY <1>2 DEF Of
  <2> QED BY <1>1, <1>2, <2>1 DEF Num
<1>3. CASE l \notin Of(b, K) /\ l \in Of(b, K)'
  <2>1. Of(b, K)' = Of(b, K) \cup {l}
    BY <1>3 DEF Of
  <2>2. Cardinality(Of(b, K) \cup {l}) = Cardinality(Of(b, K)) + 1
    BY <1>1, <1>3, FS_AddElement
  <2> QED BY <1>1, <1>3, <2>1, <2>2 DEF Num
<1>4. CASE l \in Of(b, K) /\ l \notin Of(b, K)'
  <2>1. Of(b, K)' = Of(b, K) \ {l}
    BY <1>4 DEF Of
  <2>2. Cardinality(Of(b, K) \ {l}) = Cardinality(Of(b, K)) - 1
    BY <1>1, <1>4, FS_RemoveElement
  <2> QED BY <1>1, <1>4, <2>1, <2>2 DEF Num
<1> QED BY <1>1, <1>2, <1>3, <1>4

\* Fewer stages are fewer sessions, and a session at a stage is counted.
LEMMA NumOrder ==
    ASSUME NEW b
    PROVE  /\ Num(b, {"counted"}) <= Num(b, Judged)
           /\ Num(b, Judged) <= Num(b, Opened)
<1>1. /\ Of(b, {"counted"}) \subseteq Of(b, Judged)
      /\ Of(b, Judged) \subseteq Of(b, Opened)
  BY DEF Of, Judged, Opened
<1>2. IsFiniteSet(Of(b, Judged)) /\ IsFiniteSet(Of(b, Opened))
  BY OfFinite
<1> QED BY <1>1, <1>2, FS_Subset DEF Num

LEMMA NumZero ==
    ASSUME NEW b, NEW K
    PROVE  Num(b, K) = 0 <=> Of(b, K) = {}
  BY OfFinite, FS_EmptySet DEF Num

\* What a step of session l in bucket b from one stage to another does to the counts.
StageCounts(b, from, to) ==
    /\ Num(b, Opened)' = Num(b, Opened) + (IF to \in Opened THEN 1 ELSE 0)
                                        - (IF from \in Opened THEN 1 ELSE 0)
    /\ Num(b, Judged)' = Num(b, Judged) + (IF to \in Judged THEN 1 ELSE 0)
                                        - (IF from \in Judged THEN 1 ELSE 0)
    /\ Num(b, {"counted"})' = Num(b, {"counted"}) + (IF to = "counted" THEN 1 ELSE 0)
                                                  - (IF from = "counted" THEN 1 ELSE 0)

LEMMA Counting ==
    ASSUME NEW b, NEW l \in Logins, \A q \in Logins : q # l => login'[q] = login[q],
           NEW from \in Stages, NEW to \in Stages,
           from = Stage(login[l]), from = "out" \/ login[l].b = b,
           to = Stage(login'[l]), to = "out" \/ login'[l].b = b
    PROVE  StageCounts(b, from, to)
<1>1. /\ l \in Of(b, Opened) <=> from \in Opened
      /\ l \in Of(b, Judged) <=> from \in Judged
      /\ l \in Of(b, {"counted"}) <=> from = "counted"
  BY DEF Of, Opened, Judged, Stages
<1>2. /\ l \in Of(b, Opened)' <=> to \in Opened
      /\ l \in Of(b, Judged)' <=> to \in Judged
      /\ l \in Of(b, {"counted"})' <=> to = "counted"
  BY DEF Of, Opened, Judged, Stages
<1>3. Num(b, Opened) \in Nat /\ Num(b, Judged) \in Nat /\ Num(b, {"counted"}) \in Nat
  BY OfFinite
<1>4. Num(b, Opened)' = Num(b, Opened) + (IF to \in Opened THEN 1 ELSE 0)
                                        - (IF from \in Opened THEN 1 ELSE 0)
  BY <1>1, <1>2, <1>3, NumMoves
<1>5. Num(b, Judged)' = Num(b, Judged) + (IF to \in Judged THEN 1 ELSE 0)
                                        - (IF from \in Judged THEN 1 ELSE 0)
  BY <1>1, <1>2, <1>3, NumMoves
<1>6. Num(b, {"counted"})' = Num(b, {"counted"}) + (IF to = "counted" THEN 1 ELSE 0)
                                                  - (IF from = "counted" THEN 1 ELSE 0)
  BY <1>1, <1>2, <1>3, NumMoves
<1> QED BY <1>4, <1>5, <1>6 DEF StageCounts

\* A bucket that a step does not concern.
LEMMA OtherBucket ==
    ASSUME NEW b, NEW l \in Logins, \A q \in Logins : q # l => login'[q] = login[q],
           login[l].b # b \/ Stage(login[l]) = "out",
           login'[l].b # b \/ Stage(login'[l]) = "out"
    PROVE  StageCounts(b, "past", "past")
<1>1. \A K \in {Opened, Judged, {"counted"}} : l \notin Of(b, K) /\ l \notin Of(b, K)'
  BY DEF Of, Opened, Judged
<1>2. \A K \in {Opened, Judged, {"counted"}} :
          Num(b, K) \in Nat /\ Of(b, K)' = Of(b, K) /\ Num(b, K)' = Num(b, K)
  <2> TAKE K \in {Opened, Judged, {"counted"}}
  <2> QED BY <1>1, NumMoves
<1> QED BY <1>2 DEF StageCounts, Opened, Judged
-----------------------------------------------------------------------------
(***************************************************************************)
(* Buckets and sessions a step leaves as they are.                         *)
(***************************************************************************)
BucketAt(b) == SlotsAt(b) /\ GuessesAt(b)

CountsSame(b) ==
    /\ Num(b, Opened)' = Num(b, Opened) /\ Num(b, Judged)' = Num(b, Judged)
    /\ Num(b, {"counted"})' = Num(b, {"counted"})

\* The trackers have for a bucket what they had.
TrackersSame(b) ==
    /\ Get(slots', b, 0) = Get(slots, b, 0)
    /\ b \in DOMAIN fails' <=> b \in DOMAIN fails
    /\ b \in DOMAIN fails => fails'[b] = fails[b]
    /\ wrong'[b] = wrong[b]

LEMMA BucketKept ==
    ASSUME NEW b \in Clients, BucketAt(b), CountsSame(b), TrackersSame(b), GateTypes,
           gNow' \in Nat, gNow' >= gNow
    PROVE  BucketAt(b)'
<1>1. SlotsAt(b)'
  BY DEF BucketAt, SlotsAt, CountsSame, TrackersSame
<1>2. GuessesAt(b)'
  BY DEF BucketAt, GuessesAt, CountsSame, TrackersSame
<1> QED BY <1>1, <1>2 DEF BucketAt

\* A step of session l leaves the buckets alone that are not its own.
LEMMA OthersKept ==
    ASSUME GateTypes, \A b \in Clients : BucketAt(b), gNow' = gNow,
           NEW l \in Logins, \A q \in Logins : q # l => login'[q] = login[q],
           NEW b \in Clients, TrackersSame(b),
           login[l].b # b \/ Stage(login[l]) = "out",
           login'[l].b # b \/ Stage(login'[l]) = "out"
    PROVE  BucketAt(b)'
<1>1. StageCounts(b, "past", "past")
  BY OtherBucket
<1>2. CountsSame(b)
  BY <1>1, OfFinite DEF StageCounts, CountsSame, Opened, Judged
<1> QED BY <1>2, BucketKept DEF GateTypes

LEMMA SessionMoves ==
    ASSUME LoginTypes, NEW l \in Logins, NEW pc \in Pcs \ {"new"}, login[l].pc \notin {"new", "gone"}, At(l, pc),
           UNCHANGED serverKey, pin' \in [Hosts -> Nat \cup {None}]
    PROVE  /\ LoginTypes'
           /\ \A q \in Logins : q # l => login'[q] = login[q]
           /\ login'[l].pc = pc /\ login'[l].b = login[l].b /\ login'[l].key = login[l].key
           /\ login'[l].counted = login[l].counted /\ login'[l].host = login[l].host
  BY DEF At, LoginTypes, Visits

\* Before a session reads the host's key its credentials go nowhere; afterwards the key and
\* what vouches for it stay.
LEMMA PinsKept ==
    ASSUME CredentialsToPinned, NEW l \in Logins, \A q \in Logins : q # l => login'[q] = login[q],
           \A q \in DOMAIN trusted : q \in DOMAIN trusted' /\ trusted'[q] = trusted[q],
           \/ login'[l].pc \notin {"accepted", "auth", "ready"}
           \/ login[l].pc \in {"accepted", "auth", "ready"} /\ login'[l].key = login[l].key
    PROVE  CredentialsToPinned'
  BY DEF CredentialsToPinned
-----------------------------------------------------------------------------
(***************************************************************************)
(* One lemma per action.                                                   *)
(***************************************************************************)
LEMMA CheckBlockInd ==
    ASSUME GateInd, NEW l \in Logins, NEW b \in Clients, NEW h \in Hosts, CheckBlock(l, b, h)
    PROVE  GateInd'
<1>a. LoginTypes /\ GateTypes /\ CredentialsToPinned
      /\ \A c \in Clients : SlotsAt(c) /\ GuessesAt(c) /\ HostsAt(c)
  BY DEF GateInd
<1>1. /\ login[l].pc = "new"
      /\ UNCHANGED <<gNow, slots, fails, seenHosts, serverKey, pin, wrong, reached, trusted>>
  BY DEF CheckBlock, trackers, gatePast
<1>2. login' = [login EXCEPT ![l] = [login[l] EXCEPT !.pc = "checked", !.b = b, !.host = h,
                                                     !.stored = pin[h]]]
  BY DEF CheckBlock
<1>3. /\ login' \in [Logins -> Visits] /\ \A q \in Logins : q # l => login'[q] = login[q]
      /\ login'[l].pc = "checked" /\ login'[l].b = b /\ login'[l].host = h
  BY <1>a, <1>2, ZenonT(40) DEF LoginTypes, Visits, Pcs
<1>4. LoginTypes'
  BY <1>a, <1>1, <1>3 DEF LoginTypes
<1>5. GateTypes'
  BY <1>a, <1>1 DEF GateTypes
<1>6. CredentialsToPinned'
  BY <1>a, <1>1, <1>3, PinsKept
<1>7. Stage(login[l]) = "out" /\ Stage(login'[l]) = "out"
  BY <1>1, <1>3 DEF Stage
<1>8. ASSUME NEW c \in Clients PROVE BucketAt(c)'
  <2>1. TrackersSame(c)
    BY <1>1 DEF TrackersSame
  <2> QED BY <1>a, <1>1, <1>3, <1>7, <2>1, OthersKept DEF BucketAt
<1>9. \A c \in Clients : HostsAt(c)'
  BY <1>a, <1>1 DEF HostsAt
<1> QED BY <1>4, <1>5, <1>6, <1>8, <1>9 DEF GateInd, BucketAt

\* A session that is gone leaves nothing in its record.
LEMMA SessionLeaves ==
    ASSUME LoginTypes, NEW l \in Logins, login' = [login EXCEPT ![l] = NoSession("gone")],
           UNCHANGED <<serverKey, pin>>
    PROVE  /\ LoginTypes' /\ \A q \in Logins : q # l => login'[q] = login[q]
           /\ login'[l].pc = "gone" /\ Stage(login'[l]) = "out"
<1>1. /\ login' \in [Logins -> Visits] /\ \A q \in Logins : q # l => login'[q] = login[q]
      /\ login'[l].pc = "gone"
  BY DEF LoginTypes, NoSession, Visits, Pcs
<1> QED BY <1>1 DEF LoginTypes, Stage

LEMMA UpgradeInd ==
    ASSUME GateInd, NEW l \in Logins, Upgrade(l)
    PROVE  GateInd'
<1>a. LoginTypes /\ GateTypes /\ CredentialsToPinned
      /\ \A c \in Clients : SlotsAt(c) /\ GuessesAt(c) /\ HostsAt(c)
  BY DEF GateInd
<1>0. PICK b : b = login[l].b
  OBVIOUS
<1>1. /\ login[l].pc = "checked" /\ b \in Clients
      /\ UNCHANGED <<gNow, fails, seenHosts, serverKey, pin, wrong, reached, trusted>>
  BY <1>a, <1>0 DEF Upgrade, gatePast, LoginTypes
<1>2. \A c \in Clients : HostsAt(c)'
  BY <1>a, <1>1 DEF HostsAt
<1>3. CASE ~TryAcquire(b)
  <2>1. slots' = slots /\ login' = [login EXCEPT ![l] = NoSession("gone")]
    BY <1>0, <1>3 DEF Upgrade
  <2>2. /\ LoginTypes' /\ \A q \in Logins : q # l => login'[q] = login[q]
        /\ login'[l].pc = "gone" /\ Stage(login'[l]) = "out"
    BY <1>a, <1>1, <2>1, SessionLeaves
  <2>3. GateTypes'
    BY <1>a, <1>1, <2>1 DEF GateTypes
  <2>4. CredentialsToPinned'
    BY <1>a, <1>1, <2>2, PinsKept
  <2>5. Stage(login[l]) = "out"
    BY <1>1 DEF Stage
  <2>6. ASSUME NEW c \in Clients PROVE BucketAt(c)'
    <3>1. TrackersSame(c)
      BY <1>1, <2>1 DEF TrackersSame
    <3> QED BY <1>a, <1>1, <2>2, <2>5, <3>1, OthersKept DEF BucketAt
  <2> QED BY <1>2, <2>2, <2>3, <2>4, <2>6 DEF GateInd, BucketAt
<1>4. CASE TryAcquire(b)
  <2>1. /\ Get(slots, b, 0) < MaxPerIp /\ At(l, "upgraded")
        /\ slots' = Put(slots, b, Get(slots, b, 0) + 1)
    BY <1>0, <1>4 DEF Upgrade, TryAcquire
  <2>2. /\ LoginTypes' /\ \A q \in Logins : q # l => login'[q] = login[q]
        /\ login'[l].pc = "upgraded" /\ login'[l].b = b
    BY <1>a, <1>0, <1>1, <2>1, SessionMoves DEF Pcs, LoginTypes
  <2>3. Get(slots, b, 0) \in Nat
    BY <1>a DEF Get, GateTypes
  <2>4. GateTypes'
    <3>1. \A c \in DOMAIN slots' : c \in Clients /\ slots'[c] \in 1..MaxPerIp
      BY <1>a, <1>1, <2>1, <2>3, GateAssumption DEF GateTypes, Put
    <3> QED BY <1>a, <1>1, <3>1 DEF GateTypes
  <2>5. CredentialsToPinned'
    BY <1>a, <1>1, <2>2, PinsKept
  <2>6. Stage(login[l]) = "out" /\ Stage(login'[l]) = "ahead"
    BY <1>1, <2>2 DEF Stage
  <2>7. StageCounts(b, "out", "ahead")
    BY <2>2, <2>6, Counting DEF Stages
  <2>8. /\ Num(b, Opened)' = Num(b, Opened) + 1 /\ Num(b, Judged)' = Num(b, Judged)
        /\ Num(b, {"counted"})' = Num(b, {"counted"})
        /\ Num(b, Opened) \in Nat
    BY <2>7, OfFinite DEF StageCounts, Opened, Judged
  <2>9. BucketAt(b)'
    <3>1. SlotsAt(b)'
      BY <1>a, <1>1, <2>1, <2>8 DEF SlotsAt, Get, Put
    <3>2. GuessesAt(b)'
      BY <1>a, <1>1, <2>8 DEF GuessesAt
    <3> QED BY <3>1, <3>2 DEF BucketAt
  <2>10. ASSUME NEW c \in Clients, c # b PROVE BucketAt(c)'
    <3>1. TrackersSame(c)
      BY <1>a, <1>1, <2>1, <2>10 DEF TrackersSame, Get, Put, GateTypes
    <3> QED BY <1>a, <1>0, <1>1, <2>2, <2>10, <3>1, OthersKept DEF BucketAt
  <2> QED BY <1>2, <2>2, <2>4, <2>5, <2>9, <2>10 DEF GateInd, BucketAt
<1> QED BY <1>3, <1>4

\* The guard of a session is dropped: its slot is given back, and nobody else's.
LEMMA EndInd ==
    ASSUME GateInd, NEW l \in Logins, End(l)
    PROVE  GateInd'
<1>a. LoginTypes /\ GateTypes /\ CredentialsToPinned
      /\ \A c \in Clients : SlotsAt(c) /\ GuessesAt(c) /\ HostsAt(c)
  BY DEF GateInd
<1>1. PICK b : b = login[l].b
  OBVIOUS
<1>2. /\ login[l].pc \notin {"new", "checked", "gone"} /\ b \in Clients
      /\ slots' = Released(b) /\ trusted' = Drop(trusted, l)
      /\ login' = [login EXCEPT ![l] = NoSession("gone")]
      /\ UNCHANGED <<gNow, fails, seenHosts, serverKey, pin, wrong, reached>>
  BY <1>a, <1>1 DEF End, Held, LoginTypes, gatePast
<1>3. /\ LoginTypes' /\ \A q \in Logins : q # l => login'[q] = login[q]
      /\ login'[l].pc = "gone" /\ Stage(login'[l]) = "out"
  BY <1>a, <1>2, SessionLeaves
<1>4. PICK s \in Stages : s = Stage(login[l])
  BY DEF Stage, Stages
<1>5. s \in Opened /\ Stage(login'[l]) = "out"
  BY <1>2, <1>3, <1>4 DEF Stage, Opened
<1>6. StageCounts(b, s, "out")
  BY <1>1, <1>3, <1>4, <1>5, Counting DEF Stages, Opened
<1>7. /\ Num(b, Opened)' = Num(b, Opened) - 1 /\ Num(b, Opened) \in Nat
      /\ Num(b, Judged)' = Num(b, Judged) - (IF s \in Judged THEN 1 ELSE 0)
      /\ Num(b, {"counted"})' = Num(b, {"counted"}) - (IF s = "counted" THEN 1 ELSE 0)
      /\ Num(b, Judged) \in Nat /\ Num(b, {"counted"}) \in Nat
  BY <1>5, <1>6, OfFinite DEF StageCounts, Opened, Judged
<1>8. Num(b, Opened) # 0
  <2>1. l \in Of(b, Opened)
    BY <1>1, <1>4, <1>5 DEF Of
  <2> QED BY <2>1, NumZero
<1>9. s \in Judged => Num(b, Judged) # 0
  <2>1. s \in Judged => l \in Of(b, Judged)
    BY <1>1, <1>4 DEF Of
  <2> QED BY <2>1, NumZero
<1>10. b \in DOMAIN slots /\ slots[b] = Num(b, Opened) /\ slots[b] \in 1..MaxPerIp
  BY <1>a, <1>2, <1>8 DEF SlotsAt, Get, GateTypes
<1>11. /\ \A c \in DOMAIN slots' : c \in DOMAIN slots /\ slots'[c] \in 1..MaxPerIp
       /\ \A c \in Clients : c # b => Get(slots', c, 0) = Get(slots, c, 0)
       /\ Get(slots', b, 0) = Num(b, Opened) - 1
  <2>1. Get(slots, b, 0) = Num(b, Opened)
    BY <1>10 DEF Get
  <2>2. CASE Num(b, Opened) = 1
    <3>1. slots' = Drop(slots, b)
      BY <1>2, <1>10, <2>1, <2>2 DEF Released, SatSub
    <3> QED BY <1>a, <2>2, <3>1 DEF Drop, Get, GateTypes
  <2>3. CASE Num(b, Opened) # 1
    <3>1. SatSub(Num(b, Opened), 1) = Num(b, Opened) - 1 /\ Num(b, Opened) - 1 # 0
      BY <1>7, <1>8, <2>3 DEF SatSub
    <3>2. slots' = Put(slots, b, Num(b, Opened) - 1)
      BY <1>2, <1>10, <2>1, <3>1 DEF Released
    <3>3. Num(b, Opened) - 1 \in 1..MaxPerIp
      BY <1>7, <1>8, <1>10, <2>3, GateAssumption
    <3> QED BY <1>a, <1>10, <3>2, <3>3 DEF Put, Get, GateTypes
  <2> QED BY <2>2, <2>3
<1>12. GateTypes'
  BY <1>a, <1>2, <1>11 DEF GateTypes
<1>13. CredentialsToPinned'
  BY <1>a, <1>2, <1>3 DEF CredentialsToPinned, Drop
<1>14. BucketAt(b)'
  <2>1. SlotsAt(b)'
    BY <1>7, <1>11 DEF SlotsAt
  <2>2. wrong[b] \in Nat
    BY <1>a, <1>2 DEF GateTypes
  <2>3. GuessesAt(b)
    BY <1>a, <1>2
  <2>4. GuessesAt(b)'
    <3>1. wrong'[b] + Num(b, {"counted"})' < FailureLimit + MaxPerIp
      BY <1>2, <1>7, <2>2, <2>3, GateAssumption DEF GuessesAt
    <3>2. b \notin DOMAIN fails' => wrong'[b] = 0 /\ Num(b, Judged)' = 0
      BY <1>2, <1>7, <1>9, <2>3 DEF GuessesAt
    <3>3. ASSUME b \in DOMAIN fails', fails'[b].until = 0
          PROVE  /\ fails'[b].count < FailureLimit
                 /\ wrong'[b] + Num(b, Judged)' < fails'[b].count + MaxPerIp
      <4>1. fails[b].count \in Nat
        BY <1>a, <1>2, <3>3 DEF GateTypes
      <4> QED BY <1>2, <1>7, <2>2, <2>3, <3>3, <4>1, GateAssumption DEF GuessesAt
    <3>4. ASSUME b \in DOMAIN fails', fails'[b].until # 0
          PROVE  fails'[b].until > fails'[b].start + FailureWindow
      BY <1>2, <2>3, <3>4 DEF GuessesAt
    <3> QED BY <3>1, <3>2, <3>3, <3>4 DEF GuessesAt
  <2> QED BY <2>1, <2>4 DEF BucketAt
<1>15. ASSUME NEW c \in Clients, c # b PROVE BucketAt(c)'
  <2>1. TrackersSame(c)
    BY <1>2, <1>11, <1>15 DEF TrackersSame
  <2> QED BY <1>a, <1>1, <1>2, <1>3, <1>15, <2>1, OthersKept DEF BucketAt
<1>16. \A c \in Clients : HostsAt(c)'
  BY <1>a, <1>2 DEF HostsAt
<1> QED BY <1>3, <1>12, <1>13, <1>14, <1>15, <1>16 DEF GateInd, BucketAt

\* The hosts of a window: those that were gone on to are among the names.
LEMMA RecordHostInd ==
    ASSUME GateInd, NEW l \in Logins, RecordHost(l)
    PROVE  GateInd'
<1>a. LoginTypes /\ GateTypes /\ CredentialsToPinned
      /\ \A c \in Clients : SlotsAt(c) /\ GuessesAt(c) /\ HostsAt(c)
  BY DEF GateInd
<1>1. PICK b : b = login[l].b
  OBVIOUS
<1>2. PICK h : h = login[l].host
  OBVIOUS
<1>3. PICK s : s = [HostState(b) EXCEPT !.names = HostState(b).names \cup {h}]
  OBVIOUS
<1>4. PICK before : before = IF HostState(b).names = {} THEN {} ELSE reached[b]
  OBVIOUS
<1>5. PICK pc : pc = IF Sprayed(s.names) THEN "spray" ELSE "connect"
  OBVIOUS
<1>6. /\ login[l].pc = "upgraded" /\ b \in Clients /\ h \in Hosts
      /\ seenHosts' = Put(seenHosts, b, s)
      /\ reached' = [reached EXCEPT ![b] = IF Sprayed(s.names) THEN before ELSE before \cup {h}]
      /\ At(l, pc)
      /\ UNCHANGED <<gNow, slots, fails, serverKey, pin, wrong, trusted>>
  BY <1>a, <1>1, <1>2, <1>3, <1>4, <1>5 DEF RecordHost, LoginTypes
<1>7. /\ LoginTypes' /\ \A q \in Logins : q # l => login'[q] = login[q]
      /\ login'[l].pc = pc /\ login'[l].b = b
  BY <1>a, <1>1, <1>5, <1>6, SessionMoves DEF Pcs, LoginTypes
<1>8. /\ HostState(b) = [names |-> HostState(b).names, start |-> HostState(b).start]
      /\ HostState(b).names \subseteq Hosts /\ IsFiniteSet(HostState(b).names)
      /\ HostState(b).start \in Nat
      /\ HostState(b).names # {} => b \in DOMAIN seenHosts /\ HostState(b) = seenHosts[b]
  BY <1>a, FS_EmptySet DEF HostState, GateTypes
<1>9. s = [names |-> HostState(b).names \cup {h}, start |-> HostState(b).start]
  BY <1>3, <1>8
<1>10. s.names \subseteq Hosts /\ IsFiniteSet(s.names) /\ s.start \in Nat
       /\ s = [names |-> s.names, start |-> s.start]
  BY <1>6, <1>8, <1>9, FS_AddElement
<1>11. GateTypes'
  <2>1. \A c \in DOMAIN seenHosts' : /\ c \in Clients
                                     /\ seenHosts'[c] = [names |-> seenHosts'[c].names,
                                                         start |-> seenHosts'[c].start]
                                     /\ seenHosts'[c].names \subseteq Hosts
                                     /\ IsFiniteSet(seenHosts'[c].names)
                                     /\ seenHosts'[c].start \in Nat
    <3> SUFFICES ASSUME NEW c \in DOMAIN seenHosts'
                 PROVE  /\ c \in Clients
                        /\ seenHosts'[c] = [names |-> seenHosts'[c].names,
                                            start |-> seenHosts'[c].start]
                        /\ seenHosts'[c].names \subseteq Hosts
                        /\ IsFiniteSet(seenHosts'[c].names)
                        /\ seenHosts'[c].start \in Nat
      OBVIOUS
    <3>1. CASE c = b
      <4>1. seenHosts'[c] = s
        BY <1>6, <3>1 DEF Put
      <4> QED BY <1>6, <1>10, <3>1, <4>1
    <3>2. CASE c # b
      <4>1. c \in DOMAIN seenHosts /\ seenHosts'[c] = seenHosts[c]
        BY <1>6, <3>2 DEF Put
      <4> QED BY <1>a, <4>1 DEF GateTypes
    <3> QED BY <3>1, <3>2
  <2> QED BY <1>a, <1>6, <2>1 DEF GateTypes
<1>12. CredentialsToPinned'
  BY <1>a, <1>5, <1>6, <1>7, PinsKept
<1>13. Stage(login[l]) = "ahead" /\ Stage(login'[l]) = "ahead"
  BY <1>5, <1>6, <1>7 DEF Stage
<1>14. CountsSame(b)
  <2>1. StageCounts(b, "ahead", "ahead")
    BY <1>1, <1>7, <1>13, Counting DEF Stages
  <2> QED BY <2>1, OfFinite DEF StageCounts, CountsSame, Opened, Judged
<1>15. \A c \in Clients : TrackersSame(c)
  BY <1>6 DEF TrackersSame
<1>16. BucketAt(b)'
  BY <1>a, <1>6, <1>14, <1>15, BucketKept DEF BucketAt, GateTypes
<1>17. ASSUME NEW c \in Clients, c # b PROVE BucketAt(c)'
  BY <1>a, <1>1, <1>6, <1>7, <1>15, <1>17, OthersKept DEF BucketAt
<1>18. HostsAt(b)'
  <2>1. HostsAt(b)
    BY <1>a, <1>6
  <2>2. before \subseteq HostState(b).names /\ before \subseteq reached[b]
    BY <1>4, <1>8, <2>1 DEF HostsAt
  <2>3. IsFiniteSet(reached[b])
    BY <1>a, <2>1, FS_Subset, FS_EmptySet DEF HostsAt, GateTypes
  <2>4. Cardinality(before) <= HostLimit
    <3>1. Cardinality(before) <= Cardinality(reached[b]) /\ Cardinality(before) \in Nat
          /\ Cardinality(reached[b]) \in Nat
      BY <2>2, <2>3, FS_Subset, FS_CardinalityType
    <3> QED BY <2>1, <3>1, GateAssumption DEF HostsAt
  <2>5. ~Sprayed(s.names) => Cardinality(before \cup {h}) <= HostLimit
    <3>1. before \cup {h} \subseteq s.names
      BY <1>9, <2>2
    <3>2. /\ Cardinality(before \cup {h}) <= Cardinality(s.names)
          /\ Cardinality(before \cup {h}) \in Nat /\ Cardinality(s.names) \in Nat
      BY <1>10, <3>1, FS_Subset, FS_CardinalityType
    <3> QED BY <3>2, GateAssumption DEF Sprayed
  <2>6. reached'[b] = IF Sprayed(s.names) THEN before ELSE before \cup {h}
    BY <1>a, <1>6 DEF GateTypes
  <2>7. b \in DOMAIN seenHosts' /\ seenHosts'[b] = s
    BY <1>6 DEF Put
  <2>8. reached'[b] \subseteq s.names
    BY <1>9, <2>2, <2>6
  <2> QED BY <2>4, <2>5, <2>6, <2>7, <2>8 DEF HostsAt
<1>19. ASSUME NEW c \in Clients, c # b PROVE HostsAt(c)'
  <2>1. /\ reached'[c] = reached[c]
        /\ c \in DOMAIN seenHosts' <=> c \in DOMAIN seenHosts
        /\ c \in DOMAIN seenHosts => seenHosts'[c] = seenHosts[c]
    BY <1>a, <1>6, <1>19 DEF Put, GateTypes
  <2> QED BY <1>a, <2>1 DEF HostsAt
<1> QED BY <1>7, <1>11, <1>12, <1>16, <1>17, <1>18, <1>19 DEF GateInd, BucketAt

\* A session before its login that only goes on: no tracker counts it differently.
LEMMA GoesOn ==
    ASSUME GateInd, NEW l \in Logins, Stage(login[l]) = "ahead", Stage(login'[l]) = "ahead",
           login'[l].b = login[l].b, \A q \in Logins : q # l => login'[q] = login[q],
           UNCHANGED <<gNow, slots, fails, seenHosts, wrong, reached>>,
           LoginTypes', CredentialsToPinned'
    PROVE  GateInd'
<1>a. LoginTypes /\ GateTypes
      /\ \A c \in Clients : SlotsAt(c) /\ GuessesAt(c) /\ HostsAt(c)
  BY DEF GateInd
<1>1. PICK b : b = login[l].b
  OBVIOUS
<1>2. StageCounts(b, "ahead", "ahead")
  BY <1>1, Counting DEF Stages
<1>3. CountsSame(b)
  BY <1>2, OfFinite DEF StageCounts, CountsSame, Opened, Judged
<1>4. \A c \in Clients : TrackersSame(c)
  BY DEF TrackersSame
<1>5. b \in Clients => BucketAt(b)'
  BY <1>a, <1>3, <1>4, BucketKept DEF BucketAt, GateTypes
<1>6. ASSUME NEW c \in Clients, c # b PROVE BucketAt(c)'
  BY <1>a, <1>1, <1>4, <1>6, OthersKept DEF BucketAt
<1>7. \A c \in Clients : HostsAt(c)'
  BY <1>a DEF HostsAt
<1>8. GateTypes'
  BY <1>a DEF GateTypes
<1> QED BY <1>5, <1>6, <1>7, <1>8 DEF GateInd, BucketAt

LEMMA HostKeyInd ==
    ASSUME GateInd, NEW l \in Logins, SendHostKey(l) \/ AcceptHostKey(l)
    PROVE  GateInd'
<1>a. LoginTypes /\ CredentialsToPinned
  BY DEF GateInd
<1>1. CASE SendHostKey(l)
  <2>1. /\ login[l].pc = "connect" /\ login[l].host \in Hosts
        /\ login' = [login EXCEPT ![l] = [login[l] EXCEPT !.pc = "hostkey",
                                                          !.key = serverKey[login[l].host]]]
        /\ UNCHANGED <<gNow, slots, fails, seenHosts, serverKey, pin, wrong, reached, trusted>>
    BY <1>a, <1>1 DEF SendHostKey, trackers, gatePast, LoginTypes
  <2>2. /\ login' \in [Logins -> Visits] /\ \A q \in Logins : q # l => login'[q] = login[q]
        /\ login'[l].pc = "hostkey" /\ login'[l].b = login[l].b /\ login'[l].host = login[l].host
    BY <1>a, <2>1 DEF LoginTypes, Visits, Pcs
  <2>3. LoginTypes'
    BY <1>a, <2>1, <2>2 DEF LoginTypes
  <2>4. CredentialsToPinned'
    BY <1>a, <2>1, <2>2, PinsKept
  <2>5. Stage(login[l]) = "ahead" /\ Stage(login'[l]) = "ahead"
    BY <2>1, <2>2 DEF Stage
  <2> QED BY <2>1, <2>2, <2>3, <2>4, <2>5, GoesOn
<1>2. CASE AcceptHostKey(l)
  <2>1. PICK h : h = login[l].host
    OBVIOUS
  <2>2. PICK key : key = IF login[l].stored = None THEN login[l].key ELSE login[l].stored
    OBVIOUS
  <2>3. /\ login[l].pc = "hostkey" /\ h \in Hosts /\ key = login[l].key
        /\ pin' = [pin EXCEPT ![h] = IF login[l].stored = None THEN login[l].key ELSE pin[h]]
        /\ trusted' = Put(trusted, l, key) /\ At(l, "accepted")
        /\ UNCHANGED <<gNow, slots, fails, seenHosts, serverKey, wrong, reached>>
    BY <1>a, <1>2, <2>1, <2>2 DEF AcceptHostKey, trackers, KeyMatches, LoginTypes
  <2>4. pin' \in [Hosts -> Nat \cup {None}]
    BY <1>a, <2>3 DEF LoginTypes, Visits
  <2>5. /\ LoginTypes' /\ \A q \in Logins : q # l => login'[q] = login[q]
        /\ login'[l].pc = "accepted" /\ login'[l].b = login[l].b /\ login'[l].key = login[l].key
    BY <1>a, <2>3, <2>4, SessionMoves DEF Pcs
  <2>6. CredentialsToPinned'
    BY <1>a, <2>3, <2>5 DEF CredentialsToPinned, Put
  <2>7. Stage(login[l]) = "ahead" /\ Stage(login'[l]) = "ahead"
    BY <2>3, <2>5 DEF Stage
  <2> QED BY <2>3, <2>5, <2>6, <2>7, GoesOn
<1> QED BY <1>1, <1>2

Failures == [count : Nat, start : Nat, until : Nat]

\* The entry a step reads from the failure table, and what a new one in its place does to types.
LEMMA FailureEntry ==
    ASSUME GateTypes, NEW b \in Clients
    PROVE  /\ NoFailure \in Failures /\ NoFailure.start = gNow /\ NoFailure.count = 0
           /\ NoFailure.until = 0
           /\ Get(fails, b, NoFailure) \in Failures /\ Get(fails, b, NoFailure).start <= gNow
           /\ b \in DOMAIN fails => Get(fails, b, NoFailure) = fails[b]
           /\ b \notin DOMAIN fails => Get(fails, b, NoFailure) = NoFailure
  BY DEF GateTypes, Get, NoFailure, Failures

LEMMA FailurePut ==
    ASSUME GateTypes, NEW b \in Clients, NEW e \in Failures, e.start <= gNow,
           fails' = Put(fails, b, e), UNCHANGED <<gNow, slots, seenHosts, reached>>,
           wrong' \in [Clients -> Nat]
    PROVE  /\ GateTypes'
           /\ b \in DOMAIN fails' /\ fails'[b] = e
           /\ \A c \in Clients : c # b => /\ c \in DOMAIN fails' <=> c \in DOMAIN fails
                                          /\ c \in DOMAIN fails => fails'[c] = fails[c]
<1>1. /\ DOMAIN fails' = DOMAIN fails \cup {b} /\ fails'[b] = e
      /\ \A c \in DOMAIN fails : c # b => fails'[c] = fails[c]
  BY DEF Put
<1>2. \A c \in DOMAIN fails' : /\ c \in Clients
                               /\ fails'[c] \in [count : Nat, start : Nat, until : Nat]
                               /\ fails'[c].start <= gNow
  BY <1>1 DEF GateTypes, Failures
<1> QED BY <1>1, <1>2 DEF GateTypes

\* The block of record_host(): the session that draws it is out of the race.
LEMMA ApplyBlockInd ==
    ASSUME GateInd, NEW l \in Logins, ApplyBlock(l)
    PROVE  GateInd'
<1>a. LoginTypes /\ GateTypes /\ CredentialsToPinned
      /\ \A c \in Clients : SlotsAt(c) /\ GuessesAt(c) /\ HostsAt(c)
  BY DEF GateInd
<1>1. PICK b : b = login[l].b
  OBVIOUS
<1>2. PICK f : f = Get(fails, b, NoFailure)
  OBVIOUS
<1>3. /\ login[l].pc = "spray" /\ b \in Clients
      /\ fails' = Put(fails, b, [f EXCEPT !.until = gNow + HostBlock])
      /\ At(l, "closing")
      /\ UNCHANGED <<gNow, slots, seenHosts, serverKey, pin, wrong, reached, trusted>>
  BY <1>a, <1>1, <1>2 DEF ApplyBlock, gatePast, LoginTypes
<1>4. /\ LoginTypes' /\ \A q \in Logins : q # l => login'[q] = login[q]
      /\ login'[l].pc = "closing" /\ login'[l].b = b
  BY <1>a, <1>1, <1>3, SessionMoves DEF Pcs, LoginTypes
<1>5. f \in Failures /\ f.start <= gNow /\ gNow \in Nat
      /\ (b \in DOMAIN fails => f = fails[b]) /\ (b \notin DOMAIN fails => f = NoFailure)
  BY <1>a, <1>2, <1>3, FailureEntry DEF GateTypes
<1>6. PICK e : e = [f EXCEPT !.until = gNow + HostBlock]
  OBVIOUS
<1>7. e \in Failures /\ e.start = f.start /\ e.until = gNow + HostBlock /\ e.count = f.count
      /\ e.until # 0 /\ e.until > e.start + FailureWindow
  BY <1>5, <1>6, GateAssumption DEF Failures
<1>8. /\ GateTypes' /\ b \in DOMAIN fails' /\ fails'[b] = e
      /\ \A c \in Clients : c # b => /\ c \in DOMAIN fails' <=> c \in DOMAIN fails
                                     /\ c \in DOMAIN fails => fails'[c] = fails[c]
  <2>1. wrong' \in [Clients -> Nat]
    BY <1>a, <1>3 DEF GateTypes
  <2> QED BY <1>a, <1>3, <1>5, <1>6, <1>7, <2>1, FailurePut
<1>9. CredentialsToPinned'
  BY <1>a, <1>3, <1>4, PinsKept
<1>10. Stage(login[l]) = "ahead" /\ Stage(login'[l]) = "past"
  BY <1>3, <1>4 DEF Stage
<1>11. StageCounts(b, "ahead", "past")
  BY <1>1, <1>4, <1>10, Counting DEF Stages
<1>12. /\ Num(b, Opened)' = Num(b, Opened) /\ Num(b, {"counted"})' = Num(b, {"counted"})
       /\ Num(b, {"counted"}) \in Nat
  BY <1>11, OfFinite DEF StageCounts, Opened
<1>13. BucketAt(b)'
  <2>1. SlotsAt(b)'
    BY <1>a, <1>3, <1>12 DEF SlotsAt
  <2>2. GuessesAt(b)'
    BY <1>a, <1>3, <1>7, <1>8, <1>12 DEF GuessesAt
  <2> QED BY <2>1, <2>2 DEF BucketAt
<1>14. ASSUME NEW c \in Clients, c # b PROVE BucketAt(c)'
  <2>1. TrackersSame(c)
    BY <1>3, <1>8, <1>14 DEF TrackersSame
  <2> QED BY <1>a, <1>1, <1>3, <1>4, <1>14, <2>1, OthersKept DEF BucketAt
<1>15. \A c \in Clients : HostsAt(c)'
  BY <1>a, <1>3 DEF HostsAt
<1> QED BY <1>4, <1>8, <1>9, <1>13, <1>14, <1>15 DEF GateInd, BucketAt

\* A login refused before it counts in a block, or counted: the bound of one pays for the other.
LEMMA AuthRefusedInd ==
    ASSUME GateInd, NEW l \in Logins, AuthRefused(l)
    PROVE  GateInd'
<1>a. LoginTypes /\ GateTypes /\ CredentialsToPinned
      /\ \A c \in Clients : SlotsAt(c) /\ GuessesAt(c) /\ HostsAt(c)
  BY DEF GateInd
<1>1. PICK b : b = login[l].b
  OBVIOUS
<1>2. PICK from : from = IF login[l].counted THEN "counted" ELSE "free"
  OBVIOUS
<1>3. /\ login[l].pc = "auth" /\ b \in Clients /\ At(l, "closing")
      /\ UNCHANGED <<gNow, slots, fails, seenHosts, serverKey, pin, reached, trusted>>
      /\ from = "counted" => wrong' = [wrong EXCEPT ![b] = wrong[b] + 1]
      /\ from = "free" => wrong' = wrong
  BY <1>a, <1>1, <1>2 DEF AuthRefused, trackers, LoginTypes
<1>4. /\ LoginTypes' /\ \A q \in Logins : q # l => login'[q] = login[q]
      /\ login'[l].pc = "closing" /\ login'[l].b = b
  BY <1>a, <1>1, <1>3, SessionMoves DEF Pcs, LoginTypes
<1>5. Stage(login[l]) = from /\ Stage(login'[l]) = "past" /\ from \in {"counted", "free"}
  BY <1>2, <1>3, <1>4 DEF Stage
<1>6. StageCounts(b, from, "past")
  BY <1>1, <1>4, <1>5, Counting DEF Stages
<1>7. /\ Num(b, Opened)' = Num(b, Opened) /\ Num(b, Judged)' = Num(b, Judged) - 1
      /\ Num(b, {"counted"})' = Num(b, {"counted"}) - (IF from = "counted" THEN 1 ELSE 0)
      /\ Num(b, Judged) \in Nat /\ Num(b, {"counted"}) \in Nat
  BY <1>5, <1>6, OfFinite DEF StageCounts, Opened, Judged
<1>8. wrong[b] \in Nat
      /\ wrong' \in [Clients -> Nat]
      /\ wrong'[b] = wrong[b] + (IF from = "counted" THEN 1 ELSE 0)
      /\ \A c \in Clients : c # b => wrong'[c] = wrong[c]
  BY <1>a, <1>3, <1>5 DEF GateTypes
<1>9. GateTypes'
  BY <1>a, <1>3, <1>8 DEF GateTypes
<1>10. CredentialsToPinned'
  BY <1>a, <1>3, <1>4, PinsKept
<1>11. BucketAt(b)'
  <2>1. SlotsAt(b)'
    BY <1>a, <1>3, <1>7 DEF SlotsAt
  <2>2. GuessesAt(b)
    BY <1>a, <1>3
  <2>3. b \in DOMAIN fails
    <3>1. l \in Of(b, Judged)
      BY <1>1, <1>5 DEF Of, Judged
    <3> QED BY <2>2, <3>1, NumZero DEF GuessesAt
  <2>4. fails[b].count \in Nat
    BY <1>a, <2>3 DEF GateTypes
  <2>5. wrong'[b] + Num(b, {"counted"})' < FailureLimit + MaxPerIp
    BY <1>5, <1>7, <1>8, <2>2 DEF GuessesAt
  <2>6. fails[b].until = 0 => wrong'[b] + Num(b, Judged)' < fails[b].count + MaxPerIp
    BY <1>7, <1>8, <2>2, <2>3, <2>4, GateAssumption DEF GuessesAt
  <2>7. GuessesAt(b)'
    BY <1>3, <2>2, <2>3, <2>5, <2>6 DEF GuessesAt
  <2> QED BY <2>1, <2>7 DEF BucketAt
<1>12. ASSUME NEW c \in Clients, c # b PROVE BucketAt(c)'
  <2>1. TrackersSame(c)
    BY <1>3, <1>8, <1>12 DEF TrackersSame
  <2> QED BY <1>a, <1>1, <1>3, <1>4, <1>12, <2>1, OthersKept DEF BucketAt
<1>13. \A c \in Clients : HostsAt(c)'
  BY <1>a, <1>3 DEF HostsAt
<1> QED BY <1>4, <1>9, <1>10, <1>11, <1>12, <1>13 DEF GateInd, BucketAt

\* The count goes back by one when a verdict comes in, so it still covers the others.
LEMMA RefundFailureInd ==
    ASSUME GateInd, NEW l \in Logins, RefundFailure(l)
    PROVE  GateInd'
<1>a. LoginTypes /\ GateTypes /\ CredentialsToPinned
      /\ \A c \in Clients : SlotsAt(c) /\ GuessesAt(c) /\ HostsAt(c)
  BY DEF GateInd
<1>1. PICK b : b = login[l].b
  OBVIOUS
<1>2. PICK from : from = IF login[l].counted THEN "counted" ELSE "free"
  OBVIOUS
<1>3. /\ login[l].pc = "auth" /\ b \in Clients /\ At(l, "ready")
      /\ b \in DOMAIN fails => fails' = [fails EXCEPT ![b].count = SatSub(fails[b].count, 1)]
      /\ UNCHANGED <<gNow, slots, seenHosts, serverKey, pin, wrong, reached, trusted>>
  BY <1>a, <1>1 DEF RefundFailure, gatePast, LoginTypes
<1>4. /\ LoginTypes' /\ \A q \in Logins : q # l => login'[q] = login[q]
      /\ login'[l].pc = "ready" /\ login'[l].b = b /\ login'[l].key = login[l].key
  BY <1>a, <1>1, <1>3, SessionMoves DEF Pcs, LoginTypes
<1>5. Stage(login[l]) = from /\ Stage(login'[l]) = "past" /\ from \in {"counted", "free"}
  BY <1>2, <1>3, <1>4 DEF Stage
<1>6. StageCounts(b, from, "past")
  BY <1>1, <1>4, <1>5, Counting DEF Stages
<1>7. /\ Num(b, Opened)' = Num(b, Opened) /\ Num(b, Judged)' = Num(b, Judged) - 1
      /\ Num(b, {"counted"})' = Num(b, {"counted"}) - (IF from = "counted" THEN 1 ELSE 0)
      /\ Num(b, Judged) \in Nat /\ Num(b, {"counted"}) \in Nat
  BY <1>5, <1>6, OfFinite DEF StageCounts, Opened, Judged
<1>8. b \in DOMAIN fails
  <2>1. l \in Of(b, Judged)
    BY <1>1, <1>5 DEF Of, Judged
  <2> QED BY <1>a, <1>3, <2>1, NumZero DEF GuessesAt
<1>9. /\ fails[b] \in Failures /\ fails[b].start <= gNow
      /\ wrong[b] \in Nat
  BY <1>a, <1>3, <1>8 DEF GateTypes, Failures
<1>10. PICK k : k = SatSub(fails[b].count, 1)
  OBVIOUS
<1>11. k \in Nat /\ k + 1 >= fails[b].count /\ k <= fails[b].count
  BY <1>9, <1>10 DEF SatSub, Failures
<1>12. /\ DOMAIN fails' = DOMAIN fails /\ \A c \in DOMAIN fails : c # b => fails'[c] = fails[c]
       /\ fails'[b] = [fails[b] EXCEPT !.count = k]
  BY <1>3, <1>8, <1>10
<1>13. /\ fails'[b] \in Failures /\ fails'[b].count = k /\ fails'[b].start = fails[b].start
       /\ fails'[b].until = fails[b].until
  BY <1>9, <1>11, <1>12 DEF Failures
<1>14. GateTypes'
  <2>1. \A c \in DOMAIN fails' : /\ c \in Clients
                                 /\ fails'[c] \in [count : Nat, start : Nat, until : Nat]
                                 /\ fails'[c].start <= gNow
    BY <1>a, <1>3, <1>9, <1>12, <1>13 DEF GateTypes, Failures
  <2> QED BY <1>a, <1>3, <2>1 DEF GateTypes
<1>15. CredentialsToPinned'
  BY <1>a, <1>3, <1>4, PinsKept
<1>16. BucketAt(b)'
  <2>1. SlotsAt(b)'
    BY <1>a, <1>3, <1>7 DEF SlotsAt
  <2>2. GuessesAt(b)
    BY <1>a, <1>3
  <2>3. wrong'[b] + Num(b, {"counted"})' < FailureLimit + MaxPerIp
    BY <1>3, <1>7, <1>9, <2>2, GateAssumption DEF GuessesAt
  <2>4. fails[b].until = 0 => k < FailureLimit /\ wrong[b] + Num(b, Judged)' < k + MaxPerIp
    <3>1. fails[b].count \in Nat
      BY <1>9 DEF Failures
    <3> QED BY <1>7, <1>8, <1>9, <1>11, <2>2, <3>1, GateAssumption DEF GuessesAt
  <2>5. GuessesAt(b)'
    BY <1>3, <1>8, <1>12, <1>13, <2>2, <2>3, <2>4 DEF GuessesAt
  <2> QED BY <2>1, <2>5 DEF BucketAt
<1>17. ASSUME NEW c \in Clients, c # b PROVE BucketAt(c)'
  <2>1. TrackersSame(c)
    BY <1>3, <1>12, <1>17 DEF TrackersSame
  <2> QED BY <1>a, <1>1, <1>3, <1>4, <1>17, <2>1, OthersKept DEF BucketAt
<1>18. \A c \in Clients : HostsAt(c)'
  BY <1>a, <1>3 DEF HostsAt
<1> QED BY <1>4, <1>14, <1>15, <1>16, <1>17, <1>18 DEF GateInd, BucketAt

\* The tentative failure.  In a block it is not counted; a window that is over takes its count
\* and the verdicts still out with it; the one that reaches the limit makes the block fall.
LEMMA RecordFailureInd ==
    ASSUME GateInd, NEW l \in Logins, RecordFailure(l)
    PROVE  GateInd'
<1>a. LoginTypes /\ GateTypes /\ CredentialsToPinned
      /\ \A c \in Clients : SlotsAt(c) /\ GuessesAt(c) /\ HostsAt(c)
  BY DEF GateInd
<1>1. PICK b : b = login[l].b
  OBVIOUS
<1>2. PICK free : free = IsBlocked(b)
  OBVIOUS
<1>3. /\ login[l].pc = "accepted" /\ b \in Clients /\ free \in BOOLEAN
      /\ login' = [login EXCEPT ![l] = [login[l] EXCEPT !.pc = "auth", !.counted = ~free]]
      /\ UNCHANGED <<gNow, slots, seenHosts, serverKey, pin, reached, trusted>>
  BY <1>a, <1>1, <1>2 DEF RecordFailure, LoginTypes, IsBlocked
<1>4. /\ login' \in [Logins -> Visits] /\ \A q \in Logins : q # l => login'[q] = login[q]
      /\ login'[l].pc = "auth" /\ login'[l].b = b /\ login'[l].key = login[l].key
      /\ login'[l].host = login[l].host /\ login'[l].counted = ~free
  BY <1>a, <1>1, <1>3, ZenonT(40) DEF LoginTypes, Visits, Pcs
<1>5. LoginTypes'
  BY <1>a, <1>3, <1>4 DEF LoginTypes
<1>6. CredentialsToPinned'
  BY <1>a, <1>3, <1>4, PinsKept
<1>7. PICK to : to = IF free THEN "free" ELSE "counted"
  OBVIOUS
<1>8. Stage(login[l]) = "ahead" /\ Stage(login'[l]) = to /\ to \in {"counted", "free"}
  BY <1>3, <1>4, <1>7 DEF Stage
<1>9. StageCounts(b, "ahead", to)
  BY <1>1, <1>4, <1>8, Counting DEF Stages
<1>10. /\ Num(b, Opened)' = Num(b, Opened) /\ Num(b, Judged)' = Num(b, Judged) + 1
       /\ Num(b, {"counted"})' = Num(b, {"counted"}) + (IF free THEN 0 ELSE 1)
       /\ Num(b, Judged) \in Nat /\ Num(b, {"counted"}) \in Nat
       /\ Num(b, Opened) \in Nat
  BY <1>3, <1>7, <1>9, OfFinite DEF StageCounts, Opened, Judged
<1>11. wrong[b] \in Nat /\ gNow \in Nat \ {0}
  BY <1>a, <1>3 DEF GateTypes
<1>12. SlotsAt(b)'
  BY <1>a, <1>3, <1>10 DEF SlotsAt
<1>13. SlotsAt(b) /\ GuessesAt(b)
  BY <1>a, <1>3
<1>14. \A c \in Clients : HostsAt(c)'
  BY <1>a, <1>3 DEF HostsAt
<1>15. CASE free
  <2>1. IsBlocked(b) /\ fails' = fails /\ wrong' = wrong
    <3>1. IsBlocked(b)
      BY <1>2, <1>15
    <3>2. fails' = fails
      BY <1>1, <3>1 DEF RecordFailure
    <3>3. wrong' = wrong
      BY <1>a, <1>1, <3>1 DEF RecordFailure, GateTypes
    <3> QED BY <3>1, <3>2, <3>3
  <2>2. GateTypes'
    BY <1>a, <1>3, <2>1 DEF GateTypes
  <2>3. b \in DOMAIN fails /\ fails[b].until # 0
    BY <1>a, <1>11, <2>1 DEF IsBlocked, GateTypes
  <2>4. GuessesAt(b)'
    BY <1>10, <1>13, <1>15, <2>1, <2>3 DEF GuessesAt
  <2>6. ASSUME NEW c \in Clients, c # b PROVE BucketAt(c)'
    <3>1. TrackersSame(c)
      BY <1>3, <2>1 DEF TrackersSame
    <3> QED BY <1>a, <1>1, <1>3, <1>4, <2>6, <3>1, OthersKept DEF BucketAt
  <2> QED BY <1>5, <1>6, <1>12, <1>14, <2>2, <2>4, <2>6 DEF GateInd, BucketAt
<1>16. CASE ~free
  <2>1. ~IsBlocked(b)
    BY <1>2, <1>16
  <2>2. PICK f : f = Get(fails, b, NoFailure)
    OBVIOUS
  <2>3. PICK g : g = FailureState(b)
    OBVIOUS
  <2>4. /\ f \in Failures /\ f.start <= gNow
        /\ NoFailure \in Failures /\ NoFailure.start = gNow /\ NoFailure.count = 0
        /\ NoFailure.until = 0
        /\ b \in DOMAIN fails => f = fails[b]
        /\ b \notin DOMAIN fails => f = NoFailure
    BY <1>a, <1>3, <2>2, FailureEntry
  <2>5. g = IF gNow - f.start > FailureWindow THEN NoFailure ELSE f
    BY <2>2, <2>3 DEF FailureState
  <2>6. g \in Failures /\ g.start <= gNow /\ g.start \in Nat /\ g.count \in Nat /\ f.start \in Nat
        /\ f.until \in Nat
    BY <1>11, <2>4, <2>5 DEF Failures
  <2>7. PICK s : s = [g EXCEPT !.count = g.count + 1]
    OBVIOUS
  <2>8. s \in Failures /\ s.count = g.count + 1 /\ s.start = g.start /\ s.until = g.until
    BY <2>6, <2>7 DEF Failures
  <2>9. PICK e : e = IF s.count >= FailureLimit THEN [s EXCEPT !.until = gNow + FailureBlock] ELSE s
    OBVIOUS
  <2>10. /\ e \in Failures /\ e.count = g.count + 1 /\ e.start = g.start
         /\ e.until = IF g.count + 1 >= FailureLimit THEN gNow + FailureBlock ELSE g.until
    BY <1>11, <2>8, <2>9, GateAssumption DEF Failures
  <2>11. /\ fails' = Put(fails, b, e)
         /\ wrong' = [wrong EXCEPT ![b] = IF g # f THEN 0 ELSE wrong[b]]
    <3>1. Counted(b) = e
      BY <2>3, <2>7, <2>9 DEF Counted
    <3> QED BY <1>1, <2>1, <2>2, <2>3, <3>1 DEF RecordFailure
  <2>12. /\ wrong' \in [Clients -> Nat] /\ wrong'[b] = IF g # f THEN 0 ELSE wrong[b]
         /\ \A c \in Clients : c # b => wrong'[c] = wrong[c]
    BY <1>a, <1>3, <2>11 DEF GateTypes
  <2>13. /\ GateTypes' /\ b \in DOMAIN fails' /\ fails'[b] = e
         /\ \A c \in Clients : c # b => /\ c \in DOMAIN fails' <=> c \in DOMAIN fails
                                        /\ c \in DOMAIN fails => fails'[c] = fails[c]
    BY <1>a, <1>3, <2>6, <2>10, <2>11, <2>12, FailurePut
  \* The window is over, or nothing had been counted, or the count goes on.
  <2>14. Num(b, Opened) <= MaxPerIp
    BY <1>a, <1>13, GateAssumption DEF SlotsAt, Get, GateTypes
  <2>15. Num(b, Judged) + 1 <= MaxPerIp
    <3>1. Num(b, Judged)' <= Num(b, Opened)'
      <4>1. Of(b, Judged)' \subseteq Of(b, Opened)'
        BY DEF Of, Judged, Opened
      <4>2. IsFiniteSet(Of(b, Opened)')
        <5>1. Of(b, Opened)' \in SUBSET Logins
          BY DEF Of
        <5> QED BY <5>1, FS_Subset, GateAssumption
      <4> QED BY <4>1, <4>2, FS_Subset DEF Num
    <3> QED BY <1>10, <2>14, <3>1, GateAssumption
  <2>16. Num(b, {"counted"}) <= Num(b, Judged)
    BY NumOrder
  <2>17. /\ wrong'[b] + Num(b, Judged) + 1 < g.count + 1 + MaxPerIp
         /\ g.until = 0 /\ g.count < FailureLimit
    <3>1. CASE b \notin DOMAIN fails
      <4>1. wrong[b] = 0 /\ Num(b, Judged) = 0 /\ g = NoFailure
        BY <1>13, <2>4, <2>5, <3>1 DEF GuessesAt
      <4> QED BY <2>4, <2>12, <4>1, GateAssumption
    <3>2. CASE b \in DOMAIN fails /\ gNow - f.start > FailureWindow
      <4>1. g = NoFailure /\ g # f
        BY <1>11, <2>4, <2>5, <2>6, <3>2, GateAssumption
      <4> QED BY <1>10, <2>4, <2>12, <2>15, <4>1, GateAssumption
    <3>3. CASE b \in DOMAIN fails /\ ~(gNow - f.start > FailureWindow)
      <4>1. g = f /\ f = fails[b]
        BY <2>4, <2>5, <3>3
      <4>2. f.until = 0
        <5>1. ~(gNow < f.until)
          BY <2>1, <3>3, <4>1 DEF IsBlocked
        <5>2. f.until # 0 => f.until > f.start + FailureWindow
          BY <1>13, <3>3, <4>1 DEF GuessesAt
        <5> QED BY <1>11, <2>6, <3>3, <5>1, <5>2, GateAssumption
      <4>3. f.count < FailureLimit /\ wrong[b] + Num(b, Judged) < f.count + MaxPerIp
        BY <1>13, <3>3, <4>1, <4>2 DEF GuessesAt
      <4> QED BY <1>10, <1>11, <2>6, <2>12, <4>1, <4>2, <4>3, GateAssumption
    <3> QED BY <3>1, <3>2, <3>3
  <2>18. wrong'[b] \in Nat
    BY <1>11, <2>12
  <2>19. GuessesAt(b)'
    <3>1. wrong'[b] + Num(b, {"counted"})' < FailureLimit + MaxPerIp
      BY <1>10, <1>16, <2>6, <2>16, <2>17, <2>18, GateAssumption
    <3>2. e.until = 0 => e.count < FailureLimit /\ wrong'[b] + Num(b, Judged)' < e.count + MaxPerIp
      BY <1>10, <1>11, <2>6, <2>10, <2>17, <2>18, GateAssumption
    <3>3. e.until # 0 => e.until > e.start + FailureWindow
      BY <1>11, <2>6, <2>10, <2>17, GateAssumption
    <3> QED BY <2>13, <3>1, <3>2, <3>3 DEF GuessesAt
  <2>21. ASSUME NEW c \in Clients, c # b PROVE BucketAt(c)'
    <3>1. TrackersSame(c)
      BY <1>3, <2>12, <2>13, <2>21 DEF TrackersSame
    <3> QED BY <1>a, <1>1, <1>3, <1>4, <2>21, <3>1, OthersKept DEF BucketAt
  <2> QED BY <1>5, <1>6, <1>12, <1>14, <2>13, <2>19, <2>21 DEF GateInd, BucketAt
<1> QED BY <1>3, <1>15, <1>16

\* The clock and the keys of the hosts concern no session.
LEMMA WorldInd ==
    ASSUME GateInd, (\E h \in Hosts : RotateKey(h)) \/ GateTick \/ UNCHANGED gateVars
    PROVE  GateInd'
<1>a. LoginTypes /\ GateTypes /\ CredentialsToPinned
      /\ \A c \in Clients : SlotsAt(c) /\ GuessesAt(c) /\ HostsAt(c)
  BY DEF GateInd
<1>1. /\ UNCHANGED <<slots, fails, seenHosts, login, pin, wrong, reached, trusted>>
      /\ gNow' \in Nat /\ gNow' >= gNow /\ gNow' <= GateTime
  BY <1>a, GateAssumption DEF RotateKey, GateTick, gateVars, trackers, gatePast, GateTypes
<1>2. serverKey' \in [Hosts -> Nat]
  BY <1>a DEF RotateKey, GateTick, gateVars, LoginTypes
<1>3. LoginTypes' /\ CredentialsToPinned'
  BY <1>a, <1>1, <1>2 DEF LoginTypes, CredentialsToPinned
<1>4. GateTypes'
  BY <1>a, <1>1 DEF GateTypes
<1>5. ASSUME NEW c \in Clients PROVE BucketAt(c)'
  <2>1. CountsSame(c)
    BY <1>1 DEF CountsSame, Num, Of
  <2>2. TrackersSame(c)
    BY <1>1 DEF TrackersSame
  <2> QED BY <1>a, <1>1, <2>1, <2>2, BucketKept DEF BucketAt
<1>6. \A c \in Clients : HostsAt(c)'
  BY <1>a, <1>1 DEF HostsAt
<1> QED BY <1>3, <1>4, <1>5, <1>6 DEF GateInd, BucketAt

LEMMA GateStart == GateInit => GateInd
<1> SUFFICES ASSUME GateInit PROVE GateInd
  OBVIOUS
<1>1. LoginTypes
  BY DEF GateInit, NoSession, LoginTypes, Visits, Pcs
<1>2. GateTypes /\ CredentialsToPinned
  BY GateAssumption DEF GateInit, NoSession, GateTypes, CredentialsToPinned, EmptyMap
<1>3. ASSUME NEW b \in Clients PROVE SlotsAt(b) /\ GuessesAt(b) /\ HostsAt(b)
  <2>1. \A K \in {Opened, Judged, {"counted"}} : Of(b, K) = {} /\ Num(b, K) = 0
    <3>1. \A l \in Logins : Stage(login[l]) = "out"
      BY DEF GateInit, NoSession, Stage
    <3>2. \A K \in {Opened, Judged, {"counted"}} : Of(b, K) = {}
      BY <3>1 DEF Of, Opened, Judged
    <3> QED BY <3>2, NumZero
  <2>2. SlotsAt(b) /\ GuessesAt(b)
    BY <2>1, GateAssumption DEF GateInit, SlotsAt, GuessesAt, Get, EmptyMap
  <2>3. HostsAt(b)
    BY GateAssumption, FS_EmptySet DEF GateInit, HostsAt, EmptyMap
  <2> QED BY <2>2, <2>3
<1> QED BY <1>1, <1>2, <1>3 DEF GateInd

LEMMA GateStep == GateInd /\ [GateNext]_gateVars => GateInd'
<1> SUFFICES ASSUME GateInd, [GateNext]_gateVars PROVE GateInd'
  OBVIOUS
<1>1. CASE \E l \in Logins, b \in Clients, h \in Hosts : CheckBlock(l, b, h)
  BY <1>1, CheckBlockInd
<1>2. ASSUME NEW l \in Logins,
             \/ Upgrade(l) \/ End(l) \/ RecordHost(l) \/ ApplyBlock(l) \/ SendHostKey(l)
             \/ AcceptHostKey(l) \/ RecordFailure(l) \/ AuthRefused(l) \/ RefundFailure(l)
      PROVE  GateInd'
  BY <1>2, UpgradeInd, EndInd, RecordHostInd, ApplyBlockInd, HostKeyInd, RecordFailureInd, AuthRefusedInd,
     RefundFailureInd
<1>3. CASE (\E h \in Hosts : RotateKey(h)) \/ GateTick \/ UNCHANGED gateVars
  BY <1>3, WorldInd
<1> QED BY <1>1, <1>2, <1>3 DEF GateNext

-----------------------------------------------------------------------------
(***************************************************************************)
(* Guesses in a block.                                                     *)
(***************************************************************************)
\* A session refused or waiting for a verdict that was not counted was past the check when
\* the last block fell; so was, while a block is on, every session past the check.
LateAt(b) ==
    /\ late[b] \subseteq through[b]
    /\ Of(b, {"free"}) \subseteq through[b]
    /\ IsBlocked(b) => Passed(b) \subseteq through[b]
LateInd ==
    /\ through \in [Clients -> SUBSET Logins] /\ late \in [Clients -> SUBSET Logins]
    /\ \A b \in Clients : LateAt(b)

\* A step without a fall: nobody but an unblocked bucket's session passes the check, and only a
\* session of a blocked one becomes free.
LEMMA LateKept ==
    ASSUME LateInd, NEW l \in Logins, \A q \in Logins : q # l => login'[q] = login[q],
           UNCHANGED <<through, late>>,
           \A b \in Clients : /\ IsBlocked(b)' => IsBlocked(b)
                              /\ l \in Passed(b)' => l \in Passed(b) \/ ~IsBlocked(b)
                              /\ l \in Of(b, {"free"})' =>
                                   l \in Of(b, {"free"}) \/ (l \in Passed(b) /\ IsBlocked(b))
    PROVE  LateInd'
<1> SUFFICES ASSUME NEW b \in Clients PROVE LateAt(b)'
  BY DEF LateInd
<1>1. LateAt(b)
  BY DEF LateInd
<1>2. Of(b, {"free"})' \ {l} \subseteq Of(b, {"free"}) /\ Passed(b)' \ {l} \subseteq Passed(b)
  BY DEF Of, Passed
<1>3. Of(b, {"free"})' \subseteq through[b]
  BY <1>1, <1>2 DEF LateAt
<1>4. IsBlocked(b)' => Passed(b)' \subseteq through[b]
  BY <1>1, <1>2 DEF LateAt
<1> QED BY <1>1, <1>3, <1>4 DEF LateAt

\* A session moves on in its bucket.
LEMMA LateMoves ==
    ASSUME LoginTypes, LateInd, NEW l \in Logins, NEW pc \in Pcs \ {"new", "auth"},
           login[l].pc \notin {"new", "gone"}, At(l, pc), UNCHANGED <<gNow, through, late>>,
           \A b \in Clients : IsBlocked(b)' => IsBlocked(b)
    PROVE  LateInd'
<1>1. /\ \A q \in Logins : q # l => login'[q] = login[q]
      /\ login'[l].pc = pc /\ login'[l].b = login[l].b
  BY DEF At, LoginTypes, Visits
<1>2. \A b \in Clients : /\ l \in Passed(b)' => l \in Passed(b)
                         /\ l \notin Of(b, {"free"})'
  BY <1>1 DEF Passed, Of, Stage
<1> QED BY <1>1, <1>2, LateKept

\* The step that may make the block of bucket b fall.
LEMMA LateFalls ==
    ASSUME LoginTypes, LateInd, NEW l \in Logins, NEW b \in Clients, NoteFall(b),
           login[l].b = b, login[l].pc \notin {"new", "gone"},
           \A q \in Logins : q # l => login'[q] = login[q],
           login'[l].b = b, login'[l].pc \notin {"new", "gone"},
           \A c \in Clients : c # b => (IsBlocked(c)' => IsBlocked(c)),
           Stage(login'[l]) = "free" => IsBlocked(b)
    PROVE  LateInd'
<1>1. \A c \in Clients : /\ Passed(c)' = Passed(c)
                         /\ Of(c, {"free"})' \subseteq Of(c, {"free"}) \cup (IF c = b /\ IsBlocked(b) THEN {l} ELSE {})
  BY DEF Passed, Of
<1>2. l \in Passed(b)
  BY DEF Passed
<1>3. Of(b, {"free"}) \subseteq Passed(b) /\ Of(b, {"free"})' \subseteq Passed(b)
  <2>1. Of(b, {"free"}) \subseteq Passed(b) /\ Of(b, {"free"})' \subseteq Passed(b)'
    BY DEF Of, Passed, Stage
  <2> QED BY <1>1, <2>1
<1>4. CASE ~IsBlocked(b) /\ IsBlocked(b)'
  <2>1. through' = [through EXCEPT ![b] = Passed(b)] /\ late' = [late EXCEPT ![b] = {}]
    BY <1>4 DEF NoteFall
  <2>2. Passed(b) \in SUBSET Logins
    BY DEF Passed
  <2>3. /\ through' \in [Clients -> SUBSET Logins] /\ late' \in [Clients -> SUBSET Logins]
        /\ through'[b] = Passed(b) /\ late'[b] = {}
        /\ \A c \in Clients : c # b => through'[c] = through[c] /\ late'[c] = late[c]
    BY <2>1, <2>2 DEF LateInd
  <2>4. ASSUME NEW c \in Clients PROVE LateAt(c)'
    <3>1. CASE c = b
      BY <1>1, <1>3, <2>3, <3>1 DEF LateAt
    <3>2. CASE c # b
      <4>1. LateAt(c) /\ Of(c, {"free"})' \subseteq Of(c, {"free"}) /\ Passed(c)' = Passed(c)
        BY <1>1, <3>2 DEF LateInd
      <4> QED BY <2>3, <3>2, <4>1 DEF LateAt
    <3> QED BY <3>1, <3>2
  <2> QED BY <2>3, <2>4 DEF LateInd
<1>5. CASE ~(~IsBlocked(b) /\ IsBlocked(b)')
  <2>1. through' = through /\ late' = late
    BY <1>5 DEF NoteFall
  <2>2. \A c \in Clients : IsBlocked(c)' => IsBlocked(c)
    BY <1>5
  <2>3. \A c \in Clients : l \in Of(c, {"free"})' => l \in Of(c, {"free"}) \/ (l \in Passed(c) /\ IsBlocked(c))
    BY <1>1, <1>2
  <2> QED BY <1>1, <2>1, <2>2, <2>3, LateKept
<1> QED BY <1>4, <1>5

LEMMA LateStart == GateInit => LateInd
<1> SUFFICES ASSUME GateInit PROVE LateInd
  OBVIOUS
<1>1. \A b \in Clients : Of(b, {"free"}) = {} /\ Passed(b) = {}
  BY DEF GateInit, NoSession, Of, Passed, Stage
<1> QED BY <1>1 DEF GateInit, LateInd, LateAt

LEMMA LateStep == GateInd /\ LateInd /\ [GateNext]_gateVars => LateInd'
<1> SUFFICES ASSUME GateInd, LateInd, [GateNext]_gateVars PROVE LateInd'
  OBVIOUS
<1>a. LoginTypes /\ GateTypes
  BY DEF GateInd
<1>1. ASSUME NEW l \in Logins, NEW b \in Clients, NEW h \in Hosts, CheckBlock(l, b, h)
      PROVE  LateInd'
  <2>1. /\ login[l].pc = "new" /\ ~IsBlocked(b)
        /\ UNCHANGED <<gNow, fails, through, late>>
    BY <1>1 DEF CheckBlock, Admits, trackers, gatePast
  <2>2. login' = [login EXCEPT ![l] = [login[l] EXCEPT !.pc = "checked", !.b = b, !.host = h,
                                                       !.stored = pin[h]]]
    BY <1>1 DEF CheckBlock
  <2>3. /\ \A q \in Logins : q # l => login'[q] = login[q]
        /\ login'[l].pc = "checked" /\ login'[l].b = b
    BY <1>a, <2>2, ZenonT(40) DEF LoginTypes, Visits
  <2>4. \A c \in Clients : /\ IsBlocked(c)' => IsBlocked(c)
                           /\ l \in Passed(c)' => ~IsBlocked(c)
                           /\ l \notin Of(c, {"free"})'
    BY <2>1, <2>3 DEF IsBlocked, Passed, Of, Stage
  <2> QED BY <2>1, <2>3, <2>4, LateKept
<1>2. ASSUME NEW l \in Logins, End(l) \/ Upgrade(l) PROVE LateInd'
  <2>1. UNCHANGED <<gNow, fails, through, late>> /\ login[l].pc \notin {"new", "gone"}
    BY <1>2 DEF End, Upgrade, Held, gatePast
  <2>2. \A c \in Clients : IsBlocked(c)' => IsBlocked(c)
    BY <2>1 DEF IsBlocked
  <2>3. login' = [login EXCEPT ![l] = NoSession("gone")] \/ At(l, "upgraded")
    BY <1>2 DEF End, Upgrade
  <2>4. CASE login' = [login EXCEPT ![l] = NoSession("gone")]
    <3>1. /\ \A q \in Logins : q # l => login'[q] = login[q]
          /\ login'[l].pc = "gone"
      BY <1>a, <2>4 DEF LoginTypes, NoSession
    <3>2. \A c \in Clients : l \notin Passed(c)' /\ l \notin Of(c, {"free"})'
      BY <3>1 DEF Passed, Of, Stage
    <3> QED BY <2>1, <2>2, <3>1, <3>2, LateKept
  <2>5. CASE At(l, "upgraded")
    BY <1>a, <2>1, <2>2, <2>5, LateMoves DEF Pcs
  <2> QED BY <2>3, <2>4, <2>5
<1>3. ASSUME NEW l \in Logins, RecordHost(l) PROVE LateInd'
  <2>1. PICK pc \in {"spray", "connect"} : At(l, pc)
    BY <1>3 DEF RecordHost
  <2>2. UNCHANGED <<gNow, fails, through, late>> /\ login[l].pc = "upgraded"
    BY <1>3 DEF RecordHost
  <2>3. \A c \in Clients : IsBlocked(c)' => IsBlocked(c)
    BY <2>2 DEF IsBlocked
  <2> QED BY <1>a, <2>1, <2>2, <2>3, LateMoves DEF Pcs
<1>4. ASSUME NEW l \in Logins, AcceptHostKey(l) PROVE LateInd'
  <2>1. UNCHANGED <<gNow, fails, through, late>> /\ login[l].pc = "hostkey" /\ At(l, "accepted")
    BY <1>4 DEF AcceptHostKey, trackers
  <2>2. \A c \in Clients : IsBlocked(c)' => IsBlocked(c)
    BY <2>1 DEF IsBlocked
  <2> QED BY <1>a, <2>1, <2>2, LateMoves DEF Pcs
<1>5. ASSUME NEW l \in Logins, SendHostKey(l) PROVE LateInd'
  <2>1. /\ UNCHANGED <<gNow, fails, through, late>> /\ login[l].pc = "connect"
        /\ login' = [login EXCEPT ![l] = [login[l] EXCEPT !.pc = "hostkey",
                                                          !.key = serverKey[login[l].host]]]
    BY <1>5 DEF SendHostKey, trackers, gatePast
  <2>2. /\ \A q \in Logins : q # l => login'[q] = login[q]
        /\ login'[l].pc = "hostkey" /\ login'[l].b = login[l].b
    BY <1>a, <2>1 DEF LoginTypes, Visits
  <2>3. \A c \in Clients : /\ IsBlocked(c)' => IsBlocked(c)
                           /\ l \in Passed(c)' => l \in Passed(c)
                           /\ l \notin Of(c, {"free"})'
    BY <2>1, <2>2 DEF IsBlocked, Passed, Of, Stage
  <2> QED BY <2>1, <2>2, <2>3, LateKept
<1>6. ASSUME NEW l \in Logins, ApplyBlock(l) PROVE LateInd'
  <2>1. PICK b : b = login[l].b
    OBVIOUS
  <2>2. PICK e : e = [Get(fails, b, NoFailure) EXCEPT !.until = gNow + HostBlock]
    OBVIOUS
  <2>3. /\ login[l].pc = "spray" /\ b \in Clients /\ NoteFall(b) /\ At(l, "closing")
        /\ fails' = Put(fails, b, e) /\ gNow' = gNow
    BY <1>6, <1>a, <2>1, <2>2 DEF ApplyBlock, LoginTypes
  <2>4. /\ \A q \in Logins : q # l => login'[q] = login[q]
        /\ login'[l].pc = "closing" /\ login'[l].b = b
    BY <1>a, <2>1, <2>3 DEF At, LoginTypes, Visits
  <2>5. \A c \in Clients : c # b => (IsBlocked(c)' => IsBlocked(c))
    BY <2>3 DEF IsBlocked, Put
  <2>6. Stage(login'[l]) = "past"
    BY <2>4 DEF Stage
  <2> QED BY <1>a, <2>1, <2>3, <2>4, <2>5, <2>6, LateFalls
<1>7. ASSUME NEW l \in Logins, RecordFailure(l) PROVE LateInd'
  <2>1. PICK b : b = login[l].b
    OBVIOUS
  <2>2. PICK free : free = IsBlocked(b)
    OBVIOUS
  <2>3. /\ login[l].pc = "accepted" /\ b \in Clients /\ NoteFall(b) /\ free \in BOOLEAN
        /\ login' = [login EXCEPT ![l] = [login[l] EXCEPT !.pc = "auth", !.counted = ~free]]
        /\ gNow' = gNow /\ (fails' = fails \/ fails' = Put(fails, b, Counted(b)))
    <3>1. /\ login[l].pc = "accepted" /\ gNow' = gNow /\ NoteFall(b)
          /\ fails' = fails \/ fails' = Put(fails, b, Counted(b))
      BY <1>7, <2>1 DEF RecordFailure
    <3>2. free \in BOOLEAN
      BY <2>2 DEF IsBlocked
    <3>3. login' = [login EXCEPT ![l] = [login[l] EXCEPT !.pc = "auth", !.counted = ~free]]
      BY <1>7, <2>1, <2>2 DEF RecordFailure
    <3> QED BY <1>a, <2>1, <3>1, <3>2, <3>3 DEF LoginTypes
  <2>4. /\ \A q \in Logins : q # l => login'[q] = login[q]
        /\ login'[l].pc = "auth" /\ login'[l].b = b /\ login'[l].counted = ~free
    BY <1>a, <2>1, <2>3, ZenonT(40) DEF LoginTypes, Visits
  <2>5. \A c \in Clients : c # b => (IsBlocked(c)' => IsBlocked(c))
    BY <2>3 DEF IsBlocked, Put
  <2>6. Stage(login'[l]) = "free" => IsBlocked(b)
    BY <2>2, <2>4 DEF Stage
  <2> QED BY <1>a, <2>1, <2>3, <2>4, <2>5, <2>6, LateFalls
<1>8. ASSUME NEW l \in Logins, RefundFailure(l) PROVE LateInd'
  <2>1. UNCHANGED <<gNow, through, late>> /\ login[l].pc = "auth" /\ At(l, "ready")
    BY <1>8 DEF RefundFailure, gatePast
  <2>2. \A c \in DOMAIN fails' : c \in DOMAIN fails /\ fails'[c].until = fails[c].until
    BY <1>8, <1>a DEF RefundFailure, GateTypes
  <2>3. \A c \in Clients : IsBlocked(c)' => IsBlocked(c)
    BY <2>1, <2>2 DEF IsBlocked
  <2> QED BY <1>a, <2>1, <2>3, LateMoves DEF Pcs
<1>9. ASSUME NEW l \in Logins, AuthRefused(l) PROVE LateInd'
  <2>1. PICK b : b = login[l].b
    OBVIOUS
  <2>2. /\ UNCHANGED <<gNow, fails, through>> /\ login[l].pc = "auth" /\ At(l, "closing")
        /\ b \in Clients
        /\ login[l].counted => late' = late
        /\ ~login[l].counted => late' = [late EXCEPT ![b] = late[b] \cup {l}]
    BY <1>9, <1>a, <2>1 DEF AuthRefused, trackers, LoginTypes
  <2>3. \A c \in Clients : IsBlocked(c)' => IsBlocked(c)
    BY <2>2 DEF IsBlocked
  <2>4. CASE login[l].counted
    BY <1>a, <2>2, <2>3, <2>4, LateMoves DEF Pcs
  <2>5. CASE ~login[l].counted
    <3>1. l \in Of(b, {"free"})
      BY <2>1, <2>2, <2>5 DEF Of, Stage
    <3>2. l \in through[b]
      BY <2>2, <3>1 DEF LateInd, LateAt
    <3>3. /\ late' \in [Clients -> SUBSET Logins] /\ late'[b] = late[b] \cup {l}
          /\ \A c \in Clients : c # b => late'[c] = late[c]
      BY <2>2, <2>5 DEF LateInd
    <3>4. /\ \A q \in Logins : q # l => login'[q] = login[q]
          /\ login'[l].pc = "closing" /\ login'[l].b = b
      BY <1>a, <2>1, <2>2 DEF At, LoginTypes, Visits
    <3>5. \A c \in Clients : Passed(c)' = Passed(c) /\ Of(c, {"free"})' \subseteq Of(c, {"free"})
      BY <2>1, <2>2, <3>4 DEF Passed, Of, Stage
    <3>6. ASSUME NEW c \in Clients PROVE LateAt(c)'
      <4>1. LateAt(c) /\ late'[c] \subseteq through[c]
        BY <3>2, <3>3 DEF LateInd, LateAt
      <4> QED BY <2>2, <2>3, <3>5, <4>1 DEF LateAt
    <3> QED BY <2>2, <3>3, <3>6 DEF LateInd
  <2> QED BY <2>4, <2>5
<1>10. CASE (\E h \in Hosts : RotateKey(h)) \/ GateTick \/ UNCHANGED gateVars
  <2>1. UNCHANGED <<login, fails, through, late>> /\ gNow' \in Nat /\ gNow' >= gNow
    BY <1>a, <1>10, GateAssumption DEF RotateKey, GateTick, gateVars, trackers, gatePast, GateTypes
  <2>2. \A c \in Clients : IsBlocked(c)' => IsBlocked(c)
    BY <1>a, <2>1 DEF IsBlocked, GateTypes
  <2>3. \A c \in Clients : Passed(c)' = Passed(c) /\ Of(c, {"free"})' = Of(c, {"free"})
    BY <2>1 DEF Passed, Of
  <2> QED BY <2>1, <2>2, <2>3 DEF LateInd, LateAt
<1> QED BY <1>1, <1>2, <1>3, <1>4, <1>5, <1>6, <1>7, <1>8, <1>9, <1>10 DEF GateNext

LEMMA GateHolds == GateInd /\ LateInd => GateInv
<1> SUFFICES ASSUME GateInd, LateInd PROVE GateInv
  OBVIOUS
<1>a. LoginTypes /\ GateTypes /\ CredentialsToPinned
      /\ \A c \in Clients : SlotsAt(c) /\ GuessesAt(c) /\ HostsAt(c)
  BY DEF GateInd
<1>1. GateTypeOK
  BY <1>a, GateAssumption DEF GateTypes, GateTypeOK
<1>2. GateSlotsExact
  <2> SUFFICES ASSUME NEW b \in Clients
               PROVE  Get(slots, b, 0) = Cardinality({l \in Held : login[l].b = b})
    BY DEF GateSlotsExact
  <2>1. Of(b, Opened) = {l \in Held : login[l].b = b}
    BY DEF Of, Held, Stage, Opened
  <2> QED BY <1>a, <2>1 DEF SlotsAt, Num
<1>3. GuessesBounded
  <2> SUFFICES ASSUME NEW b \in Clients
               PROVE  wrong[b] < FailureLimit + MaxPerIp /\ late[b] \subseteq through[b]
    BY DEF GuessesBounded
  <2>1. wrong[b] \in Nat /\ Num(b, {"counted"}) \in Nat
    BY <1>a, OfFinite DEF GateTypes
  <2>2. wrong[b] < FailureLimit + MaxPerIp
    BY <1>a, <2>1, GateAssumption DEF GuessesAt
  <2> QED BY <2>2 DEF LateInd, LateAt
<1>4. HostsBounded
  BY <1>a DEF HostsAt, HostsBounded
<1> QED BY <1>a, <1>1, <1>2, <1>3, <1>4 DEF GateInv

\* What the gate of the SFTP endpoint promises holds for any numbers of clients, hosts and
\* sessions and for any limits whose blocks outlast the failure window: slots are given back
\* exactly once, wrong guesses in a window and hosts per address stay bounded, guesses in a
\* block come only from sessions that were past the check, read once and before the slot is
\* taken, when the block fell, and credentials go to no server but the pinned one (ws_handler,
\* record_host, record_failure, refund_failure, SftpConnectionGuard, handshake).
THEOREM GateKept == GateSpec => []GateInv
<1>1. GateInd /\ LateInd /\ [GateNext]_gateVars => GateInd' /\ LateInd'
  BY GateStep, LateStep
<1>2. GateInit => GateInd /\ LateInd
  BY GateStart, LateStart
<1> QED BY <1>1, <1>2, GateHolds, PTL DEF GateSpec
-----------------------------------------------------------------------------
LEMMA SeqFacts ==
    ASSUME NEW S, NEW q \in Seq(S)
    PROVE  Len(q) \in Nat /\ (q = <<>> <=> Len(q) = 0) /\ \A n \in 1..Len(q) : q[n] \in S
<1>1. q = <<>> => Len(q) = 0
  OBVIOUS
<1>2. Len(q) = 0 => q = <<>>
  OBVIOUS
<1> QED BY <1>1, <1>2

LEMMA TailFacts ==
    ASSUME NEW S, NEW q \in Seq(S), q # <<>>
    PROVE  /\ Tail(q) \in Seq(S) /\ Len(Tail(q)) = Len(q) - 1 /\ Head(q) = q[1] /\ q[1] \in S
           /\ \A n \in 1..(Len(q) - 1) : Tail(q)[n] = q[n + 1]
<1>1. Len(q) \in Nat \ {0}
  BY SeqFacts
<1> QED BY <1>1

LEMMA ShortSeq ==
    ASSUME NEW S, NEW z, z \in Seq(S), Len(z) <= 1
    PROVE  Len(z) <= 2 /\ Len(z) # 2 /\ (z # <<>> => Len(z) = 1)
<1>1. PICK k \in Nat : k = Len(z)
  BY SeqFacts
<1>2. k <= 2 /\ k # 2 /\ (k = 0 \/ k = 1)
  BY <1>1
<1> QED BY <1>1, <1>2, SeqFacts

LEMMA OneSeq ==
    ASSUME NEW S, NEW q, q \in Seq(S), Len(q) = 1
    PROVE  q # <<>> /\ q[1] \in S
BY SeqFacts

LEMMA ShortTail ==
    ASSUME NEW S, NEW q, q \in Seq(S), q # <<>>, Len(q) <= 2
    PROVE  /\ Tail(q) \in Seq(S) /\ Len(Tail(q)) <= 1 /\ Len(Tail(q)) \in Nat
           /\ Len(Tail(q)) = 1 => Len(q) = 2 /\ Tail(q)[1] = q[2]
           /\ Len(q) = 1 => Tail(q) = <<>>
<1>1. PICK k \in Nat : k = Len(q) /\ k # 0
  BY SeqFacts
<1>2. /\ Tail(q) \in Seq(S) /\ Len(Tail(q)) = k - 1
      /\ \A n \in 1..(k - 1) : Tail(q)[n] = q[n + 1]
  BY <1>1, TailFacts
<1>3. k - 1 \in Nat /\ k - 1 <= 1 /\ (k - 1 = 1 => k = 2)
  BY <1>1
<1>4. k = 2 => Tail(q)[1] = q[2]
  <2> SUFFICES ASSUME k = 2 PROVE Tail(q)[1] = q[2]
    OBVIOUS
  <2>1. 1 \in 1..(k - 1) /\ 1 + 1 = 2
    OBVIOUS
  <2>2. Tail(q)[1] = q[1 + 1]
    BY <1>2, <2>1
  <2> QED BY <2>1, <2>2
<1>5. k = 1 => Tail(q) = <<>>
  BY <1>2, SeqFacts
<1> QED BY <1>1, <1>2, <1>3, <1>4, <1>5
-----------------------------------------------------------------------------
(* Sums over a finite set of keys.                                         *)
Some(s) == CHOOSE x \in s : TRUE
IsSum(it, D, v) ==
    it = [s \in SUBSET D |-> IF s = {} THEN 0 ELSE v[Some(s)] + it[s \ {Some(s)}]]

LEMMA SomeIn == ASSUME NEW s, s # {} PROVE Some(s) \in s
BY DEF Some

\* A part of a finite set without one of its elements is smaller.
LEMMA Smaller ==
    ASSUME NEW D, IsFiniteSet(D), NEW s \in SUBSET D, NEW x \in s
    PROVE  /\ Cardinality(s) \in Nat /\ Cardinality(s \ {x}) \in Nat
           /\ Cardinality(s) = Cardinality(s \ {x}) + 1 /\ s \ {x} \in SUBSET D
<1>1. IsFiniteSet(s)
  BY FS_Subset
<1>2. Cardinality(s) \in Nat
  BY <1>1, FS_CardinalityType
<1>3. IsFiniteSet(s \ {x}) /\ Cardinality(s \ {x}) = Cardinality(s) - 1
  BY <1>1, FS_RemoveElement
<1>4. Cardinality(s \ {x}) \in Nat
  BY <1>3, FS_CardinalityType
<1> QED BY <1>2, <1>3, <1>4

LEMMA EmptyOnly ==
    ASSUME NEW D, IsFiniteSet(D), NEW s \in SUBSET D, Cardinality(s) <= 0
    PROVE  s = {}
<1>1. IsFiniteSet(s) /\ Cardinality(s) \in Nat
  BY FS_Subset, FS_CardinalityType
<1>2. Cardinality(s) = 0
  BY <1>1
<1> QED BY <1>1, <1>2, FS_EmptySet

\* An equation that determines the sums of the smaller parts determines them all.
LEMMA SumExists ==
    ASSUME NEW D, IsFiniteSet(D), NEW v \in [D -> Nat]
    PROVE  \E it : IsSum(it, D, v)
<1> DEFINE Adds(f, s) == IF s = {} THEN 0 ELSE v[Some(s)] + f[s \ {Some(s)}]
           Part(f, k) == /\ f \in [SUBSET D -> Nat]
                         /\ \A s \in SUBSET D : Cardinality(s) <= k => f[s] = Adds(f, s)
           P == {k \in Nat : \E f : Part(f, k)}
<1>1. 0 \in P
  <2>1. PICK f : f = [s \in SUBSET D |-> 0]
    OBVIOUS
  <2>2. ASSUME NEW s \in SUBSET D, Cardinality(s) <= 0 PROVE f[s] = Adds(f, s)
    <3>1. s = {}
      BY <2>2, EmptyOnly
    <3> QED BY <2>1, <3>1
  <2>3. Part(f, 0)
    BY <2>1, <2>2
  <2> QED BY <2>3
<1>2. ASSUME NEW k \in P PROVE k + 1 \in P
  <2>0. k \in Nat
    OBVIOUS
  <2>1. PICK f : Part(f, k)
    OBVIOUS
  <2>2. ASSUME NEW s \in SUBSET D PROVE Adds(f, s) \in Nat
    <3>1. CASE s = {}
      BY <3>1
    <3>2. CASE s # {}
      <4>1. Some(s) \in s
        BY <3>2, SomeIn
      <4>2. v[Some(s)] \in Nat /\ s \ {Some(s)} \in SUBSET D
        BY <4>1
      <4>3. f[s \ {Some(s)}] \in Nat
        BY <2>1, <4>2
      <4> QED BY <3>2, <4>2, <4>3
    <3> QED BY <3>1, <3>2
  <2>3. PICK g : g = [s \in SUBSET D |-> IF Cardinality(s) <= k THEN f[s] ELSE Adds(f, s)]
    OBVIOUS
  <2>4. g \in [SUBSET D -> Nat]
    BY <2>1, <2>2, <2>3
  <2>5. ASSUME NEW s \in SUBSET D, Cardinality(s) <= k + 1 PROVE g[s] = Adds(g, s)
    <3>1. g[s] = Adds(f, s)
      BY <2>1, <2>3
    <3>2. CASE s = {}
      BY <3>1, <3>2
    <3>3. CASE s # {}
      <4>1. PICK x \in s : x = Some(s)
        BY <3>3, SomeIn
      <4>2. Cardinality(s \ {x}) <= k /\ s \ {x} \in SUBSET D
        BY <2>0, <2>5, Smaller
      <4>3. g[s \ {x}] = f[s \ {x}]
        BY <2>3, <4>2
      <4> QED BY <3>1, <3>3, <4>1, <4>3
    <3> QED BY <3>2, <3>3
  <2>6. \E h : Part(h, k + 1)
    BY <2>4, <2>5
  <2>7. k + 1 \in Nat
    BY <2>0
  <2> HIDE DEF Part
  <2> QED BY <2>6, <2>7
<1>3. P = Nat
  <2> HIDE DEF P
  <2>1. P \in SUBSET Nat
    BY DEF P
  <2> QED BY <1>1, <1>2, <2>1, SetInduction
<1>4. Cardinality(D) \in Nat
  BY FS_CardinalityType
<1>5. PICK f : Part(f, Cardinality(D))
  BY <1>3, <1>4
<1>6. ASSUME NEW s \in SUBSET D PROVE f[s] = Adds(f, s)
  <2>1. Cardinality(s) <= Cardinality(D)
    BY FS_Subset
  <2> QED BY <1>5, <2>1
<1>7. f = [s \in SUBSET D |-> Adds(f, s)]
  BY <1>5, <1>6
<1> QED BY <1>7 DEF IsSum

LEMMA SumAt ==
    ASSUME NEW D, NEW v, NEW it, IsSum(it, D, v)
    PROVE  /\ it[{}] = 0
           /\ \A s \in SUBSET D : s # {} => it[s] = v[Some(s)] + it[s \ {Some(s)}]
<1>1. {} \in SUBSET D
  OBVIOUS
<1> QED BY <1>1 DEF IsSum

\* Sums are numbers, do not depend on keys they do not range over, and a key adds its value.
LEMMA SumFacts ==
    ASSUME NEW D, IsFiniteSet(D), NEW v \in [D -> Nat], NEW it, IsSum(it, D, v),
           NEW E, NEW u \in [E -> Nat], NEW jt, IsSum(jt, E, u)
    PROVE  \A s \in SUBSET D :
              /\ it[s] \in Nat
              /\ s \in SUBSET E /\ (\A x \in s : v[x] = u[x]) => it[s] = jt[s]
              /\ \A x \in s : it[s] = it[s \ {x}] + v[x]
<1> DEFINE Good(s) == /\ it[s] \in Nat
                      /\ s \in SUBSET E /\ (\A x \in s : v[x] = u[x]) => it[s] = jt[s]
                      /\ \A x \in s : it[s] = it[s \ {x}] + v[x]
           P == {k \in Nat : \A s \in SUBSET D : Cardinality(s) <= k => Good(s)}
<1>0. /\ it[{}] = 0 /\ jt[{}] = 0
      /\ \A s \in SUBSET D : s # {} => it[s] = v[Some(s)] + it[s \ {Some(s)}]
      /\ \A s \in SUBSET E : s # {} => jt[s] = u[Some(s)] + jt[s \ {Some(s)}]
  BY SumAt
<1>1. Good({})
  BY <1>0
<1>2. 0 \in P
  <2>1. ASSUME NEW s \in SUBSET D, Cardinality(s) <= 0 PROVE Good(s)
    <3>1. s = {}
      BY <2>1, EmptyOnly
    <3> QED BY <1>1, <3>1
  <2> QED BY <2>1
<1>3. ASSUME NEW k \in P PROVE k + 1 \in P
  <2>0. k \in Nat /\ \A s \in SUBSET D : Cardinality(s) <= k => Good(s)
    OBVIOUS
  <2> HIDE DEF P
  <2>1. ASSUME NEW s \in SUBSET D, Cardinality(s) <= k + 1 PROVE Good(s)
    <3>1. CASE s = {}
      BY <1>1, <3>1
    <3>2. CASE s # {}
      <4>1. PICK y \in s : y = Some(s)
        BY <3>2, SomeIn
      <4>2. PICK r \in SUBSET D : r = s \ {y} /\ Cardinality(r) <= k
        <5>1. Cardinality(s \ {y}) <= k /\ s \ {y} \in SUBSET D
          BY <2>0, <2>1, Smaller
        <5> QED BY <5>1
      <4>3. Good(r)
        BY <2>0, <4>2
      <4>4. it[s] = v[y] + it[r] /\ v[y] \in Nat /\ it[r] \in Nat
        BY <1>0, <3>2, <4>1, <4>2, <4>3
      <4>5. it[s] \in Nat
        BY <4>4
      <4>6. ASSUME s \in SUBSET E, \A x \in s : v[x] = u[x] PROVE it[s] = jt[s]
        <5>1. jt[s] = u[y] + jt[r]
          BY <1>0, <3>2, <4>1, <4>2, <4>6
        <5>2. it[r] = jt[r] /\ v[y] = u[y]
          BY <4>2, <4>3, <4>6
        <5> QED BY <4>4, <5>1, <5>2
      <4>7. ASSUME NEW x \in s PROVE it[s] = it[s \ {x}] + v[x]
        <5>1. CASE x = y
          BY <4>2, <4>4, <5>1
        <5>2. CASE x # y
          <6>1. x \in r /\ v[x] \in Nat
            BY <4>2, <5>2
          <6>2. PICK q \in SUBSET D : q = r \ {x}
            OBVIOUS
          <6>3. it[r] = it[q] + v[x]
            BY <4>3, <6>1, <6>2
          <6>4. PICK p \in SUBSET D : p = s \ {x} /\ Cardinality(p) <= k
            <7>1. Cardinality(s \ {x}) <= k /\ s \ {x} \in SUBSET D
              BY <2>0, <2>1, Smaller
            <7> QED BY <7>1
          <6>5. y \in p /\ p \ {y} = q
            BY <4>2, <5>2, <6>2, <6>4
          <6>6. Good(p)
            BY <2>0, <6>4
          <6>7. it[p] = it[q] + v[y]
            BY <6>5, <6>6
          <6>8. it[q] \in Nat
            <7>1. Cardinality(q) <= k
              <8>1. Cardinality(r) = Cardinality(r \ {x}) + 1 /\ Cardinality(r \ {x}) \in Nat
                BY <6>1, Smaller
              <8> QED BY <2>0, <4>2, <6>2, <8>1
            <7> QED BY <2>0, <7>1
          <6>9. it[s] = (it[q] + v[y]) + v[x]
            BY <4>4, <6>1, <6>3, <6>8
          <6> QED BY <6>4, <6>7, <6>9
        <5> QED BY <5>1, <5>2
      <4> QED BY <4>5, <4>6, <4>7
    <3> QED BY <3>1, <3>2
  <2> QED BY <2>0, <2>1 DEF P
<1>4. P = Nat
  <2> HIDE DEF P
  <2>1. P \in SUBSET Nat
    BY DEF P
  <2> QED BY <1>2, <1>3, <2>1, SetInduction
<1>5. ASSUME NEW s \in SUBSET D PROVE Good(s)
  <2>1. IsFiniteSet(s)
    BY FS_Subset
  <2>2. PICK k \in Nat : k = Cardinality(s)
    BY <2>1, FS_CardinalityType
  <2>3. k \in P
    BY <1>4
  <2>4. Cardinality(s) <= k
    BY <2>2
  <2> HIDE DEF Good
  <2> QED BY <2>3, <2>4
<1> QED BY <1>5
-----------------------------------------------------------------------------
(* SftpLink: the inductive invariant.                                      *)
(*                                                                         *)
(* One call of a connection is under way at a time, so while the           *)
(* connection is open its whole state is the phase of that call: asked,    *)
(* its body awaited, with the SSH server, or answered.                     *)
WaitPcs == {"opening", "sending", "closing", "renaming", "aborting", "ropening", "reading",
            "rclosing", "getting", "calling", "statting", "making"}
BodyPcs == {"reading2", "getting2"}
RestPcs == {"start", "chunks", "closed", "renamed", "pull", "rclose", "rabort", "mkdir", "done",
            "failed"}
Holding == WaitPcs \cup BodyPcs \cup {"closed", "renamed"}
Fetching == {"reading", "getting"}
Ensuring == {"statting", "making"}
Loads == {"write_chunk", "write"}
Verbs == {"write_open", "write_chunk", "write_close", "write_abort", "rename", "stat", "read_open",
          "read_chunk", "read_close", "read", "write", "delete", "list", "fs_info", "mkdir", "ok",
          "err", "data"}

ArgFits(verb, arg) ==
    /\ verb \in {"write_open", "write"} => arg \in FilePaths
    /\ verb = "rename" => arg \in [from : FilePaths, to : FilePaths]
Asks == {f \in [bin : BOOLEAN, id : Nat, verb : Verbs, arg : Args, n : Nat] : ArgFits(f.verb, f.arg)}
Replies == [bin : BOOLEAN, id : Nat, verb : Verbs, arg : Nat, n : Nat]
TaskStates == [pc : WaitPcs \cup BodyPcs \cup RestPcs, id : Nat, h : Nat, k : Nat, tmp : Nat]
IsMap(f) == f = [x \in DOMAIN f |-> f[x]] /\ IsFiniteSet(DOMAIN f)
IsBuffer(w) == IsMap(w) /\ \A h \in DOMAIN w : w[h] \in [path : FilePaths, n : Nat]

ClientTypes ==
    /\ ctr \in [Conns -> Nat] /\ busy \in [Conns -> Tasks \cup {None}]
    /\ link \in [Conns -> {"open", "closed", "ended"}]
    /\ plan \in Plans /\ task \in [Tasks -> TaskStates]
WireTypes == up \in [Conns -> Seq(Asks)] /\ down \in [Conns -> Seq(Replies)]
RelayTypes ==
    /\ pend \in [Conns -> Pendings \cup {None}] /\ remote \in [Conns -> SshCalls \cup {None}]
    /\ \A c \in Conns : pend[c] # None /\ pend[c].for = "write" => pend[c].arg \in FilePaths
    /\ total \in [Conns -> Nat]
    /\ wsess = [c \in Conns |-> wsess[c]] /\ rsess = [c \in Conns |-> rsess[c]]
    /\ \A c \in Conns : IsBuffer(wsess[c]) /\ IsMap(rsess[c])
FileTypes ==
    /\ IsMap(ino) /\ DOMAIN ino \subseteq Nat /\ \A i \in DOMAIN ino : ino[i].n \in Nat
    /\ fs = [p \in DOMAIN fs |-> fs[p]] /\ DOMAIN fs \subseteq FilePaths
    /\ \A p \in DOMAIN fs : fs[p] \in DOMAIN ino

Quiet(c) == up[c] = <<>> /\ down[c] = <<>> /\ pend[c] = None /\ remote[c] = None
AskFits(f, s) ==
    /\ f.id = s.id
    /\ s.pc \in Fetching <=> f.verb \in {"read_chunk", "read"}
    /\ s.pc \in Ensuring => /\ f.arg = Folder(s.k + 1)
                            /\ f.verb = IF s.pc = "statting" THEN "stat" ELSE "mkdir"
Plain(s) == s.pc \notin Fetching \cup Ensuring
Asked(c, t) ==
    /\ up[c] # <<>> /\ Len(up[c]) = IF up[c][1].verb \in Loads THEN 2 ELSE 1
    /\ ~up[c][1].bin /\ AskFits(up[c][1], task[t]) /\ (Len(up[c]) = 2 => up[c][2].bin)
    /\ down[c] = <<>> /\ pend[c] = None /\ remote[c] = None
Sent(c, t) ==
    /\ Len(up[c]) = 1 /\ up[c][1].bin /\ down[c] = <<>> /\ remote[c] = None
    /\ pend[c] # None /\ pend[c].id = task[t].id /\ Plain(task[t])
AtServer(c, t) ==
    /\ up[c] = <<>> /\ down[c] = <<>> /\ pend[c] = None
    /\ remote[c] # None /\ remote[c].id = task[t].id /\ Plain(task[t])
Answered(c, t) ==
    /\ up[c] = <<>> /\ pend[c] = None /\ remote[c] = None /\ down[c] # <<>>
    /\ Len(down[c]) = IF task[t].pc \in Fetching /\ down[c][1].verb = "ok" THEN 2 ELSE 1
    /\ ~down[c][1].bin /\ down[c][1].id = task[t].id /\ (Len(down[c]) = 2 => down[c][2].bin)
Coming(c) ==
    /\ up[c] = <<>> /\ pend[c] = None /\ remote[c] = None
    /\ Len(down[c]) = 1 /\ down[c][1].bin
Phase(c, t) ==
    \/ task[t].pc \in WaitPcs /\ (Asked(c, t) \/ Sent(c, t) \/ AtServer(c, t) \/ Answered(c, t))
    \/ task[t].pc \in BodyPcs /\ Coming(c)
    \/ task[t].pc \in {"closed", "renamed"} /\ Quiet(c)
OpenOk(c) ==
    link[c] = "open" =>
        /\ busy[c] = None => Quiet(c)
        /\ \A t \in Tasks : Conn(t) = c /\ task[t].pc \in Holding => busy[c] = t
        /\ \A t \in Tasks : busy[c] = t => Conn(t) = c /\ Phase(c, t)

\* The answer f tells a task in state s that its folder is there.
Tells(f, s) == ~f.bin /\ f.id = s.id /\ (f.verb = "ok" \/ (s.pc = "making" /\ f.arg = 1))
FolderOk(t) ==
    plan[t].kind = "folders" =>
        /\ task[t].pc \in {"start", "statting", "mkdir", "making", "done", "failed"}
        /\ \A d \in 1..task[t].k : Folder(d) \in dirs
        /\ task[t].pc = "done" => task[t].k = Depth
        /\ task[t].pc \in Ensuring =>
              \A n \in 1..Len(down[Conn(t)]) :
                  Tells(down[Conn(t)][n], task[t]) => Folder(task[t].k + 1) \in dirs

\* A connection has at most one request on its way, younger than all its handles.
Shape(c) ==
    /\ Len(up[c]) <= 2 /\ (Len(up[c]) = 2 => up[c][2].bin)
    /\ DOMAIN wsess[c] \subseteq 1..ctr[c]
    /\ up[c] # <<>> /\ ~up[c][1].bin =>
          up[c][1].id \in 1..ctr[c] /\ \A h \in DOMAIN wsess[c] : h < up[c][1].id
BuffersCounted(c) ==
    /\ total[c] = Buffered(wsess[c]) /\ total[c] <= MaxStream
    /\ Cardinality(DOMAIN rsess[c]) <= MaxReads

LinkTypes == ClientTypes /\ WireTypes /\ RelayTypes /\ FileTypes
AllOpen == \A c \in Conns : OpenOk(c)
AllFolders == \A t \in Tasks : FolderOk(t)
AllShapes == \A c \in Conns : Shape(c)
AllCounted == \A c \in Conns : BuffersCounted(c)
LinkInd == LinkTypes /\ AllOpen /\ AllFolders /\ AllShapes /\ AllCounted

\* What Buffered() adds up: a sum over the handles.
LEMMA BufferedIs ==
    ASSUME NEW w, IsBuffer(w), NEW v, v = [h \in DOMAIN w |-> w[h].n]
    PROVE  \E it : IsSum(it, DOMAIN w, v) /\ Buffered(w) = it[DOMAIN w]
<1>0. IsFiniteSet(DOMAIN w) /\ v \in [DOMAIN w -> Nat]
  BY DEF IsBuffer, IsMap
<1>1. PICK D : D = DOMAIN w
  OBVIOUS
<1> DEFINE Good(it) == it = [s \in SUBSET D |-> IF s = {} THEN 0
                               ELSE w[CHOOSE x \in s : TRUE].n + it[s \ {CHOOSE x \in s : TRUE}]]
<1>2. PICK j : IsSum(j, D, v)
  BY <1>0, <1>1, SumExists
<1>3. \A it : IsSum(it, D, v) <=> Good(it)
  <2> SUFFICES ASSUME NEW it PROVE IsSum(it, D, v) <=> Good(it)
    OBVIOUS
  <2>1. ASSUME NEW s \in SUBSET D, s # {}
        PROVE  v[Some(s)] + it[s \ {Some(s)}]
                  = w[CHOOSE x \in s : TRUE].n + it[s \ {CHOOSE x \in s : TRUE}]
    <3>1. Some(s) \in D
      BY <2>1, SomeIn
    <3>2. v[Some(s)] = w[Some(s)].n
      BY <1>1, <3>1
    <3> QED BY <3>2 DEF Some
  <2>2. [s \in SUBSET D |-> IF s = {} THEN 0 ELSE v[Some(s)] + it[s \ {Some(s)}]]
          = [s \in SUBSET D |-> IF s = {} THEN 0
                               ELSE w[CHOOSE x \in s : TRUE].n + it[s \ {CHOOSE x \in s : TRUE}]]
    BY <2>1
  <2> QED BY <2>2 DEF IsSum
<1>4. PICK F : F = CHOOSE it : Good(it)
  OBVIOUS
<1>5. Good(F)
  <2>1. Good(j)
    BY <1>2, <1>3
  <2> HIDE DEF Good
  <2> QED BY <1>4, <2>1
<1>6. Buffered(w) = F[D]
  <2>1. Buffered(w) = (CHOOSE it : it = [s \in SUBSET DOMAIN w |-> IF s = {} THEN 0
                               ELSE w[CHOOSE x \in s : TRUE].n + it[s \ {CHOOSE x \in s : TRUE}]])[DOMAIN w]
    BY DEF Buffered, MapThenSumSet, MapThenFoldSet
  <2> QED BY <1>1, <1>4, <2>1
<1> QED BY <1>1, <1>3, <1>5, <1>6

\* Removing a handle takes its buffer off the sum.
LEMMA BufferedSplit ==
    ASSUME NEW w, IsBuffer(w), NEW h \in DOMAIN w
    PROVE  /\ IsBuffer(Drop(w, h)) /\ Buffered(Drop(w, h)) \in Nat
           /\ Buffered(w) = Buffered(Drop(w, h)) + w[h].n
<1>1. PICK u : u = Drop(w, h)
  OBVIOUS
<1>2. DOMAIN u = DOMAIN w \ {h} /\ \A x \in DOMAIN u : u[x] = w[x]
  BY <1>1 DEF Drop
<1>3. IsFiniteSet(DOMAIN w) /\ IsFiniteSet(DOMAIN u)
  BY <1>2, FS_RemoveElement DEF IsBuffer, IsMap
<1>4. IsBuffer(u)
  BY <1>1, <1>2, <1>3 DEF IsBuffer, IsMap, Drop
<1>5. PICK v : v = [x \in DOMAIN w |-> w[x].n]
  OBVIOUS
<1>6. PICK z : z = [x \in DOMAIN u |-> u[x].n]
  OBVIOUS
<1>7. v \in [DOMAIN w -> Nat] /\ z \in [DOMAIN u -> Nat]
  BY <1>4, <1>5, <1>6 DEF IsBuffer
<1>8. PICK i : IsSum(i, DOMAIN w, v) /\ Buffered(w) = i[DOMAIN w]
  BY <1>5, BufferedIs
<1>9. PICK j : IsSum(j, DOMAIN u, z) /\ Buffered(u) = j[DOMAIN u]
  BY <1>4, <1>6, BufferedIs
<1>10. \A s \in SUBSET DOMAIN w :
              /\ i[s] \in Nat
              /\ s \in SUBSET DOMAIN u /\ (\A x \in s : v[x] = z[x]) => i[s] = j[s]
              /\ \A x \in s : i[s] = i[s \ {x}] + v[x]
  BY <1>3, <1>7, <1>8, <1>9, SumFacts
<1>11. i[DOMAIN w] = i[DOMAIN u] + v[h]
  BY <1>2, <1>10
<1>12. i[DOMAIN u] = j[DOMAIN u] /\ i[DOMAIN u] \in Nat
  <2>1. DOMAIN u \in SUBSET DOMAIN w /\ \A x \in DOMAIN u : v[x] = z[x]
    BY <1>2, <1>5, <1>6
  <2> QED BY <1>10, <2>1
<1>13. v[h] = w[h].n
  BY <1>5
<1> QED BY <1>1, <1>4, <1>8, <1>9, <1>11, <1>12, <1>13

LEMMA BufferedNone == IsBuffer(EmptyMap) /\ Buffered(EmptyMap) = 0
<1>1. PICK w : w = EmptyMap
  OBVIOUS
<1>2. DOMAIN w = {}
  BY <1>1 DEF EmptyMap
<1>3. IsBuffer(w)
  BY <1>1, <1>2, FS_EmptySet DEF IsBuffer, IsMap, EmptyMap
<1>4. PICK v : v = [h \in DOMAIN w |-> w[h].n]
  OBVIOUS
<1>5. PICK it : IsSum(it, DOMAIN w, v) /\ Buffered(w) = it[DOMAIN w]
  BY <1>3, <1>4, BufferedIs
<1>6. it[{}] = 0
  BY <1>5, SumAt
<1> QED BY <1>1, <1>2, <1>3, <1>5, <1>6

\* A new handle has nothing in its buffer; a chunk adds to one buffer.
LEMMA BufferedOpen ==
    ASSUME NEW w, IsBuffer(w), NEW h, h \notin DOMAIN w, NEW p \in FilePaths, NEW u,
           u = Put(w, h, [path |-> p, n |-> 0])
    PROVE  IsBuffer(u) /\ Buffered(u) = Buffered(w)
<1>1. DOMAIN u = DOMAIN w \cup {h} /\ u[h] = [path |-> p, n |-> 0] /\ \A x \in DOMAIN w : u[x] = w[x]
  BY DEF Put
<1>2. IsFiniteSet(DOMAIN u)
  BY <1>1, FS_AddElement DEF IsBuffer, IsMap
<1>3. u = [x \in DOMAIN u |-> u[x]]
  BY DEF Put
<1>4. \A x \in DOMAIN u : u[x] \in [path : FilePaths, n : Nat]
  BY <1>1 DEF IsBuffer
<1>5. IsBuffer(u)
  BY <1>2, <1>3, <1>4 DEF IsBuffer, IsMap
<1>6. Drop(u, h) = w
  <2>1. DOMAIN u \ {h} = DOMAIN w
    BY <1>1
  <2>2. w = [x \in DOMAIN w |-> w[x]]
    BY DEF IsBuffer, IsMap
  <2> QED BY <1>1, <2>1, <2>2 DEF Drop
<1>7. Buffered(u) = Buffered(w) + u[h].n /\ Buffered(w) \in Nat
  BY <1>1, <1>5, <1>6, BufferedSplit
<1> QED BY <1>1, <1>5, <1>7
LEMMA BufferedMore ==
    ASSUME NEW w, IsBuffer(w), NEW h \in DOMAIN w, NEW k \in Nat, NEW u,
           u = [w EXCEPT ![h].n = @ + k]
    PROVE  IsBuffer(u) /\ DOMAIN u = DOMAIN w /\ Buffered(u) = Buffered(w) + k
<1>1. DOMAIN u = DOMAIN w /\ u[h] = [w[h] EXCEPT !.n = @ + k] /\ \A x \in DOMAIN w \ {h} : u[x] = w[x]
  BY DEF IsBuffer, IsMap
<1>2. w[h] \in [path : FilePaths, n : Nat]
  BY DEF IsBuffer
<1>3. u[h] \in [path : FilePaths, n : Nat] /\ u[h].n = w[h].n + k /\ w[h].n \in Nat
  BY <1>1, <1>2
<1>4. u = [x \in DOMAIN u |-> u[x]]
  BY <1>1 DEF IsBuffer, IsMap
<1>5. IsBuffer(u)
  BY <1>1, <1>3, <1>4 DEF IsBuffer, IsMap
<1>6. Drop(u, h) = Drop(w, h)
  BY <1>1 DEF Drop
<1>7. Buffered(u) = Buffered(Drop(w, h)) + u[h].n /\ Buffered(Drop(w, h)) \in Nat
  BY <1>1, <1>5, <1>6, BufferedSplit
<1>8. Buffered(w) = Buffered(Drop(w, h)) + w[h].n
  BY BufferedSplit
<1> QED BY <1>1, <1>3, <1>5, <1>7, <1>8
-----------------------------------------------------------------------------
(* The client's side.                                                      *)
SameConn(c) ==
    /\ link'[c] = link[c] /\ busy'[c] = busy[c] /\ up'[c] = up[c] /\ down'[c] = down[c]
    /\ pend'[c] = pend[c] /\ remote'[c] = remote[c]
SameTasks(c) == plan' = plan /\ \A t \in Tasks : Conn(t) = c => task'[t] = task[t]
LEMMA OpenSame ==
    ASSUME NEW c \in Conns, OpenOk(c), SameConn(c), SameTasks(c)
    PROVE  OpenOk(c)'
<1>1. Quiet(c) = Quiet(c)' /\ Coming(c) = Coming(c)'
  BY DEF SameConn, Quiet, Coming
<1>2. ASSUME NEW t \in Tasks PROVE Conn(t)' = Conn(t)
  BY DEF SameTasks, Conn
<1>3. ASSUME NEW t \in Tasks, Conn(t) = c, Phase(c, t) PROVE Phase(c, t)'
  <2>1. task'[t] = task[t]
    BY <1>3 DEF SameTasks
  <2> QED BY <1>1, <1>3, <2>1 DEF Phase, SameConn, Asked, Sent, AtServer, Answered
<1> QED BY <1>1, <1>2, <1>3 DEF OpenOk, SameConn, SameTasks

\* Answers only go, and folders only come.
Fewer(c) == \A n \in 1..Len(down'[c]) : \E m \in 1..Len(down[c]) : down'[c][n] = down[c][m]
LEMMA FolderSame ==
    ASSUME NEW t \in Tasks, FolderOk(t), plan' = plan, task'[t] = task[t], dirs \subseteq dirs',
           Fewer(Conn(t))
    PROVE  FolderOk(t)'
<1>1. Conn(t)' = Conn(t)
  BY DEF Conn
<1> QED BY <1>1 DEF FolderOk, Fewer, Tells

\* Requests only go.
Shrinks(c) ==
    \/ up'[c] = up[c] \/ up'[c] = <<>> \/ (up[c] # <<>> /\ up'[c] = Tail(up[c]))
    \/ \E i \in 0..Len(up[c]) : up'[c] = SubSeq(up[c], 1, i)
LEMMA ShapeSame ==
    ASSUME NEW c \in Conns, Shape(c), up[c] \in Seq(Asks), ctr'[c] = ctr[c], Shrinks(c),
           DOMAIN wsess'[c] \subseteq DOMAIN wsess[c]
    PROVE  Shape(c)'
<1>1. CASE up'[c] = up[c]
  BY <1>1 DEF Shape
<1>2. CASE up'[c] = <<>>
  BY <1>2 DEF Shape
<1>3. CASE up[c] # <<>> /\ up'[c] = Tail(up[c])
  <2>1. PICK q : q \in Seq(Asks) /\ q = up[c]
    OBVIOUS
  <2>2. Len(q) <= 2 /\ (Len(q) = 2 => q[2].bin) /\ q # <<>>
    BY <1>3, <2>1 DEF Shape
  <2>3. PICK z : z = Tail(q) /\ z \in Seq(Asks) /\ Len(z) <= 1 /\ (Len(z) = 1 => z[1].bin)
    <3>1. /\ Tail(q) \in Seq(Asks) /\ Len(Tail(q)) <= 1
          /\ Len(Tail(q)) = 1 => Len(q) = 2 /\ Tail(q)[1] = q[2]
      BY <2>1, <2>2, ShortTail
    <3> QED BY <2>2, <3>1
  <2>4. Len(z) <= 2 /\ Len(z) # 2 /\ (z # <<>> => Len(z) = 1)
    BY <2>3, ShortSeq
  <2>5. up'[c] = z
    BY <1>3, <2>1, <2>3
  <2> QED BY <2>3, <2>4, <2>5 DEF Shape
<1>4. ASSUME NEW i \in 0..Len(up[c]), up'[c] = SubSeq(up[c], 1, i) PROVE Shape(c)'
  <2>1. PICK q : q \in Seq(Asks) /\ q = up[c]
    OBVIOUS
  <2>2. PICK r : r = SubSeq(q, 1, i)
    OBVIOUS
  <2>3. Len(r) = i /\ \A j \in 1..i : r[j] = q[j]
    BY <2>1, <2>2
  <2>4. CASE i = 0
    <3>1. r = <<>>
      BY <2>1, <2>2, <2>4
    <3> QED BY <1>2, <1>4, <2>1, <2>2, <3>1
  <2>5. CASE i # 0
    <3>0. Len(q) <= 2 /\ (Len(q) = 2 => q[2].bin) /\ Len(q) \in Nat /\ i <= Len(q) /\ i \in Nat
      BY <2>1 DEF Shape
    <3>1. 1 \in 1..i /\ (i = 2 => Len(q) = 2 /\ 2 \in 1..i) /\ i <= 2 /\ q # <<>>
      <4>1. PICK k \in Nat : k = Len(q) /\ k <= 2 /\ i <= k
        BY <3>0
      <4>2. 1 \in 1..i /\ (i = 2 => k = 2 /\ 2 \in 1..i) /\ i <= 2 /\ k # 0
        BY <2>5, <3>0, <4>1
      <4> QED BY <4>1, <4>2, SeqFacts
    <3>2. Len(r) <= 2 /\ (Len(r) = 2 => r[2].bin) /\ r[1] = q[1]
      BY <2>3, <3>0, <3>1
    <3> QED BY <1>4, <2>1, <2>2, <3>1, <3>2 DEF Shape
  <2> QED BY <2>4, <2>5
<1> QED BY <1>1, <1>2, <1>3, <1>4 DEF Shrinks

\* A call that a task may make now: what it asks for, and how it waits.
CallFits(t, verb, arg, body, pc) ==
    /\ ArgFits(verb, arg) /\ task[t].pc \notin WaitPcs \cup BodyPcs /\ pc \in WaitPcs
    /\ IF verb \in Loads THEN \E n \in Nat : body = <<Binary(n)>> ELSE body = <<>>
    /\ pc \in Fetching <=> verb \in {"read_chunk", "read"}
    /\ pc \in Ensuring => /\ arg = Folder(task[t].k + 1)
                          /\ verb = IF pc = "statting" THEN "stat" ELSE "mkdir"
    /\ plan[t].kind = "folders" => pc \in Ensuring

LEMMA ConnIn ==
    ASSUME ClientTypes, NEW t \in Tasks
    PROVE  Conn(t) \in Conns /\ Name(t) \in {p[u].name : p \in Plans, u \in Tasks} /\ Name(t) # "/"
           /\ plan[t].chunks \in Nat
BY LinkAssumption DEF ClientTypes, Conn, Name

\* A call goes out on a connection where nothing is under way.
LEMMA CallFinds ==
    ASSUME LinkInd, NEW t \in Tasks, ChainFree(t), link[Conn(t)] = "open",
           task[t].pc \notin WaitPcs \cup BodyPcs
    PROVE  Quiet(Conn(t)) /\ \A u \in Tasks \ {t} : Conn(u) = Conn(t) => task[u].pc \notin Holding
<1>1. PICK c \in Conns : c = Conn(t)
  BY ConnIn DEF LinkInd, LinkTypes
<1>2. OpenOk(c) /\ link[c] = "open" /\ busy[c] \in {None, t}
  BY <1>1 DEF LinkInd, AllOpen, ChainFree
<1>3. Quiet(c)
  <2>1. CASE busy[c] = None
    BY <1>2, <2>1 DEF OpenOk
  <2>2. CASE busy[c] = t
    <3>1. Phase(c, t)
      BY <1>2, <2>2 DEF OpenOk
    <3> QED BY <3>1 DEF Phase
  <2> QED BY <1>2, <2>1, <2>2
<1>4. ASSUME NEW u \in Tasks \ {t}, Conn(u) = c PROVE task[u].pc \notin Holding
  <2>1. None \notin Tasks
    BY LinkAssumption
  <2> QED BY <1>2, <1>4, <2>1 DEF OpenOk
<1> QED BY <1>1, <1>3, <1>4

LEMMA BinaryAsks == ASSUME NEW n \in Nat PROVE Binary(n) \in Asks /\ Binary(n).bin
<1>1. 0 \in Args
  BY DEF Args
<1>2. Binary(n) \in [bin : BOOLEAN, id : Nat, verb : Verbs, arg : Args, n : Nat]
  BY <1>1 DEF Binary, Verbs
<1>3. ArgFits(Binary(n).verb, Binary(n).arg)
  BY DEF Binary, ArgFits
<1> QED BY <1>2, <1>3 DEF Asks, Binary

\* What a call leaves on the wire.
LEMMA WireOf ==
    ASSUME NEW f, f \in Asks, NEW body, NEW q,
           IF f.verb \in Loads THEN \E n \in Nat : body = <<Binary(n)>> ELSE body = <<>>,
           q = <<f>> \o body
    PROVE  /\ q \in Seq(Asks) /\ Len(q) = (IF f.verb \in Loads THEN 2 ELSE 1) /\ q[1] = f
           /\ Len(q) = 2 => q[2].bin
<1>1. CASE f.verb \in Loads
  <2>1. PICK n \in Nat : body = <<Binary(n)>>
    BY <1>1
  <2>2. PICK b : b = Binary(n)
    OBVIOUS
  <2>4. b \in Asks /\ b.bin
    BY <2>2, BinaryAsks
  <2>5. <<f>> \in Seq(Asks) /\ <<b>> \in Seq(Asks) /\ Len(<<f>>) = 1 /\ Len(<<b>>) = 1
    BY <2>4
  <2>6. q \in Seq(Asks) /\ Len(q) = 2 /\ q[1] = f /\ q[2] = b
    BY <2>1, <2>2, <2>5
  <2> QED BY <1>1, <2>4, <2>6
<1>2. CASE f.verb \notin Loads
  <2>1. q = <<f>>
    BY <1>2
  <2> QED BY <1>2, <2>1
<1> QED BY <1>1, <1>2

LEMMA CallKeeps ==
    ASSUME LinkInd, NEW t \in Tasks, NEW verb \in Verbs, NEW arg \in Args, NEW body, NEW pc,
           NEW skip \in Nat, CallFits(t, verb, arg, body, pc), Call(t, verb, arg, body, pc, skip)
    PROVE  LinkInd'
<1>0. ClientTypes /\ WireTypes /\ RelayTypes /\ FileTypes
  BY DEF LinkInd, LinkTypes
<1>1. PICK c \in Conns : c = Conn(t)
  BY <1>0, ConnIn
<1>2. PICK id \in Nat : id = ctr[c] + skip + 1
  BY <1>0 DEF ClientTypes
<1>3. /\ ChainFree(t) /\ link[c] = "open"
      /\ ctr' = [ctr EXCEPT ![c] = id] /\ busy' = [busy EXCEPT ![c] = t]
      /\ up' = [up EXCEPT ![c] = @ \o <<Text(id, verb, arg)>> \o body]
      /\ task' = [task EXCEPT ![t] = [task[t] EXCEPT !.pc = pc, !.id = id,
                    !.tmp = IF verb = "write_open" THEN arg.tmp ELSE task[t].tmp]]
      /\ UNCHANGED <<down, link, pend, wsess, rsess, total, remote, fs, ino, dirs, plan>>
  BY <1>1, <1>2 DEF Call, relay
<1>4. task[t].pc \notin WaitPcs \cup BodyPcs /\ pc \in WaitPcs /\ ArgFits(verb, arg)
  BY DEF CallFits
<1>5. Quiet(c) /\ \A u \in Tasks \ {t} : Conn(u) = c => task[u].pc \notin Holding
  BY <1>1, <1>3, <1>4, CallFinds
<1>6. PICK f : f \in Asks /\ f = Text(id, verb, arg) /\ f.verb = verb /\ f.arg = arg /\ f.id = id /\ ~f.bin
  <2>1. Text(id, verb, arg) \in Asks
    BY <1>4 DEF Text, Asks
  <2> QED BY <2>1 DEF Text
<1>7. PICK q : q = <<f>> \o body
  OBVIOUS
<1>8. /\ q \in Seq(Asks) /\ Len(q) = (IF f.verb \in Loads THEN 2 ELSE 1) /\ q[1] = f
      /\ Len(q) = 2 => q[2].bin
  <2>1. IF f.verb \in Loads THEN \E n \in Nat : body = <<Binary(n)>> ELSE body = <<>>
    BY <1>6 DEF CallFits
  <2> QED BY <1>6, <1>7, <2>1, WireOf
<1>9. up' = [up EXCEPT ![c] = q]
  <2>1. up[c] \o <<f>> = <<f>>
    BY <1>5 DEF Quiet
  <2>2. up[c] \o <<f>> \o body = q
    BY <1>7, <2>1
  <2> QED BY <1>3, <1>6, <2>2
<1>10. PICK s : s \in TaskStates /\ s = task[t]
  BY <1>0 DEF ClientTypes
<1>11. PICK z : z = [s EXCEPT !.pc = pc, !.id = id,
                       !.tmp = IF verb = "write_open" THEN arg.tmp ELSE s.tmp]
  OBVIOUS
<1>12. task' = [task EXCEPT ![t] = z]
  BY <1>3, <1>10, <1>11
<1>13. z \in TaskStates /\ z.pc = pc /\ z.id = id /\ z.k = s.k
  <2>1. verb = "write_open" => arg.tmp \in Nat
    BY <1>4 DEF ArgFits, FilePaths
  <2> QED BY <1>4, <1>10, <1>11, <2>1 DEF TaskStates
<1>14. task'[t] = z /\ \A u \in Tasks \ {t} : task'[u] = task[u]
  BY <1>0, <1>12 DEF ClientTypes
<1>15. \A u \in Tasks : Conn(u)' = Conn(u)
  BY <1>3 DEF Conn
<1>16. ClientTypes' /\ WireTypes' /\ RelayTypes' /\ FileTypes'
  <2>1. ClientTypes'
    BY <1>0, <1>3, <1>12, <1>13 DEF ClientTypes
  <2>2. WireTypes'
    BY <1>0, <1>3, <1>8, <1>9 DEF WireTypes
  <2>3. RelayTypes' /\ FileTypes'
    BY <1>0, <1>3 DEF RelayTypes, FileTypes
  <2> QED BY <2>1, <2>2, <2>3
<1>17. AllOpen'
  <2> SUFFICES ASSUME NEW d \in Conns PROVE OpenOk(d)'
    BY DEF AllOpen
  <2>1. CASE d # c
    <3>1. SameConn(d)
      BY <1>0, <1>3, <1>9, <2>1 DEF SameConn, ClientTypes, WireTypes
    <3>2. SameTasks(d)
      BY <1>1, <1>3, <1>14, <2>1 DEF SameTasks
    <3> QED BY <3>1, <3>2, OpenSame DEF LinkInd, AllOpen
  <2>2. CASE d = c
    <3>1. busy'[c] = t /\ up'[c] = q /\ down'[c] = <<>> /\ pend'[c] = None /\ remote'[c] = None
      BY <1>0, <1>3, <1>5, <1>9 DEF ClientTypes, WireTypes, Quiet
    <3>2. AskFits(f, z)
      BY <1>6, <1>10, <1>13 DEF CallFits, AskFits
    <3>3. Asked(c, t)'
      BY <1>6, <1>8, <1>14, <3>1, <3>2 DEF Asked
    <3>4. Phase(c, t)'
      BY <1>4, <1>13, <1>14, <3>3 DEF Phase
    <3>5. t # None
      BY LinkAssumption
    <3>6. \A u \in Tasks \ {t} : Conn(u)' = c => task'[u].pc \notin Holding
      BY <1>5, <1>14, <1>15
    <3> QED BY <1>1, <1>15, <2>2, <3>1, <3>4, <3>5, <3>6 DEF OpenOk
  <2> QED BY <2>1, <2>2
<1>18. AllFolders'
  <2> SUFFICES ASSUME NEW u \in Tasks PROVE FolderOk(u)'
    BY DEF AllFolders
  <2>1. CASE u # t
    <3>1. Fewer(Conn(u))
      BY <1>3 DEF Fewer
    <3> QED BY <1>3, <1>14, <2>1, <3>1, FolderSame DEF LinkInd, AllFolders
  <2>2. CASE u = t
    <3>1. Len(down'[Conn(t)']) = 0
      BY <1>1, <1>3, <1>5, <1>15 DEF Quiet
    <3>2. FolderOk(t)
      BY DEF LinkInd, AllFolders
    <3>3. plan[t].kind = "folders" => pc \in Ensuring
      BY DEF CallFits
    <3> QED BY <1>3, <1>10, <1>13, <1>14, <2>2, <3>1, <3>2, <3>3 DEF FolderOk, Ensuring
  <2> QED BY <2>1, <2>2
<1>19. AllShapes'
  <2> SUFFICES ASSUME NEW d \in Conns PROVE Shape(d)'
    BY DEF AllShapes
  <2>1. Shape(d) /\ up[d] \in Seq(Asks)
    BY <1>0 DEF LinkInd, AllShapes, WireTypes
  <2>2. CASE d # c
    <3>1. ctr'[d] = ctr[d] /\ up'[d] = up[d] /\ wsess'[d] = wsess[d]
      BY <1>0, <1>3, <1>9, <2>2 DEF ClientTypes, WireTypes
    <3> QED BY <2>1, <3>1 DEF Shape
  <2>3. CASE d = c
    <3>1. ctr'[c] = id /\ up'[c] = q /\ wsess'[c] = wsess[c] /\ ctr[c] \in Nat
      BY <1>0, <1>3, <1>9 DEF ClientTypes, WireTypes
    <3>2. id > ctr[c] /\ id \in 1..id /\ 1..ctr[c] \subseteq 1..id /\ \A h \in 1..ctr[c] : h < id
      BY <1>2, <3>1
    <3>3. DOMAIN wsess[c] \subseteq 1..ctr[c]
      BY <2>1, <2>3 DEF Shape
    <3>4. DOMAIN wsess'[c] \subseteq 1..ctr'[c] /\ \A h \in DOMAIN wsess'[c] : h < id
      BY <3>1, <3>2, <3>3
    <3>5. Len(q) <= 2 /\ (Len(q) = 2 => q[2].bin) /\ q[1].id = id /\ id \in 1..id
      BY <1>6, <1>8, <3>2
    <3> QED BY <2>3, <3>1, <3>4, <3>5 DEF Shape
  <2> QED BY <2>2, <2>3
<1>20. AllCounted'
  BY <1>3 DEF LinkInd, AllCounted, BuffersCounted
<1> QED BY <1>16, <1>17, <1>18, <1>19, <1>20 DEF LinkInd, LinkTypes

\* A step of the client on one connection that sends nothing.
LEMMA ClientMoves ==
    ASSUME LinkInd, NEW t \in Tasks, NEW c \in Conns, c = Conn(t), NEW z \in TaskStates,
           NEW b \in Tasks \cup {None}, NEW q \in Seq(Replies),
           task' = [task EXCEPT ![t] = z], busy' = [busy EXCEPT ![c] = b],
           down' = [down EXCEPT ![c] = q],
           UNCHANGED <<ctr, up, link, pend, wsess, rsess, total, remote, fs, ino, dirs, plan>>,
           Fewer(c), OpenOk(c)', FolderOk(t)'
    PROVE  LinkInd'
<1>0. ClientTypes /\ WireTypes /\ RelayTypes /\ FileTypes
  BY DEF LinkInd, LinkTypes
<1>1. task'[t] = z /\ \A u \in Tasks \ {t} : task'[u] = task[u]
  BY <1>0 DEF ClientTypes
<1>2. down'[c] = q /\ \A d \in Conns \ {c} : down'[d] = down[d] /\ busy'[d] = busy[d]
  BY <1>0 DEF ClientTypes, WireTypes
<1>3. LinkTypes'
  <2>1. ClientTypes'
    BY <1>0 DEF ClientTypes
  <2>2. WireTypes'
    BY <1>0 DEF WireTypes
  <2>3. RelayTypes' /\ FileTypes'
    BY <1>0 DEF RelayTypes, FileTypes
  <2> QED BY <2>1, <2>2, <2>3 DEF LinkTypes
<1>4. ASSUME NEW d \in Conns \ {c} PROVE OpenOk(d)'
  <2>1. SameConn(d)
    BY <1>2 DEF SameConn
  <2>2. SameTasks(d)
    BY <1>1 DEF SameTasks
  <2> QED BY <2>1, <2>2, OpenSame DEF LinkInd, AllOpen
<1>5. ASSUME NEW u \in Tasks \ {t} PROVE FolderOk(u)'
  <2>1. PICK d \in Conns : d = Conn(u)
    BY <1>0, ConnIn
  <2>2. Fewer(d)
    BY <1>2 DEF Fewer
  <2> QED BY <1>1, <2>1, <2>2, FolderSame DEF LinkInd, AllFolders
<1>6. AllShapes' /\ AllCounted'
  BY DEF LinkInd, AllShapes, AllCounted, Shape, BuffersCounted
<1> QED BY <1>3, <1>4, <1>5, <1>6 DEF LinkInd, AllOpen, AllFolders

\* What an answer makes of a call.
LEMMA OkFacts ==
    ASSUME NEW s, s \in TaskStates, NEW f, f \in Replies, s.pc \in WaitPcs, NEW z, z = OnOk(s, f)
    PROVE  /\ z \in TaskStates
           /\ s.pc \in Fetching => z.pc \in BodyPcs
           /\ s.pc \notin Fetching => z.pc \in RestPcs
           /\ s.pc \in Ensuring => z.pc = "start" /\ z.k = s.k + 1
<1>0. f.arg \in Nat /\ s.k \in Nat /\ s.k + 1 \in Nat
  BY DEF Replies, TaskStates
<1>1. CASE s.pc = "opening"
  <2>1. z = [s EXCEPT !.pc = "chunks", !.h = f.arg]
    BY <1>1 DEF OnOk
  <2> QED BY <1>0, <1>1, <2>1 DEF TaskStates, Fetching, Ensuring, RestPcs
<1>2. CASE s.pc = "sending"
  <2>1. z = [s EXCEPT !.pc = "chunks", !.k = @ + 1]
    BY <1>2 DEF OnOk
  <2> QED BY <1>0, <1>2, <2>1 DEF TaskStates, Fetching, Ensuring, RestPcs
<1>3. CASE s.pc = "closing"
  <2>1. z = [s EXCEPT !.pc = "closed"]
    BY <1>3 DEF OnOk
  <2> QED BY <1>0, <1>3, <2>1 DEF TaskStates, Fetching, Ensuring, RestPcs
<1>4. CASE s.pc = "renaming"
  <2>1. z = [s EXCEPT !.pc = "renamed"]
    BY <1>4 DEF OnOk
  <2> QED BY <1>0, <1>4, <2>1 DEF TaskStates, Fetching, Ensuring, RestPcs
<1>5. CASE s.pc = "aborting"
  <2>1. z = [s EXCEPT !.pc = "failed"]
    BY <1>5 DEF OnOk
  <2> QED BY <1>0, <1>5, <2>1 DEF TaskStates, Fetching, Ensuring, RestPcs
<1>6. CASE s.pc = "ropening"
  <2>1. z = [s EXCEPT !.pc = "pull", !.h = f.arg]
    BY <1>6 DEF OnOk
  <2> QED BY <1>0, <1>6, <2>1 DEF TaskStates, Fetching, Ensuring, RestPcs
<1>7. CASE s.pc = "reading"
  <2>1. z = [s EXCEPT !.pc = "reading2"]
    BY <1>7 DEF OnOk
  <2> QED BY <1>0, <1>7, <2>1 DEF TaskStates, Fetching, Ensuring, BodyPcs
<1>8. CASE s.pc = "getting"
  <2>1. z = [s EXCEPT !.pc = "getting2"]
    BY <1>8 DEF OnOk
  <2> QED BY <1>0, <1>8, <2>1 DEF TaskStates, Fetching, Ensuring, BodyPcs
<1>9. CASE s.pc \in Ensuring
  <2>1. z = [s EXCEPT !.pc = "start", !.k = @ + 1]
    BY <1>9 DEF OnOk, Ensuring
  <2> QED BY <1>0, <1>9, <2>1 DEF TaskStates, Fetching, Ensuring, RestPcs
<1>10. CASE s.pc \in {"rclosing", "calling"}
  <2>1. z = [s EXCEPT !.pc = "done"]
    BY <1>10 DEF OnOk
  <2> QED BY <1>0, <1>10, <2>1 DEF TaskStates, Fetching, Ensuring, RestPcs
<1> QED BY <1>1, <1>2, <1>3, <1>4, <1>5, <1>6, <1>7, <1>8, <1>9, <1>10 DEF WaitPcs, Ensuring

ErrMakes(s, z) ==
    /\ z.pc \in RestPcs \ {"closed", "renamed", "done"} /\ z.k = s.k
    /\ s.pc \in Ensuring => z.pc \in {"mkdir", "failed"}
LEMMA ErrFacts ==
    ASSUME NEW t \in Tasks, NEW s, s \in TaskStates, s = task[t], NEW f, NEW z,
           z = [task[t] EXCEPT !.pc = OnErr(t, f)]
    PROVE  z \in TaskStates /\ ErrMakes(s, z)
<1>1. PICK p : p = OnErr(t, f)
  OBVIOUS
<1>2. p \in {"rabort", "mkdir", "failed"} /\ (s.pc \in Ensuring => p \in {"mkdir", "failed"})
  BY <1>1 DEF OnErr, Ensuring
<1>3. z = [s EXCEPT !.pc = p]
  BY <1>1
<1> QED BY <1>2, <1>3 DEF TaskStates, RestPcs, ErrMakes

\* The three ways a frame is received: the answer, the body after it, or neither.
LEMMA RecvGives ==
    ASSUME ClientTypes, WireTypes, NEW t \in Tasks, Recv(t), NEW c \in Conns, c = Conn(t),
           NEW s, s = task[t], NEW f, f = down[c][1]
    PROVE  /\ s.pc \in WaitPcs \cup BodyPcs /\ down[c] # <<>> /\ f \in Replies
           /\ \E z \in TaskStates :
                /\ task' = [task EXCEPT ![t] = z]
                /\ \/ /\ s.pc \in WaitPcs /\ ~f.bin /\ f.id = s.id /\ Release(t, z.pc)
                      /\ \/ (f.verb = "ok" \/ (s.pc = "making" /\ f.arg = 1)) /\ z = OnOk(s, f)
                         \/ /\ f.verb # "ok" /\ ~(s.pc = "making" /\ f.arg = 1)
                            /\ z = [task[t] EXCEPT !.pc = OnErr(t, f)]
                   \/ s.pc \in BodyPcs /\ f.bin /\ z.pc \in {"pull", "rclose", "done"} /\ Release(t, z.pc)
                   \/ /\ ~(s.pc \in WaitPcs /\ ~f.bin /\ f.id = s.id) /\ ~(s.pc \in BodyPcs /\ f.bin)
                      /\ z = s /\ UNCHANGED busy
<1>1. s \in TaskStates
  BY DEF ClientTypes
<1>2. (Waiting(t) <=> s.pc \in WaitPcs) /\ (Waiting2(t) <=> s.pc \in BodyPcs)
  BY DEF Waiting, Waiting2, WaitPcs, BodyPcs
<1>3. s.pc \in WaitPcs \cup BodyPcs /\ down[c] # <<>>
  BY <1>2 DEF Recv
<1>4. f \in Replies /\ f = Head(down[c])
  BY <1>3, TailFacts DEF WireTypes
<1>5. s.pc \in WaitPcs => s.pc \notin BodyPcs
  BY DEF WaitPcs, BodyPcs
<1>6. CASE s.pc \in WaitPcs /\ ~f.bin /\ f.id = s.id
  <2>1. CASE f.verb = "ok" \/ (s.pc = "making" /\ f.arg = 1)
    <3>1. task' = [task EXCEPT ![t] = OnOk(s, f)] /\ Release(t, OnOk(s, f).pc)
      BY <1>2, <1>4, <1>6, <2>1 DEF Recv, Exists
    <3> QED BY <1>1, <1>3, <1>4, <1>6, <2>1, <3>1, OkFacts
  <2>2. CASE ~(f.verb = "ok" \/ (s.pc = "making" /\ f.arg = 1))
    <3>1. PICK z : z = [task[t] EXCEPT !.pc = OnErr(t, f)]
      OBVIOUS
    <3>2. task' = [task EXCEPT ![t] = z] /\ Release(t, z.pc)
      BY <1>2, <1>4, <1>6, <2>2, <3>1 DEF Recv, Exists
    <3>3. z \in TaskStates
      BY <1>1, <3>1, ErrFacts
    <3> QED BY <1>3, <1>4, <1>6, <2>2, <3>1, <3>2, <3>3
  <2> QED BY <2>1, <2>2
<1>7. CASE s.pc \in BodyPcs /\ f.bin
  <2>1. f.n \in Nat /\ s.k + 1 \in Nat
    BY <1>1, <1>4 DEF Replies, TaskStates
  <2>2. CASE s.pc = "reading2" /\ f.n > 0
    <3>1. PICK z : z = [s EXCEPT !.pc = "pull", !.k = s.k + 1]
      OBVIOUS
    <3>2. task' = [task EXCEPT ![t] = z] /\ Release(t, z.pc)
      <4>1. z = [task[t] EXCEPT !.pc = "pull", !.k = @ + 1] /\ task[t].k \in Nat
        BY <1>1, <3>1 DEF TaskStates
      <4>2. ~Waiting(t) /\ Waiting2(t) /\ Head(down[Conn(t)]).bin /\ Head(down[Conn(t)]).n > 0
            /\ task[t].pc = "reading2" /\ Head(down[Conn(t)]).n # 0
        BY <1>2, <1>4, <1>5, <1>7, <2>1, <2>2
      <4> QED BY <4>1, <4>2 DEF Recv
    <3>3. z \in TaskStates /\ z.pc = "pull"
      BY <1>1, <2>1, <3>1 DEF TaskStates, RestPcs
    <3> QED BY <1>3, <1>4, <1>7, <3>2, <3>3
  <2>3. CASE s.pc = "reading2" /\ f.n = 0
    <3>1. PICK z : z = [s EXCEPT !.pc = "rclose"]
      OBVIOUS
    <3>2. task' = [task EXCEPT ![t] = z] /\ Release(t, z.pc)
      <4>1. z = [task[t] EXCEPT !.pc = "rclose"]
        BY <3>1
      <4>2. /\ ~Waiting(t) /\ Waiting2(t) /\ Head(down[Conn(t)]).bin /\ task[t].pc = "reading2"
            /\ Head(down[Conn(t)]).n = 0 /\ ~(Head(down[Conn(t)]).n > 0)
        BY <1>2, <1>4, <1>5, <1>7, <2>3
      <4> QED BY <4>1, <4>2 DEF Recv
    <3>3. z \in TaskStates /\ z.pc = "rclose"
      BY <1>1, <2>1, <3>1 DEF TaskStates, RestPcs
    <3> QED BY <1>3, <1>4, <1>7, <3>2, <3>3
  <2>4. CASE s.pc = "getting2"
    <3>1. PICK z : z = [s EXCEPT !.pc = "done", !.k = f.n]
      OBVIOUS
    <3>2. task' = [task EXCEPT ![t] = z] /\ Release(t, z.pc)
      BY <1>2, <1>4, <1>5, <1>7, <2>4, <3>1 DEF Recv
    <3>3. z \in TaskStates /\ z.pc = "done"
      BY <1>1, <2>1, <3>1 DEF TaskStates, RestPcs
    <3> QED BY <1>3, <1>4, <1>7, <3>2, <3>3
  <2> QED BY <1>7, <2>1, <2>2, <2>3, <2>4 DEF BodyPcs
<1>8. CASE ~(s.pc \in WaitPcs /\ ~f.bin /\ f.id = s.id) /\ ~(s.pc \in BodyPcs /\ f.bin)
  <2>1. task' = [task EXCEPT ![t] = s] /\ UNCHANGED busy
    BY <1>2, <1>4, <1>8 DEF Recv
  <2> QED BY <1>1, <1>3, <1>4, <1>8, <2>1
<1> QED BY <1>6, <1>7, <1>8

LEMMA TailFewer ==
    ASSUME NEW c \in Conns, WireTypes, down[c] # <<>>, down'[c] = Tail(down[c])
    PROVE  Fewer(c) /\ Tail(down[c]) \in Seq(Replies)
<1>1. PICK q : q \in Seq(Replies) /\ q = down[c] /\ q # <<>>
  BY DEF WireTypes
<1>2. PICK k \in Nat : k = Len(q) /\ k # 0
  BY <1>1, SeqFacts
<1>3. Tail(q) \in Seq(Replies) /\ Len(Tail(q)) = k - 1 /\ \A n \in 1..(k - 1) : Tail(q)[n] = q[n + 1]
  BY <1>1, <1>2, TailFacts
<1>4. ASSUME NEW n \in 1..(k - 1) PROVE \E m \in 1..k : Tail(q)[n] = q[m]
  <2>1. n + 1 \in 1..k
    BY <1>2
  <2> QED BY <1>3, <2>1
<1> QED BY <1>1, <1>2, <1>3, <1>4 DEF Fewer

\* The folders of a task that is no step ahead.
LEMMA FolderStill ==
    ASSUME NEW t \in Tasks, FolderOk(t), plan' = plan, dirs' = dirs, NEW z, task'[t] = z,
           z.k = task[t].k, z.pc \in {"mkdir", "failed"}, task[t].pc \in Ensuring \/ z.pc = "failed"
    PROVE  FolderOk(t)'
BY DEF FolderOk, Ensuring

\* One more folder.
LEMMA FolderMore ==
    ASSUME NEW t \in Tasks, FolderOk(t), plan' = plan, dirs' = dirs, NEW z, task'[t] = z,
           task[t].k \in Nat, z.k = task[t].k + 1, z.pc = "start", Folder(task[t].k + 1) \in dirs
    PROVE  FolderOk(t)'
<1>1. PICK k \in Nat : k = task[t].k
  OBVIOUS
<1>2. \A d \in 1..(k + 1) : d \in 1..k \/ d = k + 1
  OBVIOUS
<1>3. plan[t].kind = "folders" => \A d \in 1..k : Folder(d) \in dirs
  BY <1>1 DEF FolderOk
<1>4. plan[t].kind = "folders" => \A d \in 1..(k + 1) : Folder(d) \in dirs
  BY <1>1, <1>2, <1>3
<1>5. plan[t].kind = "folders" => \A d \in 1..z.k : Folder(d) \in dirs'
  BY <1>1, <1>4
<1> QED BY <1>5 DEF FolderOk, Folder, Ensuring

\* What a received frame means for the connection.
LEMMA RecvOpen ==
    ASSUME LinkInd, NEW t \in Tasks, NEW c \in Conns, c = Conn(t), link[c] = "open",
           task[t].pc \in WaitPcs \cup BodyPcs, down[c] # <<>>
    PROVE  /\ busy[c] = t /\ \A u \in Tasks \ {t} : Conn(u) = c => task[u].pc \notin Holding
           /\ up[c] = <<>> /\ pend[c] = None /\ remote[c] = None
           /\ \/ task[t].pc \in WaitPcs /\ Answered(c, t)
              \/ task[t].pc \in BodyPcs /\ Coming(c)
<1>1. OpenOk(c)
  BY DEF LinkInd, AllOpen
<1>2. busy[c] = t
  BY <1>1 DEF OpenOk, Holding
<1>3. Phase(c, t)
  BY <1>1, <1>2 DEF OpenOk
<1>4. \/ task[t].pc \in WaitPcs /\ Answered(c, t)
      \/ task[t].pc \in BodyPcs /\ Coming(c)
  <2>1. task[t].pc \notin {"closed", "renamed"}
    BY DEF WaitPcs, BodyPcs
  <2>2. ~Asked(c, t) /\ ~Sent(c, t) /\ ~AtServer(c, t)
    BY DEF Asked, Sent, AtServer
  <2> QED BY <1>3, <2>1, <2>2 DEF Phase
<1>5. up[c] = <<>> /\ pend[c] = None /\ remote[c] = None
  BY <1>4 DEF Answered, Coming
<1>6. \A u \in Tasks \ {t} : Conn(u) = c => task[u].pc \notin Holding
  BY <1>1, <1>2 DEF OpenOk
<1> QED BY <1>2, <1>4, <1>5, <1>6

LEMMA RecvKeeps ==
    ASSUME LinkInd, NEW t \in Tasks, Recv(t)
    PROVE  LinkInd'
<1>0. ClientTypes /\ WireTypes
  BY DEF LinkInd, LinkTypes
<1>1. PICK c \in Conns : c = Conn(t)
  BY <1>0, ConnIn
<1>2. PICK s : s \in TaskStates /\ s = task[t]
  BY <1>0 DEF ClientTypes
<1>3. PICK f : f = down[c][1]
  OBVIOUS
<1>4. s.pc \in WaitPcs \cup BodyPcs /\ down[c] # <<>> /\ f \in Replies
  BY <1>0, <1>1, <1>2, <1>3, RecvGives
<1>5. PICK z \in TaskStates :
        /\ task' = [task EXCEPT ![t] = z]
        /\ \/ /\ s.pc \in WaitPcs /\ ~f.bin /\ f.id = s.id /\ Release(t, z.pc)
              /\ \/ (f.verb = "ok" \/ (s.pc = "making" /\ f.arg = 1)) /\ z = OnOk(s, f)
                 \/ /\ f.verb # "ok" /\ ~(s.pc = "making" /\ f.arg = 1)
                    /\ z = [task[t] EXCEPT !.pc = OnErr(t, f)]
           \/ s.pc \in BodyPcs /\ f.bin /\ z.pc \in {"pull", "rclose", "done"} /\ Release(t, z.pc)
           \/ /\ ~(s.pc \in WaitPcs /\ ~f.bin /\ f.id = s.id) /\ ~(s.pc \in BodyPcs /\ f.bin)
              /\ z = s /\ UNCHANGED busy
  BY <1>0, <1>1, <1>2, <1>3, RecvGives
<1>6. task'[t] = z /\ \A u \in Tasks \ {t} : task'[u] = task[u]
  BY <1>0, <1>5 DEF ClientTypes
<1>7. PICK q : q = Tail(down[c]) /\ down' = [down EXCEPT ![c] = q]
  BY <1>1 DEF Recv
<1>8. down'[c] = q /\ Fewer(c) /\ q \in Seq(Replies)
  BY <1>0, <1>4, <1>7, TailFewer DEF WireTypes
<1>9. UNCHANGED <<ctr, up, link, pend, wsess, rsess, total, remote, fs, ino, dirs, plan>>
  BY DEF Recv, relay, files
<1>10. PICK b \in Tasks \cup {None} :
          /\ busy' = [busy EXCEPT ![c] = b] /\ (Holds(z.pc) => b = busy[c])
          /\ Release(t, z.pc) /\ ~Holds(z.pc) => b = None
  <2>0. busy[c] \in Tasks \cup {None}
    BY <1>0 DEF ClientTypes
  <2>1. CASE Release(t, z.pc)
    <3>1. PICK b : b = IF Holds(z.pc) THEN busy[c] ELSE None
      OBVIOUS
    <3>2. busy' = [busy EXCEPT ![c] = b]
      BY <1>1, <2>1, <3>1 DEF Release
    <3> QED BY <2>0, <3>1, <3>2
  <2>2. CASE UNCHANGED busy /\ ~Release(t, z.pc)
    <3>1. busy' = [busy EXCEPT ![c] = busy[c]]
      BY <1>0, <2>2 DEF ClientTypes
    <3> QED BY <2>0, <2>2, <3>1
  <2> QED BY <1>5, <2>1, <2>2
<1>11. \A u \in Tasks : Conn(u)' = Conn(u)
  BY <1>9 DEF Conn
<1>12. ASSUME s.pc \in WaitPcs, ~f.bin, f.id = s.id, z = OnOk(s, f)
       PROVE  /\ s.pc \in Fetching => z.pc \in BodyPcs
              /\ s.pc \notin Fetching => z.pc \in RestPcs
              /\ s.pc \in Ensuring => z.pc = "start" /\ z.k = s.k + 1
  BY <1>2, <1>4, <1>12, OkFacts
<1>13. ASSUME z = [task[t] EXCEPT !.pc = OnErr(t, f)]
       PROVE  /\ z.pc \in RestPcs \ {"closed", "renamed", "done"} /\ z.k = s.k
              /\ s.pc \in Ensuring => z.pc \in {"mkdir", "failed"}
  <2>1. ErrMakes(s, z)
    BY <1>2, <1>13, ErrFacts
  <2> QED BY <2>1 DEF ErrMakes
<1>14. OpenOk(c)'
  <2>1. CASE link[c] # "open"
    BY <1>9, <2>1 DEF OpenOk
  <2>2. CASE link[c] = "open"
    <3>1. /\ busy[c] = t /\ \A u \in Tasks \ {t} : Conn(u) = c => task[u].pc \notin Holding
          /\ up[c] = <<>> /\ pend[c] = None /\ remote[c] = None
          /\ \/ s.pc \in WaitPcs /\ Answered(c, t)
             \/ s.pc \in BodyPcs /\ Coming(c)
      BY <1>1, <1>2, <1>4, <2>2, RecvOpen
    <3>2. busy'[c] = b /\ up'[c] = <<>> /\ pend'[c] = None /\ remote'[c] = None /\ t # None
      BY <1>0, <1>9, <1>10, <3>1, LinkAssumption DEF ClientTypes
    <3>3. \A u \in Tasks \ {t} : Conn(u)' = c => task'[u].pc \notin Holding
      BY <1>6, <1>11, <3>1
    <3>4. PICK g : g \in Seq(Replies) /\ g = down[c] /\ g # <<>>
      BY <1>0, <1>4 DEF WireTypes
    <3>5. CASE z.pc \in BodyPcs /\ q # <<>> /\ Len(q) = 1 /\ q[1].bin
      <4>1. Holds(z.pc) /\ b = t
        BY <1>10, <3>1, <3>5 DEF Holds, BodyPcs
      <4>2. Coming(c)'
        BY <1>8, <3>2, <3>5 DEF Coming
      <4>3. Phase(c, t)'
        BY <1>6, <3>5, <4>2 DEF Phase
      <4> QED BY <1>1, <1>11, <3>2, <3>3, <4>1, <4>3 DEF OpenOk
    <3>6. CASE z.pc \in RestPcs /\ Release(t, z.pc) /\ q = <<>>
      <4>1. Quiet(c)'
        BY <1>8, <3>2, <3>6 DEF Quiet
      <4>2. CASE z.pc \in {"closed", "renamed"}
        <5>1. b = t
          BY <1>10, <3>1, <4>2 DEF Holds
        <5>2. Phase(c, t)'
          BY <1>6, <4>1, <4>2 DEF Phase
        <5> QED BY <1>1, <1>11, <3>2, <3>3, <5>1, <5>2 DEF OpenOk
      <4>3. CASE z.pc \notin {"closed", "renamed"}
        <5>1. b = None /\ z.pc \notin Holding
          BY <1>10, <3>6, <4>3 DEF Holds, RestPcs, Holding, WaitPcs, BodyPcs
        <5> QED BY <1>6, <3>2, <3>3, <4>1, <5>1, LinkAssumption DEF OpenOk
      <4> QED BY <4>2, <4>3
    <3>7. CASE s.pc \in WaitPcs /\ Answered(c, t)
      <4>1. ~f.bin /\ f.id = s.id /\ s.pc \notin BodyPcs
        BY <1>2, <1>3, <3>7 DEF Answered, WaitPcs, BodyPcs
      <4>2. Len(g) = (IF s.pc \in Fetching /\ f.verb = "ok" THEN 2 ELSE 1) /\ (Len(g) = 2 => g[2].bin)
        BY <1>2, <1>3, <3>4, <3>7 DEF Answered
      <4>3. Release(t, z.pc)
        BY <1>5, <3>7, <4>1
      <4>4. CASE s.pc \in Fetching /\ f.verb = "ok"
        <5>1. Len(g) = 2 /\ g[2].bin
          BY <4>2, <4>4
        <5>2. q = Tail(g) /\ Len(q) = 1 /\ q[1] = g[2]
          <6>1. Len(g) <= 2 /\ Len(g) = 1 + 1
            BY <5>1
          <6>2. Len(Tail(g)) = 1
            BY <3>4, <6>1, TailFacts
          <6> QED BY <1>7, <3>4, <6>1, <6>2, ShortTail
        <5>3. z = OnOk(s, f)
          BY <1>5, <3>7, <4>1, <4>4
        <5>4. z.pc \in BodyPcs
          BY <1>12, <3>7, <4>1, <4>4, <5>3
        <5>5. q # <<>>
          BY <1>8, <5>2, OneSeq
        <5> QED BY <3>5, <5>1, <5>2, <5>4, <5>5
      <4>5. CASE ~(s.pc \in Fetching /\ f.verb = "ok")
        <5>1. Len(g) = 1
          BY <4>2, <4>5
        <5>2. q = <<>>
          BY <1>7, <3>4, <5>1, ShortTail
        <5>3. z.pc \in RestPcs
          <6>1. CASE z = OnOk(s, f) /\ (f.verb = "ok" \/ s.pc = "making")
            <7>1. s.pc \notin Fetching
              BY <4>5, <6>1 DEF Fetching
            <7> QED BY <1>12, <3>7, <4>1, <6>1, <7>1
          <6>2. CASE z = [task[t] EXCEPT !.pc = OnErr(t, f)]
            BY <1>13, <6>2
          <6> QED BY <1>5, <3>7, <4>1, <6>1, <6>2
        <5> QED BY <3>6, <4>3, <5>2, <5>3
      <4> QED BY <4>4, <4>5
    <3>8. CASE s.pc \in BodyPcs /\ Coming(c)
      <4>1. f.bin /\ s.pc \notin WaitPcs /\ Len(g) = 1
        BY <1>3, <3>4, <3>8 DEF Coming, WaitPcs, BodyPcs
      <4>2. z.pc \in {"pull", "rclose", "done"} /\ Release(t, z.pc)
        BY <1>5, <3>8, <4>1
      <4>3. q = <<>>
        BY <1>7, <3>4, <4>1, ShortTail
      <4> QED BY <3>6, <4>2, <4>3 DEF RestPcs
    <3> QED BY <3>1, <3>7, <3>8
  <2> QED BY <2>1, <2>2
<1>15. FolderOk(t)'
  <2>0. FolderOk(t)
    BY DEF LinkInd, AllFolders
  <2>1. CASE z = s
    BY <1>1, <1>2, <1>6, <1>8, <1>9, <2>0, <2>1, FolderSame
  <2>2. CASE plan[t].kind # "folders"
    BY <1>9, <2>2 DEF FolderOk
  <2>3. CASE plan[t].kind = "folders" /\ z # s
    <3>1. s.pc \in Ensuring /\ s.pc \notin BodyPcs
      BY <1>2, <1>4, <2>0, <2>3 DEF FolderOk, WaitPcs, BodyPcs, Ensuring
    <3>2. CASE (f.verb = "ok" \/ (s.pc = "making" /\ f.arg = 1)) /\ z = OnOk(s, f)
      <4>1. s.pc \in WaitPcs /\ ~f.bin /\ f.id = s.id
        BY <1>5, <2>3, <3>1
      <4>2. Tells(f, s)
        BY <3>2, <4>1 DEF Tells
      <4>3. Folder(s.k + 1) \in dirs
        <5>1. 1 \in 1..Len(down[c])
          <6>1. PICK k \in Nat : k = Len(down[c]) /\ k # 0
            BY <1>0, <1>4, SeqFacts DEF WireTypes
          <6> QED BY <6>1
        <5> QED BY <1>1, <1>2, <1>3, <2>0, <2>3, <3>1, <4>2, <5>1 DEF FolderOk
      <4>4. z.pc = "start" /\ z.k = s.k + 1 /\ s.k \in Nat
        BY <1>2, <1>12, <3>1, <3>2, <4>1 DEF TaskStates
      <4> QED BY <1>2, <1>6, <1>9, <2>0, <4>3, <4>4, FolderMore
    <3>3. CASE z = [task[t] EXCEPT !.pc = OnErr(t, f)]
      BY <1>2, <1>6, <1>9, <1>13, <2>0, <3>1, <3>3, FolderStill
    <3> QED BY <1>5, <2>3, <3>1, <3>2, <3>3
  <2> QED BY <2>1, <2>2, <2>3
<1> QED BY <1>1, <1>5, <1>7, <1>8, <1>9, <1>10, <1>14, <1>15, ClientMoves

LEMMA ClosedKeeps ==
    ASSUME LinkInd, NEW t \in Tasks, Closed(t)
    PROVE  LinkInd'
<1>0. ClientTypes /\ WireTypes
  BY DEF LinkInd, LinkTypes
<1>1. PICK c \in Conns : c = Conn(t)
  BY <1>0, ConnIn
<1>2. PICK s : s \in TaskStates /\ s = task[t]
  BY <1>0 DEF ClientTypes
<1>3. PICK z : z = [s EXCEPT !.pc = "failed"]
  OBVIOUS
<1>4. z \in TaskStates /\ z.pc = "failed" /\ z.k = s.k
  BY <1>2, <1>3 DEF TaskStates, RestPcs
<1>5. task' = [task EXCEPT ![t] = z]
  BY <1>2, <1>3 DEF Closed
<1>6. PICK b \in Tasks \cup {None} : busy' = [busy EXCEPT ![c] = b]
  BY <1>0, <1>1 DEF Closed, ClientTypes
<1>7. /\ UNCHANGED <<ctr, up, link, pend, wsess, rsess, total, remote, fs, ino, dirs, plan>>
      /\ UNCHANGED down /\ link[c] # "open"
  BY <1>1 DEF Closed, wire, relay, files
<1>8. PICK q \in Seq(Replies) : q = down[c] /\ down' = [down EXCEPT ![c] = q]
  BY <1>0, <1>7 DEF WireTypes
<1>9. Fewer(c)
  BY <1>7 DEF Fewer
<1>10. OpenOk(c)'
  BY <1>7 DEF OpenOk
<1>11. task'[t] = z
  BY <1>0, <1>5 DEF ClientTypes
<1>12. FolderOk(t)'
  BY <1>2, <1>4, <1>7, <1>11, FolderStill DEF LinkInd, AllFolders
<1> QED BY <1>1, <1>4, <1>5, <1>6, <1>7, <1>8, <1>9, <1>10, <1>12, ClientMoves

LEMMA FoldersDoneKeeps ==
    ASSUME LinkInd, NEW t \in Tasks, FoldersDone(t)
    PROVE  LinkInd'
<1>0. ClientTypes /\ WireTypes
  BY DEF LinkInd, LinkTypes
<1>1. PICK c \in Conns : c = Conn(t)
  BY <1>0, ConnIn
<1>2. PICK s : s \in TaskStates /\ s = task[t] /\ s.pc = "start" /\ s.k = Depth
  BY <1>0 DEF ClientTypes, FoldersDone, TaskAt
<1>3. PICK z : z = [s EXCEPT !.pc = "done"]
  OBVIOUS
<1>4. z \in TaskStates /\ z.pc = "done" /\ z.k = s.k
  BY <1>2, <1>3 DEF TaskStates, RestPcs
<1>5. task' = [task EXCEPT ![t] = z]
  BY <1>2, <1>3 DEF FoldersDone
<1>6. UNCHANGED <<busy, down, ctr, up, link, pend, wsess, rsess, total, remote, fs, ino, dirs, plan>>
  BY <1>1 DEF FoldersDone, wire, relay, files
<1>7. PICK b \in Tasks \cup {None} : b = busy[c] /\ busy' = [busy EXCEPT ![c] = b]
  BY <1>0, <1>6 DEF ClientTypes
<1>8. PICK q \in Seq(Replies) : q = down[c] /\ down' = [down EXCEPT ![c] = q]
  BY <1>0, <1>6 DEF WireTypes
<1>9. Fewer(c)
  BY <1>6 DEF Fewer
<1>10. task'[t] = z /\ \A u \in Tasks \ {t} : task'[u] = task[u]
  BY <1>0, <1>5 DEF ClientTypes
<1>11. OpenOk(c)'
  <2>1. OpenOk(c)
    BY DEF LinkInd, AllOpen
  <2>2. s.pc \notin Holding /\ z.pc \notin Holding
    BY <1>2, <1>4 DEF Holding, WaitPcs, BodyPcs
  <2>3. ~Phase(c, t)
    BY <1>2, <2>2 DEF Phase, Holding
  <2>4. CASE link[c] # "open"
    BY <1>6, <2>4 DEF OpenOk
  <2>5. CASE link[c] = "open"
    <3>1. busy[c] # t
      BY <2>1, <2>3, <2>5 DEF OpenOk
    <3>2. ASSUME NEW u \in Tasks \ {t}, Phase(c, u) PROVE Phase(c, u)'
      BY <1>6, <1>10, <3>2 DEF Phase, Quiet, Asked, Sent, AtServer, Answered, Coming
    <3>3. \A u \in Tasks : Conn(u)' = Conn(u)
      BY <1>6 DEF Conn
    <3>4. Quiet(c)' = Quiet(c)
      BY <1>6 DEF Quiet
    <3>5. ASSUME NEW u \in Tasks, Conn(u)' = c, task'[u].pc \in Holding PROVE busy'[c] = u
      BY <1>6, <1>10, <2>1, <2>2, <2>5, <3>3, <3>5 DEF OpenOk
    <3>6. ASSUME NEW u \in Tasks, busy'[c] = u PROVE Conn(u)' = c /\ Phase(c, u)'
      BY <1>6, <2>1, <2>5, <3>1, <3>2, <3>3, <3>6 DEF OpenOk
    <3>7. busy'[c] = None => Quiet(c)'
      BY <1>6, <2>1, <2>5, <3>4 DEF OpenOk
    <3> QED BY <3>5, <3>6, <3>7 DEF OpenOk
  <2> QED BY <2>4, <2>5
<1>12. FolderOk(t)'
  <2>1. FolderOk(t)
    BY DEF LinkInd, AllFolders
  <2> QED BY <1>2, <1>4, <1>6, <1>10, <2>1 DEF FolderOk, Ensuring
<1> QED BY <1>1, <1>4, <1>5, <1>6, <1>7, <1>8, <1>9, <1>11, <1>12, ClientMoves

\* What the calls name.
LEMMA NamesFit ==
    ASSUME ClientTypes, NEW t \in Tasks
    PROVE  /\ Final(Name(t)) \in FilePaths /\ Temp(t) \in FilePaths
           /\ [name |-> Name(t), tmp |-> TempName(t)] \in FilePaths
           /\ FilePaths \subseteq Args /\ task[t].h \in Args /\ 0 \in Args
           /\ [from |-> Temp(t), to |-> Final(Name(t))] \in [from : FilePaths, to : FilePaths]
           /\ [from : FilePaths, to : FilePaths] \subseteq Args
           /\ Folder(1) \in Args /\ task[t].k + 1 \in Nat /\ Folder(task[t].k + 1) \in Args
<1>1. /\ task[t].tmp \in Nat /\ task[t].h \in Nat /\ task[t].k + 1 \in Nat
      /\ ctr[Conn(t)] + 1 \in Nat /\ Name(t) \in {p[u].name : p \in Plans, u \in Tasks}
  BY ConnIn DEF ClientTypes, TaskStates
<1>2. /\ Final(Name(t)) \in FilePaths /\ Temp(t) \in FilePaths
      /\ [name |-> Name(t), tmp |-> TempName(t)] \in FilePaths
  BY <1>1 DEF Final, Temp, TempName, FilePaths
<1>3. \A k \in Nat : Folder(k) \in Args
  BY DEF Folder, Args
<1> QED BY <1>1, <1>2, <1>3 DEF Args

\* A call that fits keeps the invariant, wherever it comes from.
Asking(t, verb, arg, body, pc, skip) ==
    /\ verb \in Verbs /\ arg \in Args /\ skip \in Nat
    /\ CallFits(t, verb, arg, body, pc) /\ Call(t, verb, arg, body, pc, skip)
LEMMA AskingKeeps ==
    ASSUME LinkInd, NEW t \in Tasks, NEW verb, NEW arg, NEW body, NEW pc, NEW skip,
           Asking(t, verb, arg, body, pc, skip)
    PROVE  LinkInd'
BY CallKeeps DEF Asking

LEMMA TaskCallKeeps ==
    ASSUME LinkInd, NEW t \in Tasks,
           \/ UploadOpen(t) \/ UploadChunk(t) \/ UploadClose(t) \/ UploadRename(t) \/ UploadStat(t)
           \/ UploadAbort(t) \/ ReadOpenCall(t) \/ ReadChunkCall(t) \/ ReadCloseCall(t) \/ ReadCall(t)
           \/ WriteCall(t) \/ StrayChunkCall(t) \/ DeleteCall(t) \/ StatCall(t) \/ ListCall(t)
           \/ FsInfoCall(t) \/ EnsureDirStat(t) \/ EnsureDirMake(t)
    PROVE  LinkInd'
<1>0. ClientTypes
  BY DEF LinkInd, LinkTypes
<1>1. /\ Final(Name(t)) \in FilePaths /\ Temp(t) \in FilePaths
      /\ [name |-> Name(t), tmp |-> TempName(t)] \in FilePaths
      /\ FilePaths \subseteq Args /\ task[t].h \in Args /\ 0 \in Args
      /\ [from |-> Temp(t), to |-> Final(Name(t))] \in [from : FilePaths, to : FilePaths]
      /\ [from : FilePaths, to : FilePaths] \subseteq Args
      /\ Folder(1) \in Args /\ task[t].k + 1 \in Nat /\ Folder(task[t].k + 1) \in Args
  BY <1>0, NamesFit
<1>2. plan[t].chunks \in Nat /\ 1 \in Nat /\ 0 \in Nat
  BY <1>0, ConnIn
<1>3. CASE UploadOpen(t)
  <2>1. PICK p \in FilePaths : p = [name |-> Name(t), tmp |-> TempName(t)]
    BY <1>1
  <2>2. TaskAt(t, {"upload", "stream"}, "start") /\ Call(t, "write_open", p, <<>>, "opening", 1)
    BY <1>3, <2>1 DEF UploadOpen
  <2>3. p \in Args
    BY <1>1, <2>1
  <2>9. Asking(t, "write_open", p, <<>>, "opening", 1)
    BY <1>2, <2>2, <2>3 DEF Asking, CallFits, TaskAt, Verbs, WaitPcs, BodyPcs,
            ArgFits, Ensuring, Loads, Fetching
  <2> QED BY <2>9, AskingKeeps
<1>4. CASE UploadChunk(t)
  <2>1. TaskAt(t, {"upload", "stream"}, "chunks") /\ Call(t, "write_chunk", task[t].h, <<Binary(1)>>, "sending", 0)
    BY <1>4 DEF UploadChunk
  <2>9. Asking(t, "write_chunk", task[t].h, <<Binary(1)>>, "sending", 0)
    BY <1>1, <1>2, <2>1 DEF Asking, CallFits, TaskAt, Verbs, WaitPcs, BodyPcs,
            ArgFits, Ensuring, Loads, Fetching
  <2> QED BY <2>9, AskingKeeps
<1>5. CASE UploadClose(t)
  <2>1. TaskAt(t, {"upload", "stream"}, "chunks") /\ Call(t, "write_close", task[t].h, <<>>, "closing", 0)
    BY <1>5 DEF UploadClose
  <2>9. Asking(t, "write_close", task[t].h, <<>>, "closing", 0)
    BY <1>1, <1>2, <2>1 DEF Asking, CallFits, TaskAt, Verbs, WaitPcs, BodyPcs,
            ArgFits, Ensuring, Loads, Fetching
  <2> QED BY <2>9, AskingKeeps
<1>6. CASE UploadRename(t)
  <2>1. PICK a : a = [from |-> Temp(t), to |-> Final(Name(t))]
    OBVIOUS
  <2>2. TaskAt(t, {"upload", "stream"}, "closed") /\ Call(t, "rename", a, <<>>, "renaming", 0)
    BY <1>6, <2>1 DEF UploadRename
  <2>3. a \in Args /\ a \in [from : FilePaths, to : FilePaths]
    BY <1>1, <2>1
  <2>9. Asking(t, "rename", a, <<>>, "renaming", 0)
    BY <1>2, <2>2, <2>3 DEF Asking, CallFits, TaskAt, Verbs, WaitPcs, BodyPcs,
            ArgFits, Ensuring, Loads, Fetching
  <2> QED BY <2>9, AskingKeeps
<1>7. CASE UploadStat(t)
  <2>1. TaskAt(t, {"upload", "stream"}, "renamed") /\ Call(t, "stat", Final(Name(t)), <<>>, "calling", 0)
    BY <1>7 DEF UploadStat
  <2>9. Asking(t, "stat", Final(Name(t)), <<>>, "calling", 0)
    BY <1>1, <1>2, <2>1 DEF Asking, CallFits, TaskAt, Verbs, WaitPcs, BodyPcs,
            ArgFits, Ensuring, Loads, Fetching
  <2> QED BY <2>9, AskingKeeps
<1>8. CASE UploadAbort(t)
  <2>1. TaskAt(t, {"stream"}, "chunks") /\ Call(t, "write_abort", task[t].h, <<>>, "aborting", 0)
    BY <1>8 DEF UploadAbort
  <2>9. Asking(t, "write_abort", task[t].h, <<>>, "aborting", 0)
    BY <1>1, <1>2, <2>1 DEF Asking, CallFits, TaskAt, Verbs, WaitPcs, BodyPcs,
            ArgFits, Ensuring, Loads, Fetching
  <2> QED BY <2>9, AskingKeeps
<1>9. CASE ReadOpenCall(t)
  <2>1. TaskAt(t, {"download"}, "start") /\ Call(t, "read_open", Final(Name(t)), <<>>, "ropening", 0)
    BY <1>9 DEF ReadOpenCall, CallAt
  <2>9. Asking(t, "read_open", Final(Name(t)), <<>>, "ropening", 0)
    BY <1>1, <1>2, <2>1 DEF Asking, CallFits, TaskAt, Verbs, WaitPcs, BodyPcs,
            ArgFits, Ensuring, Loads, Fetching
  <2> QED BY <2>9, AskingKeeps
<1>10. CASE ReadChunkCall(t)
  <2>1. TaskAt(t, {"download"}, "pull") /\ Call(t, "read_chunk", task[t].h, <<>>, "reading", 0)
    BY <1>10 DEF ReadChunkCall, CallAt
  <2>9. Asking(t, "read_chunk", task[t].h, <<>>, "reading", 0)
    BY <1>1, <1>2, <2>1 DEF Asking, CallFits, TaskAt, Verbs, WaitPcs, BodyPcs,
            ArgFits, Ensuring, Loads, Fetching
  <2> QED BY <2>9, AskingKeeps
<1>11. CASE ReadCloseCall(t)
  <2>1. PICK pc0 \in {"rclose", "pull", "rabort"}, pc \in {"rclosing", "aborting"} :
           TaskAt(t, {"download"}, pc0) /\ Call(t, "read_close", task[t].h, <<>>, pc, 0)
    BY <1>11 DEF ReadCloseCall, CallAt
  <2>9. Asking(t, "read_close", task[t].h, <<>>, pc, 0)
    BY <1>1, <1>2, <2>1 DEF Asking, CallFits, TaskAt, Verbs, WaitPcs, BodyPcs,
            ArgFits, Ensuring, Loads, Fetching
  <2> QED BY <2>9, AskingKeeps
<1>12. CASE ReadCall(t)
  <2>1. TaskAt(t, {"read"}, "start") /\ Call(t, "read", Final(Name(t)), <<>>, "getting", 0)
    BY <1>12 DEF ReadCall, CallAt
  <2>9. Asking(t, "read", Final(Name(t)), <<>>, "getting", 0)
    BY <1>1, <1>2, <2>1 DEF Asking, CallFits, TaskAt, Verbs, WaitPcs, BodyPcs,
            ArgFits, Ensuring, Loads, Fetching
  <2> QED BY <2>9, AskingKeeps
<1>13. CASE WriteCall(t)
  <2>1. PICK n \in Nat : n = plan[t].chunks
    BY <1>2
  <2>2. TaskAt(t, {"write"}, "start") /\ Call(t, "write", Final(Name(t)), <<Binary(n)>>, "calling", 0)
    BY <1>13, <2>1 DEF WriteCall, CallAt
  <2>9. Asking(t, "write", Final(Name(t)), <<Binary(n)>>, "calling", 0)
    BY <1>1, <1>2, <2>2 DEF Asking, CallFits, TaskAt, Verbs, WaitPcs, BodyPcs,
            ArgFits, Ensuring, Loads, Fetching
  <2> QED BY <2>9, AskingKeeps
<1>14. CASE StrayChunkCall(t)
  <2>1. TaskAt(t, {"stray"}, "start") /\ Call(t, "write_chunk", 0, <<Binary(1)>>, "calling", 0)
    BY <1>14 DEF StrayChunkCall, CallAt
  <2>9. Asking(t, "write_chunk", 0, <<Binary(1)>>, "calling", 0)
    BY <1>1, <1>2, <2>1 DEF Asking, CallFits, TaskAt, Verbs, WaitPcs, BodyPcs,
            ArgFits, Ensuring, Loads, Fetching
  <2> QED BY <2>9, AskingKeeps
<1>15. CASE DeleteCall(t) \/ StatCall(t)
  <2>1. PICK kind \in {"delete", "stat"} :
           TaskAt(t, {kind}, "start") /\ Call(t, kind, Final(Name(t)), <<>>, "calling", 0)
    BY <1>15 DEF DeleteCall, StatCall, CallAt
  <2>9. Asking(t, kind, Final(Name(t)), <<>>, "calling", 0)
    BY <1>1, <1>2, <2>1 DEF Asking, CallFits, TaskAt, Verbs, WaitPcs, BodyPcs,
            ArgFits, Ensuring, Loads, Fetching
  <2> QED BY <2>9, AskingKeeps
<1>16. CASE ListCall(t) \/ FsInfoCall(t)
  <2>1. PICK kind \in {"list", "fs_info"} :
           TaskAt(t, {kind}, "start") /\ Call(t, kind, Folder(1), <<>>, "calling", 0)
    BY <1>16 DEF ListCall, FsInfoCall, CallAt
  <2>9. Asking(t, kind, Folder(1), <<>>, "calling", 0)
    BY <1>1, <1>2, <2>1 DEF Asking, CallFits, TaskAt, Verbs, WaitPcs, BodyPcs,
            ArgFits, Ensuring, Loads, Fetching
  <2> QED BY <2>9, AskingKeeps
<1>17. CASE EnsureDirStat(t)
  <2>1. PICK a \in Args : a = Folder(task[t].k + 1)
    BY <1>1
  <2>2. TaskAt(t, {"folders"}, "start") /\ Call(t, "stat", a, <<>>, "statting", 0)
    BY <1>17, <2>1 DEF EnsureDirStat, CallAt
  <2>9. Asking(t, "stat", a, <<>>, "statting", 0)
    BY <1>2, <2>1, <2>2 DEF Asking, CallFits, TaskAt, Verbs, WaitPcs, BodyPcs,
            ArgFits, Ensuring, Loads, Fetching
  <2> QED BY <2>9, AskingKeeps
<1>18. CASE EnsureDirMake(t)
  <2>1. PICK a \in Args : a = Folder(task[t].k + 1)
    BY <1>1
  <2>2. TaskAt(t, {"folders"}, "mkdir") /\ Call(t, "mkdir", a, <<>>, "making", 0)
    BY <1>18, <2>1 DEF EnsureDirMake, CallAt
  <2>9. Asking(t, "mkdir", a, <<>>, "making", 0)
    BY <1>2, <2>1, <2>2 DEF Asking, CallFits, TaskAt, Verbs, WaitPcs, BodyPcs,
            ArgFits, Ensuring, Loads, Fetching
  <2> QED BY <2>9, AskingKeeps
<1> QED BY <1>3, <1>4, <1>5, <1>6, <1>7, <1>8, <1>9, <1>10, <1>11, <1>12, <1>13, <1>14, <1>15,
           <1>16, <1>17, <1>18
-----------------------------------------------------------------------------
(* The relay's side.                                                       *)
Elsewhere(c) ==
    \A d \in Conns \ {c} : /\ SameConn(d) /\ wsess'[d] = wsess[d] /\ rsess'[d] = rsess[d]
                           /\ total'[d] = total[d]
Here(c) ==
    /\ OpenOk(c)' /\ Shape(c)' /\ BuffersCounted(c)'
    /\ \A t \in Tasks : Conn(t) = c => FolderOk(t)'

\* A step of the relay is about one connection.
LEMMA RelayMoves ==
    ASSUME LinkInd, NEW c \in Conns, UNCHANGED <<ctr, plan, task>>, LinkTypes', dirs \subseteq dirs',
           Elsewhere(c), Here(c)
    PROVE  LinkInd'
<1>0. ClientTypes /\ WireTypes
  BY DEF LinkInd, LinkTypes
<1>1. ASSUME NEW d \in Conns \ {c} PROVE OpenOk(d)' /\ Shape(d)' /\ BuffersCounted(d)'
  <2>1. SameConn(d) /\ wsess'[d] = wsess[d] /\ rsess'[d] = rsess[d] /\ total'[d] = total[d]
    BY DEF Elsewhere
  <2>2. OpenOk(d) /\ Shape(d) /\ BuffersCounted(d)
    BY DEF LinkInd, AllOpen, AllShapes, AllCounted
  <2>3. SameTasks(d)
    BY DEF SameTasks
  <2>4. OpenOk(d)'
    BY <2>1, <2>2, <2>3, OpenSame
  <2>5. Shape(d)' /\ BuffersCounted(d)'
    BY <2>1, <2>2 DEF Shape, BuffersCounted, SameConn
  <2> QED BY <2>4, <2>5
<1>2. ASSUME NEW t \in Tasks, Conn(t) # c PROVE FolderOk(t)'
  <2>1. PICK d \in Conns \ {c} : d = Conn(t)
    BY <1>0, <1>2, ConnIn
  <2>2. down'[d] = down[d]
    BY <2>1 DEF Elsewhere, SameConn
  <2>3. Fewer(d)
    BY <2>2 DEF Fewer
  <2> QED BY <2>1, <2>3, FolderSame DEF LinkInd, AllFolders
<1>3. AllOpen' /\ AllShapes' /\ AllCounted'
  BY <1>1 DEF AllOpen, AllShapes, AllCounted, Here
<1>4. AllFolders'
  BY <1>2 DEF AllFolders, Here
<1> QED BY <1>3, <1>4 DEF LinkInd

\* Whose call the relay is at.
LEMMA RelayFinds ==
    ASSUME LinkInd, NEW c \in Conns, link[c] = "open", up[c] # <<>> \/ remote[c] # None
    PROVE  \E t \in Tasks :
              /\ busy[c] = t /\ Conn(t) = c /\ task[t].pc \in WaitPcs /\ down[c] = <<>>
              /\ Asked(c, t) \/ Sent(c, t) \/ AtServer(c, t)
              /\ \A u \in Tasks \ {t} : Conn(u) = c => task[u].pc \notin Holding
<1>1. OpenOk(c) /\ ~Quiet(c) /\ ~Coming(c)
  BY DEF LinkInd, AllOpen, Quiet, Coming
<1>2. PICK t \in Tasks : busy[c] = t
  BY <1>1 DEF OpenOk, LinkInd, LinkTypes, ClientTypes
<1>3. Conn(t) = c /\ Phase(c, t)
  BY <1>1, <1>2 DEF OpenOk
<1>4. ~Answered(c, t)
  BY DEF Answered
<1>5. task[t].pc \in WaitPcs /\ (Asked(c, t) \/ Sent(c, t) \/ AtServer(c, t))
  BY <1>1, <1>3, <1>4 DEF Phase
<1>6. \A u \in Tasks \ {t} : Conn(u) = c => task[u].pc \notin Holding
  BY <1>1, <1>2 DEF OpenOk
<1>7. down[c] = <<>>
  BY <1>5 DEF Asked, Sent, AtServer
<1> QED BY <1>2, <1>3, <1>5, <1>6, <1>7

\* The call goes on to its next phase.
LEMMA PhaseNext ==
    ASSUME NEW c \in Conns, NEW t \in Tasks, LinkInd, UNCHANGED <<plan, task>>, busy'[c] = busy[c], link[c] = "open",
           busy[c] = t, Conn(t) = c, task[t].pc \in WaitPcs,
           Sent(c, t)' \/ AtServer(c, t)' \/ Answered(c, t)'
    PROVE  OpenOk(c)'
<1>1. OpenOk(c)
  BY DEF LinkInd, AllOpen
<1>2. \A u \in Tasks : Conn(u)' = Conn(u) /\ task'[u] = task[u]
  BY DEF Conn
<1>3. Phase(c, t)'
  BY <1>2 DEF Phase
<1>4. \A u \in Tasks : Conn(u) = c /\ task[u].pc \in Holding => busy[c] = u
  BY <1>1 DEF OpenOk
<1>5. t # None
  BY LinkAssumption
<1> QED BY <1>2, <1>3, <1>4, <1>5 DEF OpenOk

LEMMA ReplyDown ==
    ASSUME WireTypes, NEW c \in Conns, NEW frames, frames \in Seq(Replies), Reply(c, frames)
    PROVE  \E q \in Seq(Replies) :
              /\ down' = [down EXCEPT ![c] = q]
              /\ link[c] = "open" => q = down[c] \o frames
              /\ link[c] # "open" => q = down[c]
<1>1. down[c] \in Seq(Replies)
  BY DEF WireTypes
<1>2. down[c] \o frames \in Seq(Replies)
  BY <1>1
<1>3. CASE link[c] = "open"
  BY <1>2, <1>3 DEF Reply
<1>4. CASE link[c] # "open"
  BY <1>1, <1>4 DEF Reply
<1> QED BY <1>3, <1>4

\* Requests only go from the front.
LEMMA NextUp ==
    ASSUME LinkInd, NEW c \in Conns, Next1(c), up[c] # <<>>
    PROVE  /\ up' = [up EXCEPT ![c] = Tail(up[c])] /\ Tail(up[c]) \in Seq(Asks) /\ Shrinks(c)
           /\ up'[c] = Tail(up[c]) /\ up[c][1] = Head(up[c]) /\ up[c][1] \in Asks /\ Len(up[c]) <= 2
           /\ up[c] \in Seq(Asks)
<1>1. up \in [Conns -> Seq(Asks)] /\ Shape(c)
  BY DEF LinkInd, LinkTypes, WireTypes, AllShapes
<1>2. Tail(up[c]) \in Seq(Asks) /\ up[c][1] = Head(up[c]) /\ up[c][1] \in Asks
  BY <1>1, TailFacts
<1>3. up' = [up EXCEPT ![c] = Tail(up[c])] /\ up'[c] = Tail(up[c])
  BY <1>1 DEF Next1
<1> QED BY <1>1, <1>2, <1>3 DEF Shrinks, Shape

\* The folders of the tasks of a connection, when it hears nothing or nothing about one.
LEMMA FoldersHere ==
    ASSUME LinkInd, NEW c \in Conns, UNCHANGED <<plan, task>>, dirs \subseteq dirs',
           NEW t \in Tasks, Conn(t) = c, down'[c] = down[c] \/ task[t].pc \notin Ensuring
    PROVE  FolderOk(t)'
<1>1. FolderOk(t)
  BY DEF LinkInd, AllFolders
<1>2. CASE down'[c] = down[c]
  <2>1. Fewer(c)
    BY <1>2 DEF Fewer
  <2> QED BY <1>1, <2>1, FolderSame
<1>3. CASE task[t].pc \notin Ensuring
  BY <1>1, <1>3 DEF FolderOk
<1> QED BY <1>2, <1>3

\* What a client that waits for something else hears nothing of.
LEMMA PlainTasks ==
    ASSUME NEW c \in Conns, NEW t \in Tasks, Plain(task[t]),
           \A u \in Tasks \ {t} : Conn(u) = c => task[u].pc \notin Holding
    PROVE  \A u \in Tasks : Conn(u) = c => task[u].pc \notin Ensuring
BY DEF Plain, Holding, WaitPcs, Ensuring

\* The answer to a request, and what it may say of a folder.
AnswerFits(f, frames) ==
    /\ frames \in Seq(Replies) /\ frames # <<>> /\ ~frames[1].bin /\ frames[1].id = f.id
    /\ Len(frames) = IF f.verb \in {"read_chunk", "read"} /\ frames[1].verb = "ok" THEN 2 ELSE 1
    /\ Len(frames) = 2 => frames[2].bin
FolderSays(f, frames, found) ==
    \A n \in 1..Len(frames) :
        /\ f.verb = "stat" /\ frames[n].verb = "ok" => f.arg \in found
        /\ f.verb = "mkdir" /\ (frames[n].verb = "ok" \/ frames[n].arg = 1) => f.arg \in found

\* Protocol state that a step of the relay does not touch.
Calm == UNCHANGED <<ctr, busy, plan, task>>
\* Wire, calls and folders of a connection after a step of the relay.
Told(c) ==
    /\ WireTypes' /\ OpenOk(c)' /\ Shrinks(c)
    /\ \A d \in Conns \ {c} : up'[d] = up[d] /\ down'[d] = down[d]
    /\ \A t \in Tasks : Conn(t) = c => FolderOk(t)'

LEMMA TextReply ==
    ASSUME LinkInd, NEW c \in Conns, NEW verb, verb \notin Loads, Command(c, verb), NEW f, f = Head(up[c]),
           NEW frames, AnswerFits(f, frames), Next1(c), Reply(c, frames), Calm,
           UNCHANGED <<link, pend, remote>>, dirs \subseteq dirs', NEW found, FolderSays(f, frames, found),
           \A k \in Nat : Folder(k) \in found => Folder(k) \in dirs'
    PROVE  Told(c)
<1>0. ClientTypes /\ WireTypes
  BY DEF LinkInd, LinkTypes
<1>1. ~f.bin /\ f.verb = verb /\ up[c] # <<>>
  BY DEF Command, Idle
<1>2. /\ up' = [up EXCEPT ![c] = Tail(up[c])] /\ Tail(up[c]) \in Seq(Asks) /\ Shrinks(c)
      /\ up'[c] = Tail(up[c]) /\ up[c][1] = f /\ up[c] \in Seq(Asks) /\ Len(up[c]) <= 2
  BY <1>1, NextUp
<1>3. PICK q \in Seq(Replies) : /\ down' = [down EXCEPT ![c] = q]
                                /\ link[c] = "open" => q = down[c] \o frames
                                /\ link[c] # "open" => q = down[c]
  BY <1>0, ReplyDown DEF AnswerFits
<1>4. WireTypes' /\ down'[c] = q
  BY <1>0, <1>2, <1>3 DEF WireTypes
<1>5. \A d \in Conns \ {c} : up'[d] = up[d] /\ down'[d] = down[d]
  BY <1>0, <1>2, <1>3 DEF WireTypes
<1>6. UNCHANGED <<plan, task>> /\ busy'[c] = busy[c]
  BY DEF Calm
<1>7. CASE link[c] # "open"
  <2>1. OpenOk(c)'
    BY <1>7 DEF OpenOk
  <2>2. \A t \in Tasks : Conn(t) = c => FolderOk(t)'
    BY <1>3, <1>4, <1>6, <1>7, FoldersHere
  <2> QED BY <1>2, <1>4, <1>5, <2>1, <2>2 DEF Told
<1>8. CASE link[c] = "open"
  <2>1. PICK t \in Tasks :
              /\ busy[c] = t /\ Conn(t) = c /\ task[t].pc \in WaitPcs /\ down[c] = <<>>
              /\ Asked(c, t) \/ Sent(c, t) \/ AtServer(c, t)
              /\ \A u \in Tasks \ {t} : Conn(u) = c => task[u].pc \notin Holding
    BY <1>1, <1>8, RelayFinds
  <2>2. Asked(c, t)
    <3>1. ~Sent(c, t)
      BY <1>1, <1>2 DEF Sent
    <3>2. ~AtServer(c, t)
      BY <1>1 DEF AtServer
    <3> QED BY <2>1, <3>1, <3>2
  <2>3. AskFits(f, task[t]) /\ pend[c] = None /\ remote[c] = None /\ Len(up[c]) = 1
    BY <1>1, <1>2, <2>2 DEF Asked
  <2>4. up'[c] = <<>>
    BY <1>1, <1>2, <2>3, ShortTail
  <2>5. q = frames
    <3>1. <<>> \o frames = frames
      BY DEF AnswerFits
    <3> QED BY <1>3, <1>8, <2>1, <3>1
  <2>6. Answered(c, t)'
    <3>1. task[t].pc \in Fetching <=> f.verb \in {"read_chunk", "read"}
      BY <2>3 DEF AskFits
    <3>2. frames[1].id = task[t].id
      BY <2>3 DEF AskFits, AnswerFits
    <3> QED BY <1>4, <1>6, <2>3, <2>4, <2>5, <3>1, <3>2 DEF Answered, AnswerFits
  <2>7. OpenOk(c)'
    BY <1>6, <1>8, <2>1, <2>6, PhaseNext
  <2>8. ASSUME NEW u \in Tasks, Conn(u) = c PROVE FolderOk(u)'
    <3>1. CASE task[u].pc \notin Ensuring
      BY <1>6, <2>8, <3>1, FoldersHere
    <3>2. CASE task[u].pc \in Ensuring
      <4>1. u = t
        BY <2>1, <2>8, <3>2 DEF Ensuring, Holding, WaitPcs
      <4>2. f.arg = Folder(task[t].k + 1) /\ f.verb = IF task[t].pc = "statting" THEN "stat" ELSE "mkdir"
        BY <2>3, <3>2, <4>1 DEF AskFits
      <4>3. task[t].k + 1 \in Nat
        BY <1>0 DEF ClientTypes, TaskStates
      <4>4. ASSUME NEW n \in 1..Len(frames), Tells(frames[n], task[t])
            PROVE  Folder(task[t].k + 1) \in dirs'
        <5>1. f.arg \in found
          BY <4>2, <4>4 DEF FolderSays, Tells
        <5> QED BY <4>2, <4>3, <5>1
      <4>5. FolderOk(t)
        BY DEF LinkInd, AllFolders
      <4>6. Conn(t)' = c /\ task'[t] = task[t] /\ plan' = plan
        BY <1>6, <2>1 DEF Conn
      <4> QED BY <1>4, <2>5, <4>1, <4>4, <4>5, <4>6 DEF FolderOk
    <3> QED BY <3>1, <3>2
  <2> QED BY <1>2, <1>4, <1>5, <2>7, <2>8 DEF Told
<1> QED BY <1>7, <1>8

\* The SSH server's answer goes back.
LEMMA RemoteReply ==
    ASSUME LinkInd, NEW c \in Conns, remote[c] # None, NEW g, g \in Replies, ~g.bin, g.id = remote[c].id,
           Reply(c, <<g>>), Calm, UNCHANGED <<link, up, pend>>, remote' = [remote EXCEPT ![c] = None],
           dirs' = dirs
    PROVE  Told(c)
<1>0. ClientTypes /\ WireTypes /\ RelayTypes
  BY DEF LinkInd, LinkTypes
<1>1. <<g>> \in Seq(Replies) /\ Len(<<g>>) = 1 /\ <<g>>[1] = g
  OBVIOUS
<1>2. PICK q \in Seq(Replies) : /\ down' = [down EXCEPT ![c] = q]
                                /\ link[c] = "open" => q = down[c] \o <<g>>
                                /\ link[c] # "open" => q = down[c]
  BY <1>0, <1>1, ReplyDown
<1>3. WireTypes' /\ down'[c] = q /\ up'[c] = up[c] /\ Shrinks(c) /\ remote'[c] = None
  BY <1>0, <1>2 DEF WireTypes, RelayTypes, Shrinks
<1>4. \A d \in Conns \ {c} : up'[d] = up[d] /\ down'[d] = down[d]
  BY <1>0, <1>2 DEF WireTypes
<1>5. UNCHANGED <<plan, task>> /\ busy'[c] = busy[c]
  BY DEF Calm
<1>6. CASE link[c] # "open"
  <2>1. OpenOk(c)'
    BY <1>6 DEF OpenOk
  <2>2. \A t \in Tasks : Conn(t) = c => FolderOk(t)'
    BY <1>2, <1>3, <1>5, <1>6, FoldersHere
  <2> QED BY <1>3, <1>4, <2>1, <2>2 DEF Told
<1>7. CASE link[c] = "open"
  <2>1. PICK t \in Tasks :
              /\ busy[c] = t /\ Conn(t) = c /\ task[t].pc \in WaitPcs /\ down[c] = <<>>
              /\ Asked(c, t) \/ Sent(c, t) \/ AtServer(c, t)
              /\ \A u \in Tasks \ {t} : Conn(u) = c => task[u].pc \notin Holding
    BY <1>7, RelayFinds
  <2>2. AtServer(c, t)
    BY <2>1 DEF Asked, Sent
  <2>3. q = <<g>>
    BY <1>1, <1>2, <1>7, <2>1
  <2>4. Answered(c, t)'
    BY <1>1, <1>3, <1>5, <2>2, <2>3 DEF Answered, AtServer, Plain
  <2>5. OpenOk(c)'
    BY <1>5, <1>7, <2>1, <2>4, PhaseNext
  <2>6. \A u \in Tasks : Conn(u) = c => task[u].pc \notin Ensuring
    BY <2>1, <2>2, PlainTasks DEF AtServer
  <2>7. \A u \in Tasks : Conn(u) = c => FolderOk(u)'
    BY <1>5, <2>6, FoldersHere
  <2> QED BY <1>3, <1>4, <2>5, <2>7 DEF Told
<1> QED BY <1>6, <1>7

\* The SSH server goes on with the same request.
LEMMA RemoteGoes ==
    ASSUME LinkInd, NEW c \in Conns, remote[c] # None, NEW r, r \in SshCalls, r.id = remote[c].id,
           Calm, UNCHANGED <<link, up, down, pend>>, remote' = [remote EXCEPT ![c] = r], dirs' = dirs
    PROVE  Told(c)
<1>0. ClientTypes /\ WireTypes /\ RelayTypes
  BY DEF LinkInd, LinkTypes
<1>1. WireTypes' /\ Shrinks(c) /\ remote'[c] = r /\ r # None
  BY <1>0, LinkAssumption DEF WireTypes, RelayTypes, Shrinks
<1>2. UNCHANGED <<plan, task>> /\ busy'[c] = busy[c]
  BY DEF Calm
<1>3. OpenOk(c)'
  <2>1. CASE link[c] # "open"
    BY <2>1 DEF OpenOk
  <2>2. CASE link[c] = "open"
    <3>1. PICK t \in Tasks :
              /\ busy[c] = t /\ Conn(t) = c /\ task[t].pc \in WaitPcs /\ down[c] = <<>>
              /\ Asked(c, t) \/ Sent(c, t) \/ AtServer(c, t)
      BY <2>2, RelayFinds
    <3>2. AtServer(c, t)'
      BY <1>1, <1>2, <3>1 DEF Asked, Sent, AtServer
    <3> QED BY <1>2, <2>2, <3>1, <3>2, PhaseNext
  <2> QED BY <2>1, <2>2
<1>4. \A u \in Tasks : Conn(u) = c => FolderOk(u)'
  BY <1>2, FoldersHere
<1> QED BY <1>1, <1>3, <1>4 DEF Told

\* A request that is not one for a folder or for data is a plain one.
LEMMA PlainAsk ==
    ASSUME NEW f, NEW s, AskFits(f, s), f.verb \notin {"read_chunk", "read", "stat", "mkdir"}
    PROVE  Plain(s)
BY DEF AskFits, Plain, Fetching, Ensuring

\* A request whose answer waits: for its body, or for the SSH server.
LEMMA TextGoes ==
    ASSUME LinkInd, NEW c \in Conns, NEW f, f = Head(up[c]), Idle(c), ~f.bin,
           f.verb \notin {"read_chunk", "read", "stat", "mkdir"}, Next1(c), Calm,
           UNCHANGED <<link, down>>, dirs' = dirs, NEW p, NEW r,
           pend' = [pend EXCEPT ![c] = p], remote' = [remote EXCEPT ![c] = r],
           \/ f.verb \in Loads /\ p \in Pendings /\ p.id = f.id /\ r = remote[c]
           \/ f.verb \notin Loads /\ r \in SshCalls /\ r.id = f.id /\ p = pend[c]
    PROVE  Told(c)
<1>0. ClientTypes /\ WireTypes /\ RelayTypes
  BY DEF LinkInd, LinkTypes
<1>1. up[c] # <<>> /\ remote[c] = None
  BY DEF Idle
<1>2. /\ up' = [up EXCEPT ![c] = Tail(up[c])] /\ Tail(up[c]) \in Seq(Asks) /\ Shrinks(c)
      /\ up'[c] = Tail(up[c]) /\ up[c][1] = f /\ up[c] \in Seq(Asks) /\ Len(up[c]) <= 2
  BY <1>1, NextUp
<1>3. WireTypes' /\ \A d \in Conns \ {c} : up'[d] = up[d] /\ down'[d] = down[d]
  BY <1>0, <1>2 DEF WireTypes
<1>4. UNCHANGED <<plan, task>> /\ busy'[c] = busy[c]
  BY DEF Calm
<1>5. \A u \in Tasks : Conn(u) = c => FolderOk(u)'
  BY <1>4, FoldersHere
<1>6. pend'[c] = p /\ remote'[c] = r
  BY <1>0 DEF RelayTypes
<1>7. OpenOk(c)'
  <2>1. CASE link[c] # "open"
    BY <2>1 DEF OpenOk
  <2>2. CASE link[c] = "open"
    <3>1. PICK t \in Tasks :
              /\ busy[c] = t /\ Conn(t) = c /\ task[t].pc \in WaitPcs /\ down[c] = <<>>
              /\ Asked(c, t) \/ Sent(c, t) \/ AtServer(c, t)
      BY <1>1, <2>2, RelayFinds
    <3>2. Asked(c, t)
      <4>1. ~Sent(c, t)
        BY <1>2 DEF Sent
      <4>2. ~AtServer(c, t)
        BY <1>1 DEF AtServer
      <4> QED BY <3>1, <4>1, <4>2
    <3>3. AskFits(f, task[t]) /\ pend[c] = None
      BY <1>2, <3>2 DEF Asked
    <3>4. f.id = task[t].id /\ Plain(task[t])
      BY <3>3, PlainAsk DEF AskFits
    <3>5. CASE f.verb \in Loads
      <4>1. Len(up[c]) = 2 /\ up[c][2].bin
        BY <1>2, <3>2, <3>5 DEF Asked
      <4>2. Len(Tail(up[c])) = 1
        <5>1. Len(up[c]) = 1 + 1
          BY <4>1
        <5> QED BY <1>1, <1>2, <5>1, TailFacts
      <4>3. Tail(up[c])[1] = up[c][2]
        BY <1>1, <1>2, <4>2, ShortTail
      <4>4. p \in Pendings /\ p.id = f.id /\ r = None
        BY <1>1, <3>5
      <4>5. p # None
        BY <4>4, LinkAssumption
      <4>6. Sent(c, t)'
        BY <1>2, <1>4, <1>6, <3>1, <3>4, <4>1, <4>2, <4>3, <4>4, <4>5 DEF Sent
      <4> QED BY <1>4, <2>2, <3>1, <4>6, PhaseNext
    <3>6. CASE f.verb \notin Loads
      <4>1. Len(up[c]) = 1
        BY <1>2, <3>2, <3>6 DEF Asked
      <4>2. Tail(up[c]) = <<>>
        BY <1>1, <1>2, <4>1, ShortTail
      <4>3. r \in SshCalls /\ r.id = f.id /\ p = None
        BY <3>3, <3>6
      <4>4. r # None
        BY <4>3, LinkAssumption
      <4>5. AtServer(c, t)'
        BY <1>2, <1>4, <1>6, <3>1, <3>4, <4>2, <4>3, <4>4 DEF AtServer
      <4> QED BY <1>4, <2>2, <3>1, <4>5, PhaseNext
    <3> QED BY <3>5, <3>6
  <2> QED BY <2>1, <2>2
<1> QED BY <1>2, <1>3, <1>5, <1>7 DEF Told

\* A body: with the request it belongs to it is answered, or goes to the SSH server.
LEMMA BinaryGoes ==
    ASSUME LinkInd, NEW c \in Conns, Idle(c), Head(up[c]).bin, Next1(c), Calm, link' = link, dirs' = dirs,
           pend' = [pend EXCEPT ![c] = None], NEW r, remote' = [remote EXCEPT ![c] = r],
           \/ pend[c] = None /\ r = None /\ down' = down
           \/ pend[c] # None /\ r \in SshCalls /\ r.id = pend[c].id /\ down' = down
           \/ /\ pend[c] # None /\ r = None
              /\ \E g \in Replies : ~g.bin /\ g.id = pend[c].id /\ Reply(c, <<g>>)
    PROVE  Told(c)
<1>0. ClientTypes /\ WireTypes /\ RelayTypes
  BY DEF LinkInd, LinkTypes
<1>1. up[c] # <<>> /\ remote[c] = None
  BY DEF Idle
<1>2. /\ up' = [up EXCEPT ![c] = Tail(up[c])] /\ Tail(up[c]) \in Seq(Asks) /\ Shrinks(c)
      /\ up'[c] = Tail(up[c]) /\ up[c][1].bin /\ up[c] \in Seq(Asks) /\ Len(up[c]) <= 2
  BY <1>1, NextUp
<1>3. UNCHANGED <<plan, task>> /\ busy'[c] = busy[c] /\ pend'[c] = None /\ remote'[c] = r
  BY <1>0 DEF Calm, RelayTypes
<1>4. PICK q \in Seq(Replies) :
         /\ down' = [down EXCEPT ![c] = q]
         /\ link[c] # "open" => q = down[c]
         /\ \/ pend[c] = None /\ r = None /\ q = down[c]
            \/ pend[c] # None /\ r \in SshCalls /\ r.id = pend[c].id /\ q = down[c]
            \/ /\ pend[c] # None /\ r = None
               /\ \E g \in Replies : ~g.bin /\ g.id = pend[c].id /\ (link[c] = "open" => q = down[c] \o <<g>>)
  <2>1. CASE /\ down' = down
             /\ \/ pend[c] = None /\ r = None
                \/ pend[c] # None /\ r \in SshCalls /\ r.id = pend[c].id
    BY <1>0, <2>1 DEF WireTypes
  <2>2. CASE pend[c] # None /\ r = None /\ \E g \in Replies : ~g.bin /\ g.id = pend[c].id /\ Reply(c, <<g>>)
    <3>1. PICK g \in Replies : ~g.bin /\ g.id = pend[c].id /\ Reply(c, <<g>>)
      BY <2>2
    <3>2. <<g>> \in Seq(Replies)
      OBVIOUS
    <3>3. PICK q \in Seq(Replies) : /\ down' = [down EXCEPT ![c] = q]
                                    /\ link[c] = "open" => q = down[c] \o <<g>>
                                    /\ link[c] # "open" => q = down[c]
      BY <1>0, <3>1, <3>2, ReplyDown
    <3> QED BY <2>2, <3>1, <3>3
  <2> QED BY <2>1, <2>2
<1>5. WireTypes' /\ down'[c] = q /\ \A d \in Conns \ {c} : up'[d] = up[d] /\ down'[d] = down[d]
  BY <1>0, <1>2, <1>4 DEF WireTypes
<1>6. CASE link[c] # "open"
  <2>1. OpenOk(c)'
    BY <1>6 DEF OpenOk
  <2>2. \A t \in Tasks : Conn(t) = c => FolderOk(t)'
    BY <1>3, <1>4, <1>5, <1>6, FoldersHere
  <2> QED BY <1>2, <1>5, <2>1, <2>2 DEF Told
<1>7. CASE link[c] = "open"
  <2>1. PICK t \in Tasks :
              /\ busy[c] = t /\ Conn(t) = c /\ task[t].pc \in WaitPcs /\ down[c] = <<>>
              /\ Asked(c, t) \/ Sent(c, t) \/ AtServer(c, t)
              /\ \A u \in Tasks \ {t} : Conn(u) = c => task[u].pc \notin Holding
    BY <1>1, <1>7, RelayFinds
  <2>2. Sent(c, t)
    <3>1. ~Asked(c, t)
      BY <1>2 DEF Asked
    <3>2. ~AtServer(c, t)
      BY <1>1 DEF AtServer
    <3> QED BY <2>1, <3>1, <3>2
  <2>3. Len(up[c]) = 1 /\ pend[c] # None /\ pend[c].id = task[t].id /\ Plain(task[t])
    BY <2>2 DEF Sent
  <2>4. up'[c] = <<>>
    BY <1>1, <1>2, <2>3, ShortTail
  <2>5. CASE r \in SshCalls /\ r.id = pend[c].id /\ q = down[c]
    <3>1. r # None
      BY <2>5, LinkAssumption
    <3>2. AtServer(c, t)'
      BY <1>3, <1>5, <2>1, <2>3, <2>4, <2>5, <3>1 DEF AtServer
    <3>3. OpenOk(c)'
      BY <1>3, <1>7, <2>1, <3>2, PhaseNext
    <3>4. \A u \in Tasks : Conn(u) = c => FolderOk(u)'
      BY <1>3, <1>5, <2>5, FoldersHere
    <3> QED BY <1>2, <1>5, <3>3, <3>4 DEF Told
  <2>6. ASSUME NEW g \in Replies, r = None, ~g.bin, g.id = pend[c].id, q = down[c] \o <<g>>
        PROVE  Told(c)
    <3>1. q = <<g>> /\ Len(<<g>>) = 1 /\ <<g>>[1] = g
      BY <2>1, <2>6
    <3>2. Answered(c, t)'
      BY <1>3, <1>5, <2>3, <2>4, <2>6, <3>1 DEF Answered, Plain
    <3>3. OpenOk(c)'
      BY <1>3, <1>7, <2>1, <3>2, PhaseNext
    <3>4. \A u \in Tasks : Conn(u) = c => task[u].pc \notin Ensuring
      BY <2>1, <2>3, PlainTasks
    <3>5. \A u \in Tasks : Conn(u) = c => FolderOk(u)'
      BY <1>3, <3>4, FoldersHere
    <3> QED BY <1>2, <1>5, <3>3, <3>5 DEF Told
  <2> QED BY <1>4, <1>7, <2>3, <2>5, <2>6
<1> QED BY <1>6, <1>7

\* What the relay keeps for one connection, and what becomes of it.
StoreFits(p, r, w, x, n) ==
    /\ p \in Pendings \cup {None} /\ (p # None /\ p.for = "write" => p.arg \in FilePaths)
    /\ r \in SshCalls \cup {None} /\ IsBuffer(w) /\ IsMap(x)
    /\ n \in Nat /\ n = Buffered(w) /\ n <= MaxStream /\ Cardinality(DOMAIN x) <= MaxReads
Stores(c, p, r, w, x, n) ==
    /\ pend' = [pend EXCEPT ![c] = p] /\ remote' = [remote EXCEPT ![c] = r]
    /\ wsess' = [wsess EXCEPT ![c] = w] /\ rsess' = [rsess EXCEPT ![c] = x]
    /\ total' = [total EXCEPT ![c] = n]

LEMMA StoreIs ==
    ASSUME LinkInd, NEW c \in Conns
    PROVE  /\ StoreFits(pend[c], remote[c], wsess[c], rsess[c], total[c])
           /\ pend = [pend EXCEPT ![c] = pend[c]] /\ remote = [remote EXCEPT ![c] = remote[c]]
           /\ wsess = [wsess EXCEPT ![c] = wsess[c]] /\ rsess = [rsess EXCEPT ![c] = rsess[c]]
           /\ total = [total EXCEPT ![c] = total[c]]
<1>1. RelayTypes /\ BuffersCounted(c)
  BY DEF LinkInd, LinkTypes, AllCounted
<1>2. StoreFits(pend[c], remote[c], wsess[c], rsess[c], total[c])
  BY <1>1 DEF StoreFits, RelayTypes, BuffersCounted
<1>3. /\ pend = [pend EXCEPT ![c] = pend[c]] /\ remote = [remote EXCEPT ![c] = remote[c]]
      /\ total = [total EXCEPT ![c] = total[c]]
  BY <1>1 DEF RelayTypes
<1>4. wsess = [wsess EXCEPT ![c] = wsess[c]]
  BY <1>1 DEF RelayTypes
<1>5. rsess = [rsess EXCEPT ![c] = rsess[c]]
  BY <1>1 DEF RelayTypes
<1> QED BY <1>2, <1>3, <1>4, <1>5

\* The state of the relay after a step.
LEMMA StoresTyped ==
    ASSUME LinkInd, NEW c \in Conns, NEW p, NEW r, NEW w, NEW x, NEW n, Stores(c, p, r, w, x, n),
           StoreFits(p, r, w, x, n)
    PROVE  /\ RelayTypes' /\ BuffersCounted(c)' /\ wsess'[c] = w /\ rsess'[c] = x
           /\ \A d \in Conns \ {c} : /\ pend'[d] = pend[d] /\ remote'[d] = remote[d]
                                     /\ wsess'[d] = wsess[d] /\ rsess'[d] = rsess[d]
                                     /\ total'[d] = total[d]
<1>0. RelayTypes
  BY DEF LinkInd, LinkTypes
<1>1. DOMAIN wsess = Conns /\ DOMAIN rsess = Conns
  <2>1. DOMAIN [d \in Conns |-> wsess[d]] = Conns /\ DOMAIN [d \in Conns |-> rsess[d]] = Conns
    OBVIOUS
  <2>2. wsess = [d \in Conns |-> wsess[d]] /\ rsess = [d \in Conns |-> rsess[d]]
    BY <1>0 DEF RelayTypes
  <2> QED BY <2>1, <2>2
<1>2. /\ wsess'[c] = w /\ rsess'[c] = x /\ pend'[c] = p /\ remote'[c] = r /\ total'[c] = n
      /\ \A d \in Conns \ {c} : /\ pend'[d] = pend[d] /\ remote'[d] = remote[d]
                                /\ wsess'[d] = wsess[d] /\ rsess'[d] = rsess[d]
                                /\ total'[d] = total[d]
  BY <1>0, <1>1 DEF Stores, RelayTypes
<1>3. /\ pend' \in [Conns -> Pendings \cup {None}] /\ remote' \in [Conns -> SshCalls \cup {None}]
      /\ total' \in [Conns -> Nat]
  BY <1>0 DEF Stores, RelayTypes, StoreFits
<1>4. wsess' = [d \in Conns |-> wsess'[d]] /\ rsess' = [d \in Conns |-> rsess'[d]]
  BY <1>1 DEF Stores
<1>5. ASSUME NEW d \in Conns PROVE /\ IsBuffer(wsess'[d]) /\ IsMap(rsess'[d])
                                   /\ pend'[d] # None /\ pend'[d].for = "write" => pend'[d].arg \in FilePaths
  <2>1. CASE d = c
    BY <1>2, <2>1 DEF StoreFits
  <2>2. CASE d # c
    BY <1>0, <1>2, <2>2 DEF RelayTypes
  <2> QED BY <2>1, <2>2
<1>6. RelayTypes'
  BY <1>3, <1>4, <1>5 DEF RelayTypes
<1>7. BuffersCounted(c)'
  BY <1>2 DEF BuffersCounted, StoreFits
<1> QED BY <1>2, <1>6, <1>7

LEMMA StoredKeeps ==
    ASSUME LinkInd, NEW c \in Conns, NEW p, NEW r, NEW w, NEW x, NEW n, Stores(c, p, r, w, x, n),
           StoreFits(p, r, w, x, n), Calm, link' = link, Told(c), FileTypes', dirs \subseteq dirs',
           DOMAIN w \subseteq DOMAIN wsess[c] \/ Shape(c)'
    PROVE  LinkInd'
<1>1. /\ RelayTypes' /\ BuffersCounted(c)' /\ wsess'[c] = w
      /\ \A d \in Conns \ {c} : /\ pend'[d] = pend[d] /\ remote'[d] = remote[d]
                                /\ wsess'[d] = wsess[d] /\ rsess'[d] = rsess[d]
                                /\ total'[d] = total[d]
  BY StoresTyped
<1>2. ClientTypes' /\ WireTypes' /\ UNCHANGED <<ctr, plan, task>>
  BY DEF LinkInd, LinkTypes, ClientTypes, Calm, Told
<1>3. Elsewhere(c)
  BY <1>1 DEF Elsewhere, SameConn, Told, Calm
<1>4. Shape(c)'
  <2>1. Shape(c) /\ up[c] \in Seq(Asks) /\ Shrinks(c) /\ ctr'[c] = ctr[c]
    BY DEF LinkInd, AllShapes, LinkTypes, WireTypes, Told, Calm
  <2> QED BY <1>1, <2>1, ShapeSame
<1>5. Here(c)
  BY <1>1, <1>4 DEF Here, Told
<1>6. LinkTypes'
  BY <1>1, <1>2 DEF LinkTypes
<1> QED BY <1>2, <1>3, <1>5, <1>6, RelayMoves

\* Nothing of the relay changes but the wire.
LEMMA OnlyTold ==
    ASSUME LinkInd, NEW c \in Conns, UNCHANGED relay, Calm, link' = link, Told(c), FileTypes',
           dirs \subseteq dirs'
    PROVE  LinkInd'
<1>1. Stores(c, pend[c], remote[c], wsess[c], rsess[c], total[c])
  BY StoreIs DEF Stores, relay
<1>2. StoreFits(pend[c], remote[c], wsess[c], rsess[c], total[c])
  BY StoreIs
<1> QED BY <1>1, <1>2, StoredKeeps

\* Read sessions: one more, or one less.
LEMMA ReadsMore ==
    ASSUME NEW x, IsMap(x), Cardinality(DOMAIN x) < MaxReads, NEW h, NEW v
    PROVE  IsMap(Put(x, h, v)) /\ Cardinality(DOMAIN Put(x, h, v)) <= MaxReads
<1>1. IsFiniteSet(DOMAIN x) /\ MaxReads \in Nat
  BY LinkAssumption DEF IsMap
<1>2. PICK k \in Nat : k = Cardinality(DOMAIN x)
  BY <1>1, FS_CardinalityType
<1>3. DOMAIN Put(x, h, v) = DOMAIN x \cup {h}
  BY DEF Put
<1>4. /\ IsFiniteSet(DOMAIN x \cup {h})
      /\ Cardinality(DOMAIN x \cup {h}) = IF h \in DOMAIN x THEN k ELSE k + 1
  BY <1>1, <1>2, FS_AddElement
<1>5. k <= MaxReads /\ k + 1 <= MaxReads
  BY <1>1, <1>2
<1>6. Put(x, h, v) = [y \in DOMAIN Put(x, h, v) |-> Put(x, h, v)[y]]
  BY DEF Put
<1> QED BY <1>3, <1>4, <1>5, <1>6 DEF IsMap
LEMMA ReadsLess ==
    ASSUME NEW x, IsMap(x), Cardinality(DOMAIN x) <= MaxReads, NEW h
    PROVE  IsMap(Drop(x, h)) /\ Cardinality(DOMAIN Drop(x, h)) <= MaxReads
<1>1. IsFiniteSet(DOMAIN x) /\ MaxReads \in Nat
  BY LinkAssumption DEF IsMap
<1>2. PICK k \in Nat : k = Cardinality(DOMAIN x)
  BY <1>1, FS_CardinalityType
<1>3. DOMAIN Drop(x, h) = DOMAIN x \ {h}
  BY DEF Drop
<1>4. PICK S : S = DOMAIN x \ {h} /\ IsFiniteSet(S) /\ S \subseteq DOMAIN x
  <2>1. PICK S : S = DOMAIN x \ {h} /\ S \in SUBSET (DOMAIN x)
    OBVIOUS
  <2>2. IsFiniteSet(S)
    BY <1>1, <2>1, FS_Subset
  <2> QED BY <2>1, <2>2
<1>5. Cardinality(S) <= k /\ Cardinality(S) \in Nat
  BY <1>1, <1>2, <1>4, FS_Subset, FS_CardinalityType
<1>6. Cardinality(S) <= MaxReads
  BY <1>1, <1>2, <1>5
<1>7. Drop(x, h) = [y \in DOMAIN Drop(x, h) |-> Drop(x, h)[y]]
  BY DEF Drop
<1> QED BY <1>3, <1>4, <1>6, <1>7 DEF IsMap

\* Frames the relay sends.
LEMMA FrameFits ==
    ASSUME NEW id \in Nat, NEW k \in Nat
    PROVE  /\ Ok(id, k) \in Replies /\ ~Ok(id, k).bin /\ Ok(id, k).id = id /\ Ok(id, k).verb = "ok"
           /\ Ok(id, k).arg = k
           /\ Err(id) \in Replies /\ ~Err(id).bin /\ Err(id).id = id /\ Err(id).verb = "err" /\ Err(id).arg = 0
           /\ Binary(k) \in Replies /\ Binary(k).bin /\ Binary(k).verb = "data" /\ Binary(k).arg = 0
BY DEF Ok, Err, Text, Binary, Replies, Verbs
LEMMA AskTyped ==
    ASSUME LinkInd, NEW c \in Conns, Idle(c), NEW f, f = Head(up[c])
    PROVE  /\ f \in Asks /\ f.id \in Nat /\ f.arg \in Args /\ f.n \in Nat /\ ArgFits(f.verb, f.arg)
           /\ up[c] # <<>> /\ up[c][1] = f
<1>1. up[c] \in Seq(Asks) /\ up[c] # <<>>
  BY DEF LinkInd, LinkTypes, WireTypes, Idle
<1>2. f \in Asks /\ up[c][1] = f
  BY <1>1, TailFacts
<1> QED BY <1>1, <1>2 DEF Asks

\* One frame, or a header and its data.
LEMMA OneAnswers ==
    ASSUME NEW f, NEW g, g \in Replies, ~g.bin, g.id = f.id,
           g.verb = "ok" => f.verb \notin {"read_chunk", "read"}
    PROVE  AnswerFits(f, <<g>>)
<1>1. <<g>> \in Seq(Replies) /\ Len(<<g>>) = 1 /\ <<g>>[1] = g /\ <<g>> # <<>>
  OBVIOUS
<1> QED BY <1>1 DEF AnswerFits
LEMMA TwoAnswer ==
    ASSUME NEW f, NEW g, g \in Replies, ~g.bin, g.id = f.id, g.verb = "ok",
           f.verb \in {"read_chunk", "read"}, NEW b, b \in Replies, b.bin
    PROVE  AnswerFits(f, <<g, b>>)
<1>1. <<g, b>> \in Seq(Replies) /\ Len(<<g, b>>) = 2 /\ <<g, b>>[1] = g /\ <<g, b>>[2] = b /\ <<g, b>> # <<>>
  OBVIOUS
<1> QED BY <1>1 DEF AnswerFits
LEMMA SaysNothing ==
    ASSUME NEW f, f.verb \notin {"stat", "mkdir"}, NEW frames
    PROVE  FolderSays(f, frames, {})
BY DEF FolderSays

\* Most answers say nothing of folders.
LEMMA PlainReply ==
    ASSUME LinkInd, NEW c \in Conns, NEW verb, verb \notin Loads, verb \notin {"stat", "mkdir"},
           Command(c, verb), NEW f, f = Head(up[c]), NEW frames, AnswerFits(f, frames), Next1(c),
           Reply(c, frames), Calm, UNCHANGED <<link, pend, remote>>, dirs' = dirs
    PROVE  Told(c)
<1>1. FolderSays(f, frames, {})
  BY SaysNothing DEF Command
<1> QED BY <1>1, TextReply

LEMMA FilesSame ==
    ASSUME LinkInd, UNCHANGED <<fs, ino>>
    PROVE  FileTypes'
BY DEF LinkInd, LinkTypes, FileTypes

LEMMA WriteOpenKeeps ==
    ASSUME LinkInd, NEW c \in Conns, WriteOpen(c)
    PROVE  LinkInd'
<1>1. PICK f : f = Head(up[c])
  OBVIOUS
<1>2. /\ Command(c, "write_open") /\ Next1(c) /\ Reply(c, <<Ok(f.id, f.id)>>) /\ Calm
      /\ wsess' = [wsess EXCEPT ![c] = Put(wsess[c], f.id, [path |-> f.arg, n |-> 0])]
      /\ UNCHANGED <<link, pend, rsess, total, remote, fs, ino, dirs>>
  BY <1>1 DEF WriteOpen, Calm, client, files
<1>3. Idle(c) /\ f.verb = "write_open" /\ ~f.bin
  BY <1>1, <1>2 DEF Command
<1>4. f.id \in Nat /\ f.arg \in FilePaths /\ up[c] # <<>> /\ up[c][1] = f
  BY <1>1, <1>3, AskTyped DEF ArgFits
<1>5. AnswerFits(f, <<Ok(f.id, f.id)>>)
  BY <1>3, <1>4, FrameFits, OneAnswers
<1>6. Told(c)
  BY <1>1, <1>2, <1>5, PlainReply DEF Loads
<1>7. Shape(c)
  BY DEF LinkInd, AllShapes
<1>8. f.id \notin DOMAIN wsess[c] /\ f.id \in 1..ctr[c]
  <2>1. f.id \in 1..ctr[c] /\ \A h \in DOMAIN wsess[c] : h < f.id
    BY <1>3, <1>4, <1>7 DEF Shape
  <2>2. ~(f.id < f.id)
    BY <1>4
  <2> QED BY <2>1, <2>2
<1>9. PICK w : w = Put(wsess[c], f.id, [path |-> f.arg, n |-> 0])
  OBVIOUS
<1>10. StoreFits(pend[c], remote[c], wsess[c], rsess[c], total[c])
  BY StoreIs
<1>11. IsBuffer(w) /\ Buffered(w) = Buffered(wsess[c])
  BY <1>4, <1>8, <1>9, <1>10, BufferedOpen DEF StoreFits
<1>12. StoreFits(pend[c], remote[c], w, rsess[c], total[c])
  BY <1>10, <1>11 DEF StoreFits
<1>13. Stores(c, pend[c], remote[c], w, rsess[c], total[c])
  BY <1>2, <1>9, StoreIs DEF Stores
<1>14. Shape(c)'
  <2>1. up'[c] = Tail(up[c]) /\ up[c] \in Seq(Asks)
    BY <1>2, <1>4, NextUp
  <2>2. wsess'[c] = w /\ ctr'[c] = ctr[c]
    BY <1>2, <1>12, <1>13, StoresTyped DEF Calm
  <2>3. DOMAIN w \subseteq 1..ctr[c]
    BY <1>7, <1>8, <1>9 DEF Put, Shape
  <2>4. /\ Tail(up[c]) \in Seq(Asks) /\ Len(Tail(up[c])) <= 1
        /\ Len(Tail(up[c])) = 1 => Tail(up[c])[1].bin
    BY <1>4, <1>7, <2>1, ShortTail DEF Shape
  <2>5. /\ Len(Tail(up[c])) <= 2 /\ Len(Tail(up[c])) # 2
        /\ Tail(up[c]) # <<>> => Len(Tail(up[c])) = 1
    BY <2>4, ShortSeq
  <2> QED BY <2>1, <2>2, <2>3, <2>4, <2>5 DEF Shape
<1>15. FileTypes'
  BY <1>2, FilesSame
<1> QED BY <1>2, <1>6, <1>12, <1>13, <1>14, <1>15, StoredKeeps

LEMMA WriteChunkKeeps ==
    ASSUME LinkInd, NEW c \in Conns, WriteChunk(c)
    PROVE  LinkInd'
<1>1. PICK f : f = Head(up[c])
  OBVIOUS
<1>2. PICK p : p = [id |-> f.id, arg |-> f.arg,
                    for |-> IF f.verb = "write" THEN "write"
                            ELSE IF f.arg \in DOMAIN wsess[c] THEN "chunk" ELSE "drain"]
  OBVIOUS
<1>3. /\ Command(c, "write_chunk") \/ Command(c, "write")
      /\ pend' = [pend EXCEPT ![c] = p] /\ Next1(c) /\ Calm
      /\ UNCHANGED <<link, down, wsess, rsess, total, remote, fs, ino, dirs>>
  BY <1>1, <1>2 DEF WriteChunk, Calm, client, files
<1>4. Idle(c) /\ f.verb \in Loads /\ ~f.bin
  BY <1>1, <1>3 DEF Command, Loads
<1>5. f.id \in Nat /\ f.arg \in Args /\ ArgFits(f.verb, f.arg)
  BY <1>1, <1>4, AskTyped
<1>6. p \in Pendings /\ p.id = f.id /\ (p.for = "write" => p.arg \in FilePaths)
  BY <1>2, <1>5 DEF Pendings, ArgFits
<1>7. Stores(c, p, remote[c], wsess[c], rsess[c], total[c])
  BY <1>3, StoreIs DEF Stores
<1>8. StoreFits(p, remote[c], wsess[c], rsess[c], total[c])
  BY <1>6, StoreIs DEF StoreFits
<1>9. Told(c)
  <2>1. remote' = [remote EXCEPT ![c] = remote[c]]
    BY <1>7 DEF Stores
  <2>2. f.verb \notin {"read_chunk", "read", "stat", "mkdir"}
    BY <1>4 DEF Loads
  <2> QED BY <1>1, <1>3, <1>4, <1>6, <2>1, <2>2, TextGoes
<1>10. FileTypes'
  BY <1>3, FilesSame
<1> QED BY <1>3, <1>7, <1>8, <1>9, <1>10, StoredKeeps

\* What a body may do.
LEMMA BinaryFrameKeeps ==
    ASSUME LinkInd, NEW c \in Conns, BinaryFrame(c)
    PROVE  LinkInd'
<1>1. PICK b : b = Head(up[c])
  OBVIOUS
<1>2. PICK p : p = pend[c]
  OBVIOUS
<1>3. /\ Idle(c) /\ b.bin /\ Next1(c) /\ pend' = [pend EXCEPT ![c] = None] /\ Calm
      /\ UNCHANGED <<link, rsess, fs, ino, dirs>>
  BY <1>1 DEF BinaryFrame, Calm, client, files
<1>4. b.n \in Nat /\ remote[c] = None
  BY <1>1, <1>3, AskTyped DEF Idle
<1>5. StoreFits(p, remote[c], wsess[c], rsess[c], total[c])
  BY <1>2, StoreIs
<1>6. FileTypes' /\ rsess' = [rsess EXCEPT ![c] = rsess[c]]
  BY <1>3, FilesSame, StoreIs
<1>7. p # None => p \in Pendings /\ p.id \in Nat /\ (p.for = "write" => p.arg \in FilePaths)
  BY <1>5 DEF StoreFits, Pendings
<1>8. ASSUME NEW r, NEW w, NEW n, StoreFits(None, r, w, rsess[c], n), DOMAIN w \subseteq DOMAIN wsess[c],
             remote' = [remote EXCEPT ![c] = r], wsess' = [wsess EXCEPT ![c] = w],
             total' = [total EXCEPT ![c] = n],
             \/ p = None /\ r = None /\ down' = down
             \/ p # None /\ r \in SshCalls /\ r.id = p.id /\ down' = down
             \/ p # None /\ r = None /\ \E g \in Replies : ~g.bin /\ g.id = p.id /\ Reply(c, <<g>>)
      PROVE  LinkInd'
  <2>1. Told(c)
    BY <1>1, <1>2, <1>3, <1>8, BinaryGoes
  <2>2. Stores(c, None, r, w, rsess[c], n)
    BY <1>3, <1>6, <1>8 DEF Stores
  <2> QED BY <1>3, <1>6, <1>8, <2>1, <2>2, StoredKeeps
<1>9. StoreFits(None, None, wsess[c], rsess[c], total[c])
  BY <1>5 DEF StoreFits
<1>10. /\ remote = [remote EXCEPT ![c] = None] /\ wsess = [wsess EXCEPT ![c] = wsess[c]]
       /\ total = [total EXCEPT ![c] = total[c]]
  BY <1>4, StoreIs
<1>11. CASE p = None /\ UNCHANGED <<down, wsess, total, remote>>
  BY <1>8, <1>9, <1>10, <1>11
<1>12. CASE p # None /\ Reply(c, <<Err(p.id)>>) /\ UNCHANGED <<wsess, total, remote>>
  <2>1. PICK g \in Replies : g = Err(p.id) /\ ~g.bin /\ g.id = p.id
    BY <1>7, <1>12, FrameFits
  <2> QED BY <1>8, <1>9, <1>10, <1>12, <2>1
<1>13. CASE /\ p # None /\ p.for = "write" /\ UNCHANGED <<down, wsess, total>>
            /\ remote' = [remote EXCEPT ![c] = Op(p.id, "open", None, p.arg, p.id, b.n)]
  <2>1. PICK r : r = Op(p.id, "open", None, p.arg, p.id, b.n)
    OBVIOUS
  <2>2. r \in SshCalls /\ r.id = p.id
    BY <1>4, <1>7, <1>13, <2>1 DEF Op, SshCalls
  <2>3. StoreFits(None, r, wsess[c], rsess[c], total[c])
    BY <1>9, <2>2 DEF StoreFits
  <2> QED BY <1>8, <1>10, <1>13, <2>1, <2>2, <2>3
<1>14. CASE /\ p # None /\ p.arg \in DOMAIN wsess[c] /\ Fits(c, p.arg, b.n) /\ UNCHANGED remote
            /\ wsess' = [wsess EXCEPT ![c][p.arg].n = @ + b.n]
            /\ total' = [total EXCEPT ![c] = @ + b.n] /\ Reply(c, <<Ok(p.id, 0)>>)
  <2>1. PICK w : w = [wsess[c] EXCEPT ![p.arg].n = @ + b.n]
    OBVIOUS
  <2>2. wsess' = [wsess EXCEPT ![c] = w]
    BY <1>14, <2>1
  <2>3. IsBuffer(w) /\ DOMAIN w = DOMAIN wsess[c] /\ Buffered(w) = Buffered(wsess[c]) + b.n
    BY <1>4, <1>9, <1>14, <2>1, BufferedMore DEF StoreFits
  <2>4. PICK n : n = total[c] + b.n
    OBVIOUS
  <2>5. total[c] \in Nat /\ total[c] = Buffered(wsess[c])
    BY <1>9 DEF StoreFits
  <2>6. n \in Nat /\ n = Buffered(w) /\ n <= MaxStream
    BY <1>4, <1>14, <2>3, <2>4, <2>5 DEF Fits
  <2>7. StoreFits(None, None, w, rsess[c], n)
    BY <1>9, <2>3, <2>6 DEF StoreFits
  <2>8. total' = [total EXCEPT ![c] = n]
    BY <1>14, <2>4
  <2>9. PICK g \in Replies : g = Ok(p.id, 0) /\ ~g.bin /\ g.id = p.id
    BY <1>7, <1>14, FrameFits
  <2>10. DOMAIN w \subseteq DOMAIN wsess[c] /\ remote' = [remote EXCEPT ![c] = None]
    BY <1>10, <1>14, <2>3
  <2> QED BY <1>8, <1>14, <2>2, <2>7, <2>8, <2>9, <2>10
<1> QED BY <1>1, <1>2, <1>11, <1>12, <1>13, <1>14 DEF BinaryFrame

LEMMA OversizedFrameKeeps ==
    ASSUME LinkInd, NEW c \in Conns, OversizedFrame(c)
    PROVE  LinkInd'
<1>0. ClientTypes /\ WireTypes /\ RelayTypes
  BY DEF LinkInd, LinkTypes
<1>1. PICK id : id = IF pend[c] = None THEN 0 ELSE pend[c].id
  OBVIOUS
<1>2. PICK g : g = Err(id)
  OBVIOUS
<1>3. /\ Reply(c, <<g>>) /\ pend' = [pend EXCEPT ![c] = None] /\ up' = [up EXCEPT ![c] = <<>>]
      /\ link' = [link EXCEPT ![c] = "closed"]
      /\ UNCHANGED <<ctr, busy, plan, task, wsess, rsess, total, remote, fs, ino, dirs>>
  BY <1>1, <1>2 DEF OversizedFrame, files
<1>4. g \in Replies /\ g.verb = "err" /\ g.arg = 0
  <2>1. id \in Nat
    BY <1>0, <1>1 DEF RelayTypes, Pendings
  <2> QED BY <1>2, <2>1, FrameFits
<1>5. <<g>> \in Seq(Replies) /\ Len(<<g>>) = 1 /\ <<g>>[1] = g
  BY <1>4
<1>6. PICK q \in Seq(Replies) : /\ down' = [down EXCEPT ![c] = q]
                                /\ link[c] = "open" => q = down[c] \o <<g>>
                                /\ link[c] # "open" => q = down[c]
  BY <1>0, <1>3, <1>5, ReplyDown
<1>7. StoreFits(None, remote[c], wsess[c], rsess[c], total[c])
  BY StoreIs DEF StoreFits
<1>8. Stores(c, None, remote[c], wsess[c], rsess[c], total[c])
  BY <1>3, StoreIs DEF Stores
<1>9. /\ RelayTypes' /\ BuffersCounted(c)' /\ wsess'[c] = wsess[c]
      /\ \A d \in Conns \ {c} : /\ pend'[d] = pend[d] /\ remote'[d] = remote[d]
                                /\ wsess'[d] = wsess[d] /\ rsess'[d] = rsess[d]
                                /\ total'[d] = total[d]
  BY <1>7, <1>8, StoresTyped
<1>10. LinkTypes'
  <2>1. <<>> \in Seq(Asks)
    OBVIOUS
  <2>2. WireTypes'
    BY <1>0, <1>3, <1>6, <2>1 DEF WireTypes
  <2>3. ClientTypes' /\ FileTypes'
    BY <1>0, <1>3, FilesSame DEF ClientTypes
  <2> QED BY <1>9, <2>2, <2>3 DEF LinkTypes
<1>11. up'[c] = <<>> /\ down'[c] = q /\ link'[c] = "closed"
  BY <1>0, <1>3, <1>6 DEF WireTypes, ClientTypes
<1>12. Elsewhere(c)
  BY <1>0, <1>3, <1>6, <1>9 DEF Elsewhere, SameConn, WireTypes, ClientTypes
<1>13. Shape(c)'
  <2>1. Shape(c) /\ up[c] \in Seq(Asks) /\ Shrinks(c) /\ ctr'[c] = ctr[c]
    BY <1>0, <1>3, <1>11 DEF LinkInd, AllShapes, WireTypes, Shrinks
  <2> QED BY <1>9, <2>1, ShapeSame
<1>14. OpenOk(c)'
  BY <1>11 DEF OpenOk
<1>15. ASSUME NEW t \in Tasks, Conn(t) = c PROVE FolderOk(t)'
  <2>0. UNCHANGED <<plan, task>> /\ dirs \subseteq dirs'
    BY <1>3
  <2>1. CASE q = down[c]
    BY <1>11, <1>15, <2>0, <2>1, FoldersHere
  <2>2. CASE link[c] = "open" /\ q = down[c] \o <<g>>
    <3>1. PICK u \in Tasks : down[c] = <<>>
      BY <2>2, RelayFinds DEF OversizedFrame, Idle
    <3>2. q = <<g>>
      BY <1>5, <2>2, <3>1
    <3>3. \A n \in 1..Len(q) : ~Tells(q[n], task[t])
      BY <1>4, <1>5, <3>2 DEF Tells
    <3>4. FolderOk(t) /\ Conn(t)' = c /\ task'[t] = task[t]
      BY <1>3, <1>15 DEF LinkInd, AllFolders, Conn
    <3> QED BY <1>3, <1>11, <3>3, <3>4 DEF FolderOk
  <2> QED BY <1>6, <2>1, <2>2
<1>16. Here(c)
  BY <1>9, <1>13, <1>14, <1>15 DEF Here
<1> QED BY <1>3, <1>10, <1>12, <1>16, RelayMoves

LEMMA WriteCloseKeeps ==
    ASSUME LinkInd, NEW c \in Conns, WriteClose(c)
    PROVE  LinkInd'
<1>1. PICK f : f = Head(up[c])
  OBVIOUS
<1>2. /\ Command(c, "write_close") \/ Command(c, "write_abort")
      /\ Next1(c) /\ Calm /\ UNCHANGED <<link, pend, rsess, fs, ino, dirs>>
  BY DEF WriteClose, Calm, client, files
<1>3. Idle(c) /\ f.verb \in {"write_close", "write_abort"} /\ ~f.bin
  BY <1>1, <1>2 DEF Command
<1>4. f.id \in Nat /\ f.arg \in Args
  BY <1>1, <1>3, AskTyped
<1>5. StoreFits(pend[c], remote[c], wsess[c], rsess[c], total[c])
  BY StoreIs
<1>6. FileTypes'
  BY <1>2, FilesSame
<1>7. PICK w, n : /\ wsess' = [wsess EXCEPT ![c] = w] /\ total' = [total EXCEPT ![c] = n]
                  /\ DOMAIN w \subseteq DOMAIN wsess[c]
                  /\ StoreFits(pend[c], remote[c], w, rsess[c], n)
  <2>1. CASE f.arg \notin DOMAIN wsess[c]
    <3>1. UNCHANGED <<wsess, total>>
      BY <1>1, <2>1 DEF WriteClose
    <3>2. wsess' = [wsess EXCEPT ![c] = wsess[c]] /\ total' = [total EXCEPT ![c] = total[c]]
      BY <3>1, StoreIs
    <3> QED BY <1>5, <3>2
  <2>2. CASE f.arg \in DOMAIN wsess[c]
    <3>1. PICK w : w = Drop(wsess[c], f.arg)
      OBVIOUS
    <3>2. PICK n : n = AfterRemoval(c, f.arg)
      OBVIOUS
    <3>3. wsess' = [wsess EXCEPT ![c] = w] /\ total' = [total EXCEPT ![c] = n]
      BY <1>1, <2>2, <3>1, <3>2 DEF WriteClose
    <3>4. DOMAIN w \subseteq DOMAIN wsess[c]
      BY <3>1 DEF Drop
    <3>5. IsBuffer(w) /\ Buffered(w) \in Nat /\ Buffered(wsess[c]) = Buffered(w) + wsess[c][f.arg].n
      BY <1>5, <2>2, <3>1, BufferedSplit DEF StoreFits
    <3>6. PICK k \in Nat : k = wsess[c][f.arg].n
      BY <1>5, <2>2 DEF StoreFits, IsBuffer
    <3>7. PICK m \in Nat : m = Buffered(w)
      BY <3>5
    <3>8. total[c] = m + k /\ total[c] <= MaxStream
      BY <1>5, <3>5, <3>6, <3>7 DEF StoreFits
    <3>9. n = SatSub(m + k, k)
      BY <3>2, <3>6, <3>8 DEF AfterRemoval
    <3>10. n = m /\ m <= MaxStream
      BY <3>8, <3>9, LinkAssumption DEF SatSub
    <3>11. StoreFits(pend[c], remote[c], w, rsess[c], n)
      BY <1>5, <3>5, <3>7, <3>10 DEF StoreFits
    <3> QED BY <3>3, <3>4, <3>11
  <2> QED BY <2>1, <2>2
<1>8. CASE f.verb = "write_close" /\ f.arg \in DOMAIN wsess[c]
  <2>1. PICK r : r = Op(f.id, "open", None, wsess[c][f.arg].path, f.arg, wsess[c][f.arg].n)
    OBVIOUS
  <2>2. remote' = [remote EXCEPT ![c] = r] /\ UNCHANGED down
    BY <1>1, <1>8, <2>1 DEF WriteClose
  <2>3. wsess[c][f.arg].path \in FilePaths /\ wsess[c][f.arg].n \in Nat
    BY <1>5, <1>8 DEF StoreFits, IsBuffer
  <2>4. f.arg \in Nat
    <3>1. DOMAIN wsess[c] \subseteq 1..ctr[c]
      BY DEF LinkInd, AllShapes, Shape
    <3> QED BY <1>8, <3>1
  <2>5. r \in SshCalls /\ r.id = f.id
    BY <1>4, <2>1, <2>3, <2>4 DEF Op, SshCalls
  <2>6. StoreFits(pend[c], r, w, rsess[c], n)
    BY <1>7, <2>5 DEF StoreFits
  <2>7. Stores(c, pend[c], r, w, rsess[c], n)
    BY <1>2, <1>7, <2>2, StoreIs DEF Stores
  <2>8. Told(c)
    <3>1. pend' = [pend EXCEPT ![c] = pend[c]]
      BY <2>7 DEF Stores
    <3>2. f.verb \notin {"read_chunk", "read", "stat", "mkdir"} /\ f.verb \notin Loads
      BY <1>3 DEF Loads
    <3> QED BY <1>1, <1>2, <1>3, <2>2, <2>5, <3>1, <3>2, TextGoes
  <2> QED BY <1>2, <1>6, <1>7, <2>6, <2>7, <2>8, StoredKeeps
<1>9. CASE ~(f.verb = "write_close" /\ f.arg \in DOMAIN wsess[c])
  <2>1. PICK g : g = IF f.verb = "write_abort" THEN Ok(f.id, 0) ELSE Err(f.id)
    OBVIOUS
  <2>2. Reply(c, <<g>>) /\ UNCHANGED remote
    BY <1>1, <1>9, <2>1 DEF WriteClose
  <2>3. g \in Replies /\ ~g.bin /\ g.id = f.id
    BY <1>4, <2>1, FrameFits
  <2>4. AnswerFits(f, <<g>>)
    BY <1>3, <2>3, OneAnswers
  <2>5. Told(c)
    <3>1. CASE Command(c, "write_close")
      BY <1>1, <1>2, <2>2, <2>4, <3>1, PlainReply DEF Loads
    <3>2. CASE Command(c, "write_abort")
      BY <1>1, <1>2, <2>2, <2>4, <3>2, PlainReply DEF Loads
    <3> QED BY <1>2, <3>1, <3>2
  <2>6. Stores(c, pend[c], remote[c], w, rsess[c], n)
    BY <1>2, <1>7, <2>2, StoreIs DEF Stores
  <2> QED BY <1>2, <1>6, <1>7, <2>5, <2>6, StoredKeeps
<1> QED BY <1>8, <1>9

\* A step that changes the read sessions and answers.
LEMMA ReadsKeep ==
    ASSUME LinkInd, NEW c \in Conns, NEW verb \in {"read_open", "read_chunk", "read_close"}, Command(c, verb),
           NEW frames, AnswerFits(Head(up[c]), frames), Next1(c), Reply(c, frames), NEW x, IsMap(x),
           Cardinality(DOMAIN x) <= MaxReads, rsess' = [rsess EXCEPT ![c] = x],
           UNCHANGED <<client, pend, wsess, total, remote, files>>
    PROVE  LinkInd'
<1>1. Calm /\ UNCHANGED <<link, pend, wsess, total, remote, fs, ino, dirs>>
  BY DEF Calm, client, files
<1>2. Told(c)
  BY <1>1, PlainReply DEF Loads
<1>3. StoreFits(pend[c], remote[c], wsess[c], x, total[c])
  BY StoreIs DEF StoreFits
<1>4. Stores(c, pend[c], remote[c], wsess[c], x, total[c])
  BY <1>1, StoreIs DEF Stores
<1> QED BY <1>1, <1>2, <1>3, <1>4, FilesSame, StoredKeeps

LEMMA ReadOpenKeeps ==
    ASSUME LinkInd, NEW c \in Conns, NEW ok \in BOOLEAN, ReadOpen(c, ok)
    PROVE  LinkInd'
<1>1. PICK f : f = Head(up[c])
  OBVIOUS
<1>2. PICK opened : opened = (ok /\ ReadRoom(c) /\ f.arg \in DOMAIN fs)
  OBVIOUS
<1>3. PICK g : g = IF opened THEN Ok(f.id, f.id) ELSE Err(f.id)
  OBVIOUS
<1>4. /\ Command(c, "read_open") /\ Next1(c) /\ Reply(c, <<g>>)
      /\ rsess' = IF opened THEN [rsess EXCEPT ![c] = Put(rsess[c], f.id, [i |-> fs[f.arg], at |-> 0])]
                  ELSE rsess
      /\ UNCHANGED <<client, pend, wsess, total, remote, files>>
  BY <1>1, <1>2, <1>3 DEF ReadOpen
<1>5. Idle(c) /\ f.verb = "read_open"
  BY <1>1, <1>4 DEF Command
<1>6. f.id \in Nat
  BY <1>1, <1>5, AskTyped
<1>7. g \in Replies /\ ~g.bin /\ g.id = f.id
  BY <1>3, <1>6, FrameFits
<1>8. AnswerFits(Head(up[c]), <<g>>)
  BY <1>1, <1>5, <1>7, OneAnswers
<1>9. StoreFits(pend[c], remote[c], wsess[c], rsess[c], total[c])
  BY StoreIs
<1>10. PICK x : IsMap(x) /\ Cardinality(DOMAIN x) <= MaxReads /\ rsess' = [rsess EXCEPT ![c] = x]
  <2>1. CASE opened
    <3>1. PICK v : v = [i |-> fs[f.arg], at |-> 0]
      OBVIOUS
    <3>2. rsess' = [rsess EXCEPT ![c] = Put(rsess[c], f.id, v)]
      BY <1>4, <2>1, <3>1
    <3>3. Cardinality(DOMAIN rsess[c]) < MaxReads
      BY <1>2, <2>1 DEF ReadRoom
    <3> QED BY <1>9, <3>2, <3>3, ReadsMore DEF StoreFits
  <2>2. CASE ~opened
    <3>1. rsess' = [rsess EXCEPT ![c] = rsess[c]]
      BY <1>4, <2>2, StoreIs
    <3> QED BY <1>9, <3>1 DEF StoreFits
  <2> QED BY <2>1, <2>2
<1> QED BY <1>4, <1>8, <1>10, ReadsKeep

LEMMA ReadChunkKeeps ==
    ASSUME LinkInd, NEW c \in Conns, NEW ok \in BOOLEAN, ReadChunk(c, ok)
    PROVE  LinkInd'
<1>1. PICK f : f = Head(up[c])
  OBVIOUS
<1>2. PICK n : n = IF rsess[c][f.arg].at < ino[rsess[c][f.arg].i].n THEN 1 ELSE 0
  OBVIOUS
<1>3. /\ Command(c, "read_chunk") /\ Next1(c)
      /\ IF f.arg \in DOMAIN rsess[c] /\ ok
           THEN /\ rsess' = [rsess EXCEPT ![c][f.arg].at = @ + n]
                /\ Reply(c, <<Ok(f.id, n), Binary(n)>>)
           ELSE rsess' = [rsess EXCEPT ![c] = Drop(rsess[c], f.arg)] /\ Reply(c, <<Err(f.id)>>)
      /\ UNCHANGED <<client, pend, wsess, total, remote, files>>
  BY <1>1, <1>2 DEF ReadChunk
<1>4. Idle(c) /\ f.verb = "read_chunk"
  BY <1>1, <1>3 DEF Command
<1>5. f.id \in Nat /\ n \in Nat
  BY <1>1, <1>2, <1>4, AskTyped
<1>6. StoreFits(pend[c], remote[c], wsess[c], rsess[c], total[c])
  BY StoreIs
<1>7. IsMap(rsess[c]) /\ Cardinality(DOMAIN rsess[c]) <= MaxReads
  BY <1>6 DEF StoreFits
<1>8. CASE f.arg \in DOMAIN rsess[c] /\ ok
  <2>1. PICK g, b : g = Ok(f.id, n) /\ b = Binary(n)
    OBVIOUS
  <2>2. AnswerFits(Head(up[c]), <<g, b>>)
    <3>1. g \in Replies /\ ~g.bin /\ g.id = f.id /\ g.verb = "ok" /\ b \in Replies /\ b.bin
      BY <1>5, <2>1, FrameFits
    <3> QED BY <1>1, <1>4, <3>1, TwoAnswer
  <2>3. PICK x : x = [rsess[c] EXCEPT ![f.arg].at = @ + n]
    OBVIOUS
  <2>4. rsess' = [rsess EXCEPT ![c] = x] /\ Reply(c, <<g, b>>)
    BY <1>3, <1>8, <2>1, <2>3
  <2>5. DOMAIN x = DOMAIN rsess[c] /\ x = [y \in DOMAIN x |-> x[y]]
    BY <2>3
  <2>6. IsMap(x) /\ Cardinality(DOMAIN x) <= MaxReads
    BY <1>7, <2>5 DEF IsMap
  <2> QED BY <1>3, <2>2, <2>4, <2>6, ReadsKeep
<1>9. CASE ~(f.arg \in DOMAIN rsess[c] /\ ok)
  <2>1. PICK g : g = Err(f.id)
    OBVIOUS
  <2>2. g \in Replies /\ ~g.bin /\ g.id = f.id /\ g.verb # "ok"
    BY <1>5, <2>1, FrameFits
  <2>3. AnswerFits(Head(up[c]), <<g>>)
    BY <1>1, <2>2, OneAnswers
  <2>4. IsMap(Drop(rsess[c], f.arg)) /\ Cardinality(DOMAIN Drop(rsess[c], f.arg)) <= MaxReads
    BY <1>7, ReadsLess
  <2>5. rsess' = [rsess EXCEPT ![c] = Drop(rsess[c], f.arg)] /\ Reply(c, <<g>>)
    BY <1>3, <1>9, <2>1
  <2> QED BY <1>3, <2>3, <2>4, <2>5, ReadsKeep
<1> QED BY <1>8, <1>9

LEMMA ReadCloseKeeps ==
    ASSUME LinkInd, NEW c \in Conns, ReadClose(c)
    PROVE  LinkInd'
<1>1. PICK f : f = Head(up[c])
  OBVIOUS
<1>2. PICK g : g = Ok(f.id, 0)
  OBVIOUS
<1>3. /\ Command(c, "read_close") /\ Next1(c) /\ Reply(c, <<g>>)
      /\ rsess' = [rsess EXCEPT ![c] = Drop(rsess[c], f.arg)]
      /\ UNCHANGED <<client, pend, wsess, total, remote, files>>
  BY <1>1, <1>2 DEF ReadClose
<1>4. Idle(c) /\ f.verb = "read_close"
  BY <1>1, <1>3 DEF Command
<1>5. f.id \in Nat
  BY <1>1, <1>4, AskTyped
<1>6. AnswerFits(Head(up[c]), <<g>>)
  <2>1. g \in Replies /\ ~g.bin /\ g.id = f.id
    BY <1>2, <1>5, FrameFits
  <2> QED BY <1>1, <1>4, <2>1, OneAnswers
<1>7. IsMap(rsess[c]) /\ Cardinality(DOMAIN rsess[c]) <= MaxReads
  BY StoreIs DEF StoreFits
<1>8. IsMap(Drop(rsess[c], f.arg)) /\ Cardinality(DOMAIN Drop(rsess[c], f.arg)) <= MaxReads
  BY <1>7, ReadsLess
<1> QED BY <1>3, <1>6, <1>8, ReadsKeep

\* No folder is a file.
LEMMA FolderNotFile ==
    ASSUME LinkInd, NEW k \in Nat
    PROVE  Folder(k) \notin DOMAIN fs
<1>1. DOMAIN fs \subseteq FilePaths
  BY DEF LinkInd, LinkTypes, FileTypes
<1>2. Folder(k) \notin FilePaths
  BY LinkAssumption DEF Folder, FilePaths
<1> QED BY <1>1, <1>2

\* Answers that change nothing.
LEMMA AnswersKeep ==
    ASSUME LinkInd, NEW c \in Conns, NEW verb, verb \notin Loads, NEW frames, Answers(c, verb, frames),
           AnswerFits(Head(up[c]), frames), FolderSays(Head(up[c]), frames, DOMAIN fs \cup dirs)
    PROVE  LinkInd'
<1>1. /\ Command(c, verb) /\ Next1(c) /\ Reply(c, frames) /\ Calm
      /\ UNCHANGED <<link, pend, remote, fs, ino, dirs>> /\ UNCHANGED relay
  BY DEF Answers, Calm, client, relay, files
<1>2. \A k \in Nat : Folder(k) \in DOMAIN fs \cup dirs => Folder(k) \in dirs'
  BY <1>1, FolderNotFile
<1>3. Told(c)
  BY <1>1, <1>2, TextReply
<1> QED BY <1>1, <1>3, FilesSame, OnlyTold

LEMMA FsInfoKeeps ==
    ASSUME LinkInd, NEW c \in Conns, FsInfo(c)
    PROVE  LinkInd'
<1>1. PICK f : f = Head(up[c])
  OBVIOUS
<1>2. PICK g : g = Ok(f.id, 0)
  OBVIOUS
<1>3. Answers(c, "fs_info", <<g>>)
  BY <1>1, <1>2 DEF FsInfo
<1>4. Idle(c) /\ f.verb = "fs_info"
  BY <1>1, <1>3 DEF Answers, Command
<1>5. g \in Replies /\ ~g.bin /\ g.id = f.id
  BY <1>1, <1>2, <1>4, AskTyped, FrameFits
<1>6. AnswerFits(f, <<g>>)
  BY <1>4, <1>5, OneAnswers
<1>7. FolderSays(f, <<g>>, DOMAIN fs \cup dirs)
  BY <1>4 DEF FolderSays
<1> QED BY <1>1, <1>3, <1>6, <1>7, AnswersKeep DEF Loads

LEMMA StatKeeps ==
    ASSUME LinkInd, NEW c \in Conns, NEW ok \in BOOLEAN, Stat(c, ok) \/ List(c, ok)
    PROVE  LinkInd'
<1>1. PICK f : f = Head(up[c])
  OBVIOUS
<1>2. PICK g : g = IF Found(ok, f.arg) THEN Ok(f.id, 0) ELSE Err(f.id)
  OBVIOUS
<1>3. PICK verb \in {"stat", "list"} : Answers(c, verb, <<g>>)
  BY <1>1, <1>2 DEF Stat, List
<1>4. Idle(c) /\ f.verb = verb
  BY <1>1, <1>3 DEF Answers, Command
<1>5. f.id \in Nat
  BY <1>1, <1>4, AskTyped
<1>6. g \in Replies /\ ~g.bin /\ g.id = f.id /\ (g.verb = "ok" => Found(ok, f.arg))
  BY <1>2, <1>5, FrameFits
<1>7. AnswerFits(f, <<g>>)
  BY <1>3, <1>4, <1>6, OneAnswers
<1>8. FolderSays(f, <<g>>, DOMAIN fs \cup dirs)
  <2>1. Len(<<g>>) = 1 /\ <<g>>[1] = g
    OBVIOUS
  <2>2. f.verb # "mkdir"
    BY <1>3, <1>4
  <2>3. \A n \in 1..1 : n = 1
    OBVIOUS
  <2>4. g.verb = "ok" => f.arg \in DOMAIN fs \cup dirs
    BY <1>6 DEF Found
  <2> QED BY <2>1, <2>2, <2>3, <2>4 DEF FolderSays
<1> QED BY <1>1, <1>3, <1>7, <1>8, AnswersKeep DEF Loads

LEMMA ReadKeeps ==
    ASSUME LinkInd, NEW c \in Conns, NEW ok \in BOOLEAN, Read(c, ok)
    PROVE  LinkInd'
<1>1. PICK f : f = Head(up[c])
  OBVIOUS
<1>2. PICK frames : frames = IF ok /\ f.arg \in DOMAIN fs
                             THEN <<Ok(f.id, 0), Binary(ino[fs[f.arg]].n)>> ELSE <<Err(f.id)>>
  OBVIOUS
<1>3. Answers(c, "read", frames)
  BY <1>1, <1>2 DEF Read
<1>4. Idle(c) /\ f.verb = "read"
  BY <1>1, <1>3 DEF Answers, Command
<1>5. f.id \in Nat
  BY <1>1, <1>4, AskTyped
<1>6. AnswerFits(f, frames)
  <2>1. CASE ok /\ f.arg \in DOMAIN fs
    <3>1. PICK k \in Nat : k = ino[fs[f.arg]].n
      BY <2>1 DEF LinkInd, LinkTypes, FileTypes
    <3>2. PICK g, b : g = Ok(f.id, 0) /\ b = Binary(k)
      OBVIOUS
    <3>3. frames = <<g, b>>
      BY <1>2, <2>1, <3>1, <3>2
    <3>4. g \in Replies /\ ~g.bin /\ g.id = f.id /\ g.verb = "ok" /\ b \in Replies /\ b.bin
      BY <1>5, <3>2, FrameFits
    <3> QED BY <1>4, <3>3, <3>4, TwoAnswer
  <2>2. CASE ~(ok /\ f.arg \in DOMAIN fs)
    <3>1. PICK g : g = Err(f.id)
      OBVIOUS
    <3>2. g \in Replies /\ ~g.bin /\ g.id = f.id /\ g.verb # "ok"
      BY <1>5, <3>1, FrameFits
    <3> QED BY <1>2, <2>2, <3>1, <3>2, OneAnswers
  <2> QED BY <2>1, <2>2
<1>7. FolderSays(f, frames, DOMAIN fs \cup dirs)
  BY <1>4 DEF FolderSays
<1> QED BY <1>1, <1>3, <1>6, <1>7, AnswersKeep DEF Loads

LEMMA MkdirKeeps ==
    ASSUME LinkInd, NEW c \in Conns, NEW ok \in BOOLEAN, Mkdir(c, ok)
    PROVE  LinkInd'
<1>1. PICK f : f = Head(up[c])
  OBVIOUS
<1>2. PICK made : made = (/\ ok /\ f.arg \notin dirs
                          /\ (f.arg.tmp = 1 \/ Folder(f.arg.tmp - 1) \in dirs))
  OBVIOUS
<1>3. PICK g : g = IF made THEN Ok(f.id, 0)
                   ELSE [Err(f.id) EXCEPT !.arg = IF ok /\ f.arg \in dirs THEN 1 ELSE 0]
  OBVIOUS
<1>4. /\ Command(c, "mkdir") /\ Next1(c) /\ Reply(c, <<g>>) /\ Calm
      /\ dirs' = IF made THEN dirs \cup {f.arg} ELSE dirs
      /\ UNCHANGED <<link, pend, remote, fs, ino>> /\ UNCHANGED relay
  BY <1>1, <1>2, <1>3 DEF Mkdir, Calm, client, relay
<1>5. Idle(c) /\ f.verb = "mkdir"
  BY <1>1, <1>4 DEF Command
<1>6. f.id \in Nat
  BY <1>1, <1>5, AskTyped
<1>7. g \in Replies /\ ~g.bin /\ g.id = f.id /\ (g.verb = "ok" \/ g.arg = 1 => f.arg \in dirs')
  <2>1. CASE made
    BY <1>3, <1>4, <1>6, <2>1, FrameFits
  <2>2. CASE ~made
    <3>1. PICK e : e = Err(f.id) /\ e \in Replies /\ ~e.bin /\ e.id = f.id /\ e.verb = "err"
      BY <1>6, FrameFits
    <3>2. PICK k : k = (IF ok /\ f.arg \in dirs THEN 1 ELSE 0) /\ k \in Nat
      OBVIOUS
    <3>3. g = [e EXCEPT !.arg = k]
      BY <1>3, <2>2, <3>1, <3>2
    <3>4. g \in Replies /\ ~g.bin /\ g.id = f.id /\ g.verb = "err" /\ g.arg = k
      BY <3>1, <3>2, <3>3 DEF Replies
    <3>5. k = 1 => f.arg \in dirs'
      BY <1>4, <2>2, <3>2
    <3> QED BY <3>4, <3>5
  <2> QED BY <2>1, <2>2
<1>8. AnswerFits(f, <<g>>)
  BY <1>5, <1>7, OneAnswers
<1>9. FolderSays(f, <<g>>, dirs')
  <2>1. Len(<<g>>) = 1 /\ <<g>>[1] = g
    OBVIOUS
  <2>2. \A n \in 1..1 : n = 1
    OBVIOUS
  <2> QED BY <1>5, <1>7, <2>1, <2>2 DEF FolderSays
<1>10. dirs \subseteq dirs' /\ \A k \in Nat : Folder(k) \in dirs' => Folder(k) \in dirs'
  BY <1>4
<1>11. Told(c)
  <2>1. PICK found : found = dirs'
    OBVIOUS
  <2>2. FolderSays(f, <<g>>, found) /\ \A k \in Nat : Folder(k) \in found => Folder(k) \in dirs'
    BY <1>9, <2>1
  <2> QED BY <1>1, <1>4, <1>8, <1>10, <2>2, TextReply DEF Loads
<1> QED BY <1>4, <1>10, <1>11, FilesSame, OnlyTold

\* The files after a file is unlinked, linked, or written.
LEMMA FilesDrop ==
    ASSUME LinkInd, ino' = ino, NEW p, fs' = Drop(fs, p)
    PROVE  FileTypes'
<1>1. FileTypes
  BY DEF LinkInd, LinkTypes
<1>2. DOMAIN fs' = DOMAIN fs \ {p} /\ \A x \in DOMAIN fs' : fs'[x] = fs[x]
  BY DEF Drop
<1>3. fs' = [x \in DOMAIN fs' |-> fs'[x]]
  BY DEF Drop
<1> QED BY <1>1, <1>2, <1>3 DEF FileTypes
Links(g, files_) == g = [x \in DOMAIN g |-> g[x]] /\ DOMAIN g \subseteq FilePaths /\ \A x \in DOMAIN g : g[x] \in files_
Inodes(j) == IsMap(j) /\ DOMAIN j \subseteq Nat /\ \A i \in DOMAIN j : j[i].n \in Nat
LEMMA LinksPut ==
    ASSUME NEW S, NEW T, S \subseteq T, NEW g, Links(g, S), NEW p \in FilePaths, NEW i \in T
    PROVE  Links(Put(g, p, i), T)
<1>1. PICK h : h = Put(g, p, i)
  OBVIOUS
<1>2. DOMAIN h = DOMAIN g \cup {p} /\ h[p] = i /\ \A x \in DOMAIN g : x # p => h[x] = g[x]
  BY <1>1 DEF Put
<1>3. h = [x \in DOMAIN h |-> h[x]]
  BY <1>1 DEF Put
<1> QED BY <1>1, <1>2, <1>3 DEF Links
LEMMA LinksDrop ==
    ASSUME NEW S, NEW g, Links(g, S), NEW p
    PROVE  Links(Drop(g, p), S)
BY DEF Links, Drop
LEMMA FilesAre ==
    FileTypes <=> Inodes(ino) /\ Links(fs, DOMAIN ino)
BY DEF FileTypes, Inodes, Links
LEMMA InodesPut ==
    ASSUME NEW j, Inodes(j), NEW i \in Nat, NEW by
    PROVE  Inodes(Put(j, i, [by |-> by, n |-> 0]))
<1>1. PICK h : h = Put(j, i, [by |-> by, n |-> 0])
  OBVIOUS
<1>2. DOMAIN h = DOMAIN j \cup {i} /\ h[i].n = 0 /\ \A x \in DOMAIN j : x # i => h[x] = j[x]
  BY <1>1 DEF Put
<1>3. h = [x \in DOMAIN h |-> h[x]]
  BY <1>1 DEF Put
<1>4. IsFiniteSet(DOMAIN h)
  BY <1>2, FS_AddElement DEF Inodes, IsMap
<1> QED BY <1>1, <1>2, <1>3, <1>4 DEF Inodes, IsMap

LEMMA DeleteKeeps ==
    ASSUME LinkInd, NEW c \in Conns, NEW ok \in BOOLEAN, Delete(c, ok)
    PROVE  LinkInd'
<1>1. PICK f : f = Head(up[c])
  OBVIOUS
<1>2. PICK found : found = (ok /\ f.arg \in DOMAIN fs)
  OBVIOUS
<1>3. PICK g : g = IF found THEN Ok(f.id, 0) ELSE Err(f.id)
  OBVIOUS
<1>4. /\ Command(c, "delete") /\ Next1(c) /\ Reply(c, <<g>>) /\ Calm
      /\ fs' = IF found THEN Drop(fs, f.arg) ELSE fs
      /\ UNCHANGED <<link, pend, remote, ino, dirs>> /\ UNCHANGED relay
  BY <1>1, <1>2, <1>3 DEF Delete, Calm, client, relay
<1>5. Idle(c) /\ f.verb = "delete"
  BY <1>1, <1>4 DEF Command
<1>6. f.id \in Nat
  BY <1>1, <1>5, AskTyped
<1>7. AnswerFits(f, <<g>>)
  <2>1. g \in Replies /\ ~g.bin /\ g.id = f.id
    BY <1>3, <1>6, FrameFits
  <2> QED BY <1>5, <2>1, OneAnswers
<1>8. Told(c)
  BY <1>1, <1>4, <1>7, PlainReply DEF Loads
<1>9. FileTypes'
  BY <1>4, FilesDrop, FilesSame
<1> QED BY <1>4, <1>8, <1>9, OnlyTold

LEMMA RenameUnlinkKeeps ==
    ASSUME LinkInd, NEW c \in Conns, NEW ok \in BOOLEAN, RenameUnlink(c, ok)
    PROVE  LinkInd'
<1>1. PICK f : f = Head(up[c])
  OBVIOUS
<1>2. PICK r : r = Op(f.id, "rename", f.arg.from, f.arg.to, 0, 0)
  OBVIOUS
<1>3. /\ Command(c, "rename") /\ Next1(c) /\ Calm /\ remote' = [remote EXCEPT ![c] = r]
      /\ fs' = IF ok THEN Drop(fs, f.arg.to) ELSE fs
      /\ UNCHANGED <<link, down, pend, wsess, rsess, total, ino, dirs>>
  BY <1>1, <1>2 DEF RenameUnlink, Calm, client
<1>4. Idle(c) /\ f.verb = "rename" /\ ~f.bin
  BY <1>1, <1>3 DEF Command
<1>5. f.id \in Nat /\ f.arg \in [from : FilePaths, to : FilePaths]
  BY <1>1, <1>4, AskTyped DEF ArgFits
<1>6. r \in SshCalls /\ r.id = f.id
  BY <1>2, <1>5 DEF Op, SshCalls
<1>7. Stores(c, pend[c], r, wsess[c], rsess[c], total[c])
  BY <1>3, StoreIs DEF Stores
<1>8. StoreFits(pend[c], r, wsess[c], rsess[c], total[c])
  BY <1>6, StoreIs DEF StoreFits
<1>9. Told(c)
  <2>1. pend' = [pend EXCEPT ![c] = pend[c]]
    BY <1>7 DEF Stores
  <2>2. f.verb \notin {"read_chunk", "read", "stat", "mkdir"} /\ f.verb \notin Loads
    BY <1>4 DEF Loads
  <2> QED BY <1>1, <1>3, <1>4, <1>6, <2>1, <2>2, TextGoes
<1>10. FileTypes'
  BY <1>3, FilesDrop, FilesSame
<1> QED BY <1>3, <1>7, <1>8, <1>9, <1>10, StoredKeeps

\* The call to the SSH server that a connection waits for ends.
LEMMA RemoteEnds ==
    ASSUME LinkInd, NEW c \in Conns, remote[c] # None, NEW g, g \in Replies, ~g.bin, g.id = remote[c].id,
           Reply(c, <<g>>), Calm, UNCHANGED <<link, up, pend, wsess, rsess, total>>,
           remote' = [remote EXCEPT ![c] = None], dirs' = dirs, FileTypes'
    PROVE  LinkInd'
<1>1. Told(c)
  BY RemoteReply
<1>2. Stores(c, pend[c], None, wsess[c], rsess[c], total[c])
  BY StoreIs DEF Stores
<1>3. StoreFits(pend[c], None, wsess[c], rsess[c], total[c])
  BY StoreIs DEF StoreFits
<1> QED BY <1>1, <1>2, <1>3, StoredKeeps

LEMMA RenameMoveKeeps ==
    ASSUME LinkInd, NEW c \in Conns, NEW ok \in BOOLEAN, RenameMove(c, ok)
    PROVE  LinkInd'
<1>1. PICK r : r = remote[c] /\ r # None /\ r \in SshCalls
  BY DEF RenameMove, LinkInd, LinkTypes, RelayTypes
<1>2. PICK moved : moved = (ok /\ r.from \in DOMAIN fs /\ r.to \notin DOMAIN fs)
  OBVIOUS
<1>3. PICK g : g = IF moved THEN Ok(r.id, 0) ELSE Err(r.id)
  OBVIOUS
<1>4. /\ Reply(c, <<g>>) /\ Calm /\ remote' = [remote EXCEPT ![c] = None]
      /\ fs' = IF moved THEN Put(Drop(fs, r.from), r.to, fs[r.from]) ELSE fs
      /\ UNCHANGED <<link, up, pend, wsess, rsess, total, ino, dirs>>
  BY <1>1, <1>2, <1>3 DEF RenameMove, Calm, client
<1>5. r.id \in Nat /\ r.to \in FilePaths
  BY <1>1 DEF SshCalls
<1>6. g \in Replies /\ ~g.bin /\ g.id = r.id
  BY <1>3, <1>5, FrameFits
<1>7. Inodes(ino) /\ Links(fs, DOMAIN ino)
  BY FilesAre DEF LinkInd, LinkTypes
<1>8. Links(fs', DOMAIN ino)
  <2>1. CASE moved
    <3>1. fs[r.from] \in DOMAIN ino
      BY <1>2, <1>7, <2>1 DEF Links
    <3>2. Links(Drop(fs, r.from), DOMAIN ino)
      BY <1>7, LinksDrop
    <3>3. Links(Put(Drop(fs, r.from), r.to, fs[r.from]), DOMAIN ino)
      BY <1>5, <3>1, <3>2, LinksPut
    <3> QED BY <1>4, <2>1, <3>3
  <2>2. CASE ~moved
    BY <1>4, <1>7, <2>2
  <2> QED BY <2>1, <2>2
<1>9. FileTypes'
  BY <1>4, <1>7, <1>8 DEF FileTypes, Inodes, Links
<1> QED BY <1>1, <1>4, <1>6, <1>9, RemoteEnds

LEMMA WriteTruncateKeeps ==
    ASSUME LinkInd, NEW c \in Conns, NEW ok \in BOOLEAN, WriteTruncate(c, ok)
    PROVE  LinkInd'
<1>1. PICK r : r = remote[c] /\ r # None /\ r \in SshCalls
  BY DEF WriteTruncate, LinkInd, LinkTypes, RelayTypes
<1>2. PICK i : i = IF r.to \in DOMAIN fs THEN fs[r.to] ELSE FreshIno
  OBVIOUS
<1>3. /\ Calm
      /\ IF ok THEN /\ fs' = Put(fs, r.to, i) /\ ino' = Put(ino, i, [by |-> None, n |-> 0])
                    /\ remote' = [remote EXCEPT ![c] = [r EXCEPT !.op = "data", !.from = i]]
                    /\ UNCHANGED down
               ELSE /\ remote' = [remote EXCEPT ![c] = None] /\ Reply(c, <<Err(r.id)>>)
                    /\ UNCHANGED <<fs, ino>>
      /\ UNCHANGED <<link, up, pend, wsess, rsess, total, dirs>>
  BY <1>1, <1>2 DEF WriteTruncate, Calm, client
<1>4. r.id \in Nat /\ r.to \in FilePaths
  BY <1>1 DEF SshCalls
<1>5. CASE ~ok
  <2>1. PICK g : g = Err(r.id) /\ g \in Replies /\ ~g.bin /\ g.id = r.id
    BY <1>4, FrameFits
  <2>2. FileTypes'
    BY <1>3, <1>5, FilesSame
  <2> QED BY <1>1, <1>3, <1>5, <2>1, <2>2, RemoteEnds
<1>6. CASE ok
  <2>1. Inodes(ino) /\ Links(fs, DOMAIN ino)
    BY FilesAre DEF LinkInd, LinkTypes
  <2>2. i \in Nat
    <3>1. IsFiniteSet(DOMAIN ino) /\ DOMAIN ino \subseteq Nat
      BY <2>1 DEF Inodes, IsMap
    <3>2. FreshIno \in Nat
      BY <3>1, FS_CardinalityType DEF FreshIno
    <3> QED BY <1>2, <2>1, <3>1, <3>2 DEF Links
  <2>3. Inodes(ino') /\ DOMAIN ino' = DOMAIN ino \cup {i}
    <3>1. Inodes(Put(ino, i, [by |-> None, n |-> 0]))
      BY <2>1, <2>2, InodesPut
    <3> QED BY <1>3, <1>6, <3>1 DEF Put
  <2>4. Links(fs', DOMAIN ino')
    <3>1. DOMAIN ino \subseteq DOMAIN ino' /\ i \in DOMAIN ino'
      BY <2>3
    <3>2. Links(Put(fs, r.to, i), DOMAIN ino')
      BY <1>4, <2>1, <3>1, LinksPut
    <3> QED BY <1>3, <1>6, <3>2
  <2>5. FileTypes'
    BY <2>3, <2>4 DEF FileTypes, Inodes, Links
  <2>6. PICK s : s = [r EXCEPT !.op = "data", !.from = i]
    OBVIOUS
  <2>7. s \in SshCalls /\ s.id = r.id
    BY <1>1, <2>2, <2>6 DEF SshCalls
  <2>8. Told(c)
    BY <1>1, <1>3, <1>6, <2>6, <2>7, RemoteGoes
  <2>9. Stores(c, pend[c], s, wsess[c], rsess[c], total[c])
    BY <1>3, <1>6, <2>6, StoreIs DEF Stores
  <2>10. StoreFits(pend[c], s, wsess[c], rsess[c], total[c])
    BY <2>7, StoreIs DEF StoreFits
  <2> QED BY <1>3, <2>5, <2>8, <2>9, <2>10, StoredKeeps
<1> QED BY <1>5, <1>6

LEMMA WriteDataKeeps ==
    ASSUME LinkInd, NEW c \in Conns, NEW ok \in BOOLEAN, WriteData(c, ok)
    PROVE  LinkInd'
<1>1. PICK r : r = remote[c] /\ r # None /\ r \in SshCalls
  BY DEF WriteData, LinkInd, LinkTypes, RelayTypes
<1>2. PICK g : g = IF ok THEN Ok(r.id, 0) ELSE Err(r.id)
  OBVIOUS
<1>3. PICK e : e = Landed(r.from, <<c, r.h>>, r.n)
  OBVIOUS
<1>4. /\ Reply(c, <<g>>) /\ Calm /\ remote' = [remote EXCEPT ![c] = None]
      /\ ino' = IF ok THEN [ino EXCEPT ![r.from] = e] ELSE ino
      /\ UNCHANGED <<link, up, pend, wsess, rsess, total, fs, dirs>>
  BY <1>1, <1>2, <1>3 DEF WriteData, Calm, client
<1>5. r.id \in Nat /\ r.n \in Nat
  BY <1>1 DEF SshCalls
<1>6. g \in Replies /\ ~g.bin /\ g.id = r.id
  BY <1>2, <1>5, FrameFits
<1>7. Inodes(ino) /\ Links(fs, DOMAIN ino)
  BY FilesAre DEF LinkInd, LinkTypes
<1>8. r.from \in DOMAIN ino => e.n \in Nat
  BY <1>3, <1>5, <1>7 DEF Landed, Inodes
<1>9. Inodes(ino') /\ DOMAIN ino' = DOMAIN ino
  <2>1. CASE ok
    <3>1. DOMAIN ino' = DOMAIN ino /\ ino' = [x \in DOMAIN ino' |-> ino'[x]]
      BY <1>4, <2>1
    <3>2. ASSUME NEW x \in DOMAIN ino PROVE ino'[x].n \in Nat
      <4>1. CASE x = r.from
        BY <1>4, <1>8, <2>1, <4>1
      <4>2. CASE x # r.from
        BY <1>4, <1>7, <2>1, <4>2 DEF Inodes
      <4> QED BY <4>1, <4>2
    <3> QED BY <1>7, <3>1, <3>2 DEF Inodes, IsMap
  <2>2. CASE ~ok
    BY <1>4, <1>7, <2>2
  <2> QED BY <2>1, <2>2
<1>10. FileTypes'
  BY <1>4, <1>7, <1>9 DEF FileTypes, Inodes, Links
<1> QED BY <1>1, <1>4, <1>6, <1>10, RemoteEnds

\* A drop loses frames of both directions.
LEMMA LinkDropKeeps ==
    ASSUME LinkInd, NEW c \in Conns, NEW i \in 0..Len(up[c]), NEW j \in 0..Len(down[c]), LinkDrop(c, i, j)
    PROVE  LinkInd'
<1>0. ClientTypes /\ WireTypes /\ RelayTypes
  BY DEF LinkInd, LinkTypes
<1>1. PICK u : u = SubSeq(up[c], 1, i)
  OBVIOUS
<1>2. PICK q : q = SubSeq(down[c], 1, j)
  OBVIOUS
<1>3. /\ link' = [link EXCEPT ![c] = "closed"] /\ up' = [up EXCEPT ![c] = u] /\ down' = [down EXCEPT ![c] = q]
      /\ UNCHANGED <<ctr, busy, pend, wsess, rsess, total, remote, fs, ino, dirs, plan, task>>
  BY <1>1, <1>2 DEF LinkDrop, relay, files
<1>4. up[c] \in Seq(Asks) /\ down[c] \in Seq(Replies)
  BY <1>0 DEF WireTypes
<1>5. u \in Seq(Asks)
  BY <1>1, <1>4
<1>6. q \in Seq(Replies) /\ Len(q) = j /\ \A n \in 1..j : q[n] = down[c][n]
  BY <1>2, <1>4
<1>7. up'[c] = u /\ down'[c] = q /\ link'[c] = "closed"
  BY <1>0, <1>3 DEF WireTypes, ClientTypes
<1>8. LinkTypes'
  <2>1. WireTypes'
    BY <1>0, <1>3, <1>5, <1>6 DEF WireTypes
  <2>2. ClientTypes' /\ FileTypes'
    BY <1>0, <1>3, FilesSame DEF ClientTypes
  <2>3. RelayTypes'
    BY <1>0, <1>3 DEF RelayTypes
  <2> QED BY <2>1, <2>2, <2>3 DEF LinkTypes
<1>9. Elsewhere(c)
  BY <1>0, <1>3 DEF Elsewhere, SameConn, WireTypes, ClientTypes
<1>10. Shape(c)'
  <2>1. Shape(c) /\ Shrinks(c) /\ ctr'[c] = ctr[c] /\ wsess'[c] = wsess[c]
    BY <1>1, <1>3, <1>7 DEF LinkInd, AllShapes, Shrinks
  <2> QED BY <1>4, <2>1, ShapeSame
<1>11. OpenOk(c)' /\ BuffersCounted(c)'
  BY <1>3, <1>7 DEF OpenOk, LinkInd, AllCounted, BuffersCounted
<1>12. Fewer(c)
  <2>1. \A n \in 1..j : n \in 1..Len(down[c])
    BY <1>4
  <2> QED BY <1>6, <1>7, <2>1 DEF Fewer
<1>13. \A t \in Tasks : Conn(t) = c => FolderOk(t)'
  BY <1>3, <1>12, FolderSame DEF LinkInd, AllFolders
<1>14. Here(c)
  BY <1>10, <1>11, <1>13 DEF Here
<1> QED BY <1>3, <1>8, <1>9, <1>14, RelayMoves

\* The relay forgets the connection.
LEMMA LinkEndKeeps ==
    ASSUME LinkInd, NEW c \in Conns, LinkEnd(c)
    PROVE  LinkInd'
<1>0. ClientTypes /\ WireTypes
  BY DEF LinkInd, LinkTypes
<1>1. /\ link' = [link EXCEPT ![c] = "ended"] /\ pend' = [pend EXCEPT ![c] = None]
      /\ wsess' = [wsess EXCEPT ![c] = EmptyMap] /\ rsess' = [rsess EXCEPT ![c] = EmptyMap]
      /\ total' = [total EXCEPT ![c] = 0]
      /\ UNCHANGED <<ctr, busy, up, down, remote, fs, ino, dirs, plan, task>>
  BY DEF LinkEnd, wire, files
<1>2. Stores(c, None, remote[c], EmptyMap, EmptyMap, 0)
  BY <1>1, StoreIs DEF Stores
<1>3. DOMAIN EmptyMap = {}
  BY DEF EmptyMap
<1>4. IsMap(EmptyMap) /\ Cardinality(DOMAIN EmptyMap) <= MaxReads /\ 0 <= MaxStream
  <2>1. Cardinality({}) = 0 /\ IsFiniteSet({})
    BY FS_EmptySet
  <2>2. EmptyMap = [x \in DOMAIN EmptyMap |-> EmptyMap[x]]
    BY DEF EmptyMap
  <2>3. 0 <= MaxReads /\ 0 <= MaxStream
    BY LinkAssumption
  <2> QED BY <1>3, <2>1, <2>2, <2>3 DEF IsMap
<1>5. StoreFits(None, remote[c], EmptyMap, EmptyMap, 0)
  BY <1>4, StoreIs, BufferedNone DEF StoreFits
<1>6. /\ RelayTypes' /\ BuffersCounted(c)' /\ wsess'[c] = EmptyMap
      /\ \A d \in Conns \ {c} : /\ pend'[d] = pend[d] /\ remote'[d] = remote[d]
                                /\ wsess'[d] = wsess[d] /\ rsess'[d] = rsess[d]
                                /\ total'[d] = total[d]
  BY <1>2, <1>5, StoresTyped
<1>7. LinkTypes'
  <2>1. ClientTypes' /\ WireTypes' /\ FileTypes'
    BY <1>0, <1>1, FilesSame DEF ClientTypes, WireTypes
  <2> QED BY <1>6, <2>1 DEF LinkTypes
<1>8. Elsewhere(c)
  BY <1>0, <1>1, <1>6 DEF Elsewhere, SameConn, ClientTypes
<1>9. Shape(c)'
  <2>1. Shape(c) /\ up[c] \in Seq(Asks) /\ Shrinks(c) /\ ctr'[c] = ctr[c]
    BY <1>0, <1>1 DEF LinkInd, AllShapes, Shrinks, WireTypes
  <2>2. DOMAIN wsess'[c] \subseteq DOMAIN wsess[c]
    BY <1>3, <1>6
  <2> QED BY <2>1, <2>2, ShapeSame
<1>10. OpenOk(c)'
  BY <1>0, <1>1 DEF OpenOk, ClientTypes
<1>11. \A t \in Tasks : Conn(t) = c => FolderOk(t)'
  BY <1>1, FoldersHere
<1>12. Here(c)
  BY <1>6, <1>9, <1>10, <1>11 DEF Here
<1> QED BY <1>1, <1>7, <1>8, <1>12, RelayMoves

LEMMA LinkStarts == ASSUME LinkInit PROVE LinkInd
<1>1. ClientTypes
  <2>1. ASSUME NEW t \in Tasks PROVE task[t] \in TaskStates
    BY DEF LinkInit, TaskStates, RestPcs
  <2>2. task \in [Tasks -> TaskStates]
    BY <2>1 DEF LinkInit
  <2> QED BY <2>2 DEF ClientTypes, LinkInit
<1>2. WireTypes /\ FileTypes
  <2>1. <<>> \in Seq(Asks) /\ <<>> \in Seq(Replies) /\ IsFiniteSet({})
    BY FS_EmptySet
  <2> QED BY <2>1 DEF WireTypes, FileTypes, LinkInit, EmptyMap, IsMap
<1>3. RelayTypes /\ AllCounted
  <2>1. IsBuffer(EmptyMap) /\ Buffered(EmptyMap) = 0
    BY BufferedNone
  <2>2. DOMAIN EmptyMap = {} /\ Cardinality({}) = 0
    BY FS_EmptySet DEF EmptyMap
  <2>3. 0 <= MaxReads /\ 0 <= MaxStream
    BY LinkAssumption
  <2>4. RelayTypes
    BY <2>1 DEF RelayTypes, LinkInit, IsBuffer
  <2> QED BY <2>1, <2>2, <2>3, <2>4 DEF AllCounted, BuffersCounted, LinkInit
<1>4. ASSUME NEW t \in Tasks
      PROVE  /\ task[t].pc \in {"start", "done"} /\ task[t].k = 0
             /\ plan[t].kind = "folders" => task[t].pc = "start"
  BY DEF LinkInit
<1>5. AllOpen
  <2>1. ASSUME NEW c \in Conns PROVE OpenOk(c)
    <3>1. Quiet(c) /\ busy[c] = None
      BY DEF LinkInit, Quiet
    <3>2. \A t \in Tasks : task[t].pc \notin Holding
      BY <1>4 DEF Holding, WaitPcs, BodyPcs
    <3> QED BY <3>1, <3>2, LinkAssumption DEF OpenOk
  <2> QED BY <2>1 DEF AllOpen
<1>6. AllFolders
  <2>1. ASSUME NEW t \in Tasks, plan[t].kind = "folders" PROVE FolderOk(t)
    <3>1. task[t].pc = "start" /\ task[t].k = 0
      BY <1>4, <2>1
    <3>2. 1..0 = {}
      OBVIOUS
    <3> QED BY <3>1, <3>2 DEF FolderOk, Ensuring
  <2> QED BY <2>1 DEF AllFolders, FolderOk
<1>7. AllShapes
  BY DEF AllShapes, Shape, LinkInit, EmptyMap
<1> QED BY <1>1, <1>2, <1>3, <1>5, <1>6, <1>7 DEF LinkInd, LinkTypes

LEMMA LinkStutters ==
    ASSUME LinkInd, UNCHANGED linkVars
    PROVE  LinkInd'
<1>1. UNCHANGED <<ctr, busy, up, down, link, pend, wsess, rsess, total, remote, fs, ino, dirs, plan, task>>
  BY DEF linkVars, wire, relay, files
<1>2. LinkTypes'
  BY <1>1 DEF LinkInd, LinkTypes, ClientTypes, WireTypes, RelayTypes, FileTypes
<1>3. AllOpen'
  <2>1. ASSUME NEW c \in Conns PROVE OpenOk(c)'
    BY <1>1, OpenSame DEF SameConn, SameTasks, LinkInd, AllOpen
  <2> QED BY <2>1 DEF AllOpen
<1>4. AllFolders' /\ AllShapes' /\ AllCounted'
  <2>1. ASSUME NEW t \in Tasks PROVE FolderOk(t)'
    BY <1>1, FolderSame DEF Fewer, LinkInd, AllFolders
  <2> QED BY <1>1, <2>1 DEF LinkInd, AllFolders, AllShapes, AllCounted, Shape, BuffersCounted
<1> QED BY <1>2, <1>3, <1>4 DEF LinkInd

LEMMA LinkKeeps ==
    ASSUME LinkInd, [LinkNext]_linkVars
    PROVE  LinkInd'
<1>1. ASSUME NEW t \in Tasks, TaskStep(t) PROVE LinkInd'
  BY <1>1, TaskCallKeeps, RecvKeeps, ClosedKeeps, FoldersDoneKeeps DEF TaskStep
<1>2. ASSUME NEW c \in Conns, RelayStep(c) PROVE LinkInd'
  <2>1. ASSUME NEW ok \in BOOLEAN,
               \/ ReadOpen(c, ok) \/ ReadChunk(c, ok) \/ Read(c, ok) \/ Stat(c, ok) \/ List(c, ok)
               \/ Mkdir(c, ok) \/ Delete(c, ok)
               \/ RenameUnlink(c, ok) \/ RenameMove(c, ok) \/ WriteTruncate(c, ok) \/ WriteData(c, ok)
        PROVE  LinkInd'
    BY <2>1, ReadOpenKeeps, ReadChunkKeeps, ReadKeeps, StatKeeps, MkdirKeeps, DeleteKeeps,
       RenameUnlinkKeeps, RenameMoveKeeps, WriteTruncateKeeps, WriteDataKeeps
  <2> QED BY <1>2, <2>1, WriteOpenKeeps, WriteChunkKeeps, BinaryFrameKeeps, OversizedFrameKeeps,
             WriteCloseKeeps, ReadCloseKeeps, FsInfoKeeps DEF RelayStep
<1>3. ASSUME NEW c \in Conns, LinkEnd(c) PROVE LinkInd'
  BY <1>3, LinkEndKeeps
<1>4. ASSUME NEW c \in Conns, NEW i \in 0..Len(up[c]), NEW j \in 0..Len(down[c]), LinkDrop(c, i, j)
      PROVE  LinkInd'
  BY <1>4, LinkDropKeeps
<1>5. CASE UNCHANGED linkVars
  BY <1>5, LinkStutters
<1> QED BY <1>1, <1>2, <1>3, <1>4, <1>5 DEF LinkNext

LEMMA LinkMeans == ASSUME LinkInd PROVE LinkInv
<1>0. ClientTypes /\ WireTypes /\ RelayTypes /\ FileTypes
  BY DEF LinkInd, LinkTypes
<1>1. LinkTypeOK
  <2>1. ASSUME NEW c \in Conns
        PROVE  /\ busy[c] \in Tasks \cup {None} /\ total[c] \in 0..MaxStream
               /\ link[c] \in {"open", "closed", "ended"} /\ DOMAIN wsess[c] \subseteq 1..ctr[c]
    <3>1. total[c] \in Nat /\ total[c] <= MaxStream /\ MaxStream \in Nat
      BY <1>0, LinkAssumption DEF RelayTypes, LinkInd, AllCounted, BuffersCounted
    <3>2. DOMAIN wsess[c] \subseteq 1..ctr[c]
      BY DEF LinkInd, AllShapes, Shape
    <3> QED BY <1>0, <3>1, <3>2 DEF ClientTypes
  <2> QED BY <1>0, <2>1 DEF LinkTypeOK, FileTypes
<1>2. BufferAccounted
  BY DEF BufferAccounted, LinkInd, AllCounted, BuffersCounted
<1>3. Answerable
  <2> SUFFICES ASSUME NEW t \in Tasks, NEW c \in Conns, c = Conn(t), link[c] = "open"
               PROVE  /\ Waiting(t) => \/ task[t].id \in Ids(up[c]) \cup Ids(down[c])
                                       \/ pend[c] # None /\ pend[c].id = task[t].id
                                       \/ remote[c] # None /\ remote[c].id = task[t].id
                      /\ Waiting2(t) => \E n \in DOMAIN down[c] : down[c][n].bin
    BY <1>0, ConnIn DEF Answerable
  <2>0. OpenOk(c) /\ up[c] \in Seq(Asks) /\ down[c] \in Seq(Replies)
    BY <1>0 DEF LinkInd, AllOpen, WireTypes
  <2>1. CASE Waiting(t)
    <3>1. task[t].pc \in WaitPcs /\ ~Waiting2(t)
      BY <2>1 DEF Waiting, Waiting2, WaitPcs
    <3>2. Phase(c, t)
      BY <2>0, <3>1 DEF OpenOk, Holding
    <3>3. Asked(c, t) \/ Sent(c, t) \/ AtServer(c, t) \/ Answered(c, t)
      BY <3>1, <3>2 DEF Phase, WaitPcs, BodyPcs
    <3>4. CASE Asked(c, t)
      <4>1. 1 \in DOMAIN up[c]
        <5>1. PICK k \in Nat : k = Len(up[c]) /\ k # 0 /\ DOMAIN up[c] = 1..k
          BY <2>0, <3>4, SeqFacts DEF Asked
        <5> QED BY <5>1
      <4>2. ~up[c][1].bin /\ up[c][1].id = task[t].id
        BY <3>4 DEF Asked, AskFits
      <4> QED BY <3>1, <4>1, <4>2 DEF Ids
    <3>5. CASE Answered(c, t)
      <4>1. 1 \in DOMAIN down[c]
        <5>1. PICK k \in Nat : k = Len(down[c]) /\ k # 0 /\ DOMAIN down[c] = 1..k
          BY <2>0, <3>5, SeqFacts DEF Answered
        <5> QED BY <5>1
      <4>2. ~down[c][1].bin /\ down[c][1].id = task[t].id
        BY <3>5 DEF Answered
      <4> QED BY <3>1, <4>1, <4>2 DEF Ids
    <3> QED BY <3>1, <3>3, <3>4, <3>5 DEF Sent, AtServer
  <2>2. CASE Waiting2(t)
    <3>1. task[t].pc \in BodyPcs /\ ~Waiting(t)
      BY <2>2 DEF Waiting, Waiting2, BodyPcs
    <3>2. Phase(c, t)
      BY <2>0, <3>1 DEF OpenOk, Holding
    <3>3. Coming(c)
      BY <3>1, <3>2 DEF Phase, WaitPcs, BodyPcs
    <3>4. 1 \in DOMAIN down[c] /\ down[c][1].bin
      <4>1. Len(down[c]) = 1 /\ down[c][1].bin /\ DOMAIN down[c] = 1..Len(down[c])
        BY <2>0, <3>3 DEF Coming
      <4> QED BY <4>1
    <3> QED BY <3>1, <3>4
  <2> QED BY <2>1, <2>2
<1>4. FoldersReady
  BY DEF FoldersReady, LinkInd, AllFolders, FolderOk
<1> QED BY <1>1, <1>2, <1>3, <1>4 DEF LinkInv

\* Over every socket and whatever drops: the buffers of the relay are accounted for and within
\* their cap, a call that waits can still be answered, and a walk of ensure_root_folders() that
\* succeeded left every folder there.
THEOREM LinkHolds == LinkSpec => []LinkInv
<1>1. LinkInit => LinkInd
  BY LinkStarts
<1>2. LinkInd /\ [LinkNext]_linkVars => LinkInd'
  BY LinkKeeps
<1>3. LinkInd => LinkInv
  BY LinkMeans
<1> QED BY <1>1, <1>2, <1>3, PTL DEF LinkSpec
=============================================================================
