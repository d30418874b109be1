---------------------------- MODULE RelayLimits ----------------------------
(***************************************************************************)
(* The in-memory limits of the relay, byo-relay/src/rate_limit.rs, and the *)
(* gates of share_relay.rs that consult them: creation windows, the daily  *)
(* byte budget, the storage attributed to an address, the download budget  *)
(* and the download slots of a share, and the window on channel joins.     *)
(*                                                                         *)
(* Handlers run on many threads.  A step is one critical section of one    *)
(* tracker (or one atomic operation), so what a handler checked under one  *)
(* lock may be stale when it takes the next.  Instants are integers; a     *)
(* restart empties every map and drops every handler.                      *)
(***************************************************************************)
EXTENDS Integers, FiniteSets, Maps

CONSTANTS
    Addrs,              \* client addresses, [v |-> 4 or 6, hi, lo]
    ShareIds,
    Reqs,               \* requests, each sent once
    HourW, DayW,        \* lengths of the windows
    PerHour, PerDay,    \* share_create_per_hour_per_ip, share_create_per_day_per_ip
    MaxKeys,            \* max_keys of a keyed map
    DailyBytes,         \* share_daily_bytes_per_ip
    StorageCap,         \* share_total_storage_per_ip_bytes
    ShareBytes,         \* share_download_bytes_per_hour_per_share
    MaxConcurrent,      \* share_max_concurrent_downloads
    JoinW, JoinMax, EvictAbove,     \* ChannelJoinLimiter; 1024 buckets
    Sizes,              \* lengths of a body, in chunks of one unit
    MaxTime             \* bound on the clock

ASSUME LimitsAssumption ==
    /\ {HourW, DayW, PerHour, PerDay, MaxKeys, DailyBytes, StorageCap, ShareBytes,
        MaxConcurrent, JoinW, JoinMax, EvictAbove} \subseteq Nat \ {0}
    /\ Sizes \subseteq Nat \ {0} /\ MaxTime \in Nat /\ IsFiniteSet(Reqs)
    /\ Addrs \subseteq [v : {4, 6}, hi : Int, lo : Int]

\* IpBucket::from(): an IPv6 client is its /64 prefix.
IpBucketFull(ip) == <<ip.v, ip.hi, ip.lo>>
IpBucket(ip) == IF ip.v = 4 THEN <<4, ip.hi, ip.lo>> ELSE <<6, ip.hi>>
Buckets == {IpBucket(ip) : ip \in Addrs}

VARIABLES
    now,
    hour, day,          \* ShareCreationRateLimiter: bucket -> timestamps
    join,               \* ChannelJoinLimiter: bucket -> timestamps
    budget,             \* ByteBudgetTracker: bucket -> [day, bytes]
    totals, byShare,    \* ShareStoragePerIpTracker
    served,             \* ShareBytesPerShareTracker: share -> entries
    counter,            \* ShareConcurrencyTracker: share -> AtomicUsize
    rq,                 \* the handler of each request
    \* History, emptied by a restart like the maps.
    hourly, created,    \* tracked passes of the hour's check, and of the day's
    joined,             \* admitted joins, with the address they came from
    spent,              \* <<bucket, day>> -> bytes admitted by the budget
    straddled,          \* buckets with a body that streamed past midnight
    unmeasured,         \* buckets that raced on the cap or declared no length
    first               \* share -> size of the reservation that opened its entry

maps == <<hour, day, join, budget, totals, byShare, served, counter>>
uploadPast == <<spent, straddled, unmeasured>>
past == <<hourly, created, joined, uploadPast, first>>
limitVars == <<now, maps, rq, past>>

Ops == {"idle", "day", "stream", "stored", "attribute", "release", "slot", "backoff",
        "serving", "done"}
IdleReq == [op |-> "idle", b |-> <<>>, share |-> None,
            len |-> 0, sent |-> 0, day |-> 0]
\* Requests are interchangeable until they are sent.
Begin(r, op, b, s, n, d) ==
    /\ rq[r].op = "idle" /\ r = CHOOSE q \in Reqs : rq[q].op = "idle"
    /\ rq' = [rq EXCEPT ![r] = [op |-> op, b |-> b, share |-> s, len |-> n,
                                sent |-> 0, day |-> d]]
Goto(r, op) == rq' = [rq EXCEPT ![r].op = op]
Today == now \div DayW

\* The relay starts at some time of a day.
LimitsInit ==
    /\ now \in 0..(DayW - 1)
    /\ hour = EmptyMap /\ day = EmptyMap /\ join = EmptyMap /\ budget = EmptyMap
    /\ totals = EmptyMap /\ byShare = EmptyMap /\ served = EmptyMap
    /\ counter = EmptyMap
    /\ rq = [r \in Reqs |-> IdleReq]
    /\ hourly = {} /\ created = {} /\ joined = {} /\ spent = EmptyMap
    /\ straddled = {} /\ unmeasured = {} /\ first = EmptyMap
-----------------------------------------------------------------------------
(***************************************************************************)
(* The two sliding windows.  The Vec of a key is the set of its entries,   *)
(* each with the request that pushed it: they are filtered and counted,    *)
(* their order is never looked at.                                         *)
(***************************************************************************)
Stamp(r) == [by |-> r, at |-> now]
Retain(ts, w) == {e \in ts : e.at > now - w}
Recent(f, k, w) == Retain(Get(f, k, {}), w)

\* SlidingWindowLimiterByKey::check_and_record(): a full map lets a new key
\* through without recording it.
TrackedAlways(f, k) == TRUE
Tracked(f, k) == k \in DOMAIN f \/ Cardinality(DOMAIN f) < MaxKeys
KeyedAdmitsOneMore(f, k, w, max) == k \notin DOMAIN f \/ Cardinality(Retain(f[k], w)) <= max
KeyedAdmits(f, k, w, max) == k \notin DOMAIN f \/ Cardinality(Retain(f[k], w)) < max
KeyedRecord(f, k, r, w, max) ==
    IF ~Tracked(f, k) THEN f
    ELSE Put(f, k, Recent(f, k, w) \cup (IF KeyedAdmits(f, k, w, max) THEN {Stamp(r)} ELSE {}))

\* SlidingWindowLimiter::check_and_record(): past EvictAbove buckets an admitted
\* call drops the buckets whose list is empty.
JoinAdmits(b) == Cardinality(Recent(join, b, JoinW)) < JoinMax
JoinRecord(b, r) ==
    LET f == Put(join, b, Recent(join, b, JoinW) \cup (IF JoinAdmits(b) THEN {Stamp(r)} ELSE {}))
    IN  IF JoinAdmits(b) /\ Cardinality(DOMAIN f) > EvictAbove
          THEN Keep(f, {x \in DOMAIN f : f[x] # {}}) ELSE f

\* ChannelJoinLimiter in ws_handler().
JoinChannel(r, ip) ==
    LET b == IpBucket(ip) IN
    /\ Begin(r, "done", b, None, 0, 0)
    /\ join' = JoinRecord(b, r)
    /\ joined' = IF JoinAdmits(b) THEN joined \cup {[ip |-> ip, stamp |-> Stamp(r)]} ELSE joined
    /\ UNCHANGED <<now, hour, day, budget, totals, byShare, served, counter, hourly,
                   created, uploadPast, first>>

\* ShareCreationRateLimiter::check_and_record(): the hour, then the day, under two
\* locks.  A day that refuses does not give the tick of the hour back.
CreateHour(r, ip) ==
    LET b == IpBucket(ip) IN
    /\ Begin(r, IF KeyedAdmits(hour, b, HourW, PerHour) THEN "day" ELSE "done",
             b, None, 0, 0)
    /\ hour' = KeyedRecord(hour, b, r, HourW, PerHour)
    /\ hourly' = IF KeyedAdmits(hour, b, HourW, PerHour) /\ b \in DOMAIN hour'
                   THEN hourly \cup {[b |-> b, stamp |-> Stamp(r)]} ELSE hourly
    /\ UNCHANGED <<now, day, join, budget, totals, byShare, served, counter, created,
                   joined, uploadPast, first>>

CreateDay(r) ==
    LET b == rq[r].b IN
    /\ rq[r].op = "day"
    /\ day' = KeyedRecord(day, b, r, DayW, PerDay)
    /\ created' = IF KeyedAdmits(day, b, DayW, PerDay) /\ b \in DOMAIN day'
                    THEN created \cup {[b |-> b, stamp |-> Stamp(r)]} ELSE created
    /\ Goto(r, "done")
    /\ UNCHANGED <<now, hour, join, budget, totals, byShare, served, counter, hourly,
                   joined, uploadPast, first>>
-----------------------------------------------------------------------------
(***************************************************************************)
(* Uploads: the storage check, the budget chunk by chunk, the attribution. *)
(***************************************************************************)
Uploading(r) == rq[r].op \in {"stream", "stored", "attribute"}

\* Another upload or release of the bucket, or of the share, is under way.
Contended(b, s) ==
    \/ \E q \in Reqs : /\ Uploading(q) \/ rq[q].op = "release"
                       /\ rq[q].b = b \/ rq[q].share = s
    \/ s \in DOMAIN byShare /\ byShare[s].b # b

\* ShareStoragePerIpTracker::would_accept()
WouldAcceptEmpty(b, n) == n <= StorageCap
WouldAccept(b, n) == Get(totals, b, 0) + n <= StorageCap

\* upload_b2_share() and upload_bundle_blob(): a body without Content-Length
\* skips the check; the day of the budget is read here, before the first chunk.
BeginUpload(r, b, s, n, declared) ==
    /\ declared => WouldAccept(b, n)
    /\ Begin(r, "stream", b, s, n, Today)
    /\ unmeasured' = IF ~declared \/ Contended(b, s)
                       THEN unmeasured \cup {b} \cup {byShare[x].b : x \in {s} \cap DOMAIN byShare}
                              \cup {rq[q].b : q \in {q \in Reqs : rq[q].share = s}}
                       ELSE unmeasured
    /\ UNCHANGED <<now, maps, hourly, created, joined, spent, straddled, first>>

\* ByteBudgetTracker::try_consume() of one chunk, with the day of the request: an
\* entry of another day starts again from zero.
BudgetEntry(b, d) ==
    IF b \in DOMAIN budget /\ budget[b].day = d THEN budget[b] ELSE [day |-> d, bytes |-> 0]
BudgetFitsLate(b, d) == BudgetEntry(b, d).bytes <= DailyBytes
BudgetFits(b, d) == BudgetEntry(b, d).bytes + 1 <= DailyBytes

\* The prune of a full map, then the entry of this bucket.
BudgetAfter(b, d) ==
    LET kept == IF Cardinality(DOMAIN budget) >= MaxKeys
                  THEN Keep(budget, {x \in DOMAIN budget : budget[x].day >= d - 1})
                  ELSE budget
        e    == BudgetEntry(b, d)
    IN  Put(kept, b, IF BudgetFits(b, d) THEN [e EXCEPT !.bytes = @ + 1] ELSE e)

\* One chunk of stream_body_to_file_capped(); a refusal ends the upload.
StreamChunk(r) ==
    LET b == rq[r].b
        d == rq[r].day
        fits == BudgetFits(b, d) IN
    /\ rq[r].op = "stream" /\ rq[r].sent < rq[r].len
    /\ budget' = BudgetAfter(b, d)
    /\ spent' = IF fits THEN Put(spent, <<b, d>>, Get(spent, <<b, d>>, 0) + 1) ELSE spent
    /\ rq' = IF fits THEN [rq EXCEPT ![r].sent = @ + 1] ELSE [rq EXCEPT ![r].op = "done"]
    /\ straddled' = IF d # Today THEN straddled \cup {b} ELSE straddled
    /\ UNCHANGED <<now, hour, day, join, totals, byShare, served, counter, hourly,
                   created, joined, unmeasured, first>>

\* The body is renamed, recorded and sealed, or the upload fails or is dropped.
StoreUpload(r, ok) ==
    /\ rq[r].op = "stream"
    /\ ok => rq[r].sent = rq[r].len
    /\ Goto(r, IF ok THEN "stored" ELSE "done")
    /\ UNCHANGED <<now, maps, past>>

\* register(), first lock: a later blob of the share is credited to the bucket
\* of the first one.
RegisterShare(r) ==
    LET s == rq[r].share
        e == Get(byShare, s, [b |-> rq[r].b, n |-> 0]) IN
    /\ rq[r].op = "stored"
    /\ byShare' = Put(byShare, s, [e EXCEPT !.n = @ + rq[r].len])
    /\ rq' = [rq EXCEPT ![r].op = "attribute", ![r].b = e.b]
    /\ UNCHANGED <<now, hour, day, join, budget, totals, served, counter, past>>

\* register(), second lock.
RegisterTotal(r) ==
    /\ rq[r].op = "attribute"
    /\ totals' = Put(totals, rq[r].b, Get(totals, rq[r].b, 0) + rq[r].len)
    /\ Goto(r, "done")
    /\ UNCHANGED <<now, hour, day, join, budget, byShare, served, counter, past>>

\* release(), first lock; called by revoke_b2_share() and by the sweeper.
ReleaseShare(r, s) ==
    /\ s \in DOMAIN byShare
    /\ Begin(r, "release", byShare[s].b, s, byShare[s].n, 0)
    /\ byShare' = Drop(byShare, s)
    /\ unmeasured' = IF Contended(byShare[s].b, s) THEN unmeasured \cup {byShare[s].b}
                     ELSE unmeasured
    /\ UNCHANGED <<now, hour, day, join, budget, totals, served, counter, hourly, created,
                   joined, spent, straddled, first>>

\* release(), second lock: saturating, and an emptied bucket leaves the map.
LeftWrong(b, n) == 0
Left(b, n) == SatSub(Get(totals, b, 0), n)
ReleaseTotal(r) ==
    LET b == rq[r].b
        left == Left(b, rq[r].len) IN
    /\ rq[r].op = "release"
    /\ totals' = IF left = 0 THEN Drop(totals, b) ELSE Put(totals, b, left)
    /\ Goto(r, "done")
    /\ UNCHANGED <<now, hour, day, join, budget, byShare, served, counter, past>>
-----------------------------------------------------------------------------
(***************************************************************************)
(* Downloads: the byte budget of the share, then a slot.                   *)
(***************************************************************************)
FreshBytes(s) == Retain(Get(served, s, {}), HourW)
\* The sum over the entries: a byte is named by its entry and its number.
BytesOf(es) == Cardinality(UNION {{e} \X (1..e.n) : e \in es})

\* ShareBytesPerShareTracker::try_consume(): the reservation that opens an entry
\* is not compared with the budget.
BytesFitAlone(s, n) == n <= ShareBytes
BytesFit(s, n) == s \notin DOMAIN served \/ BytesOf(FreshBytes(s)) + n <= ShareBytes
ReserveBytes(s, r, n) ==
    IF s \notin DOMAIN served /\ Cardinality(DOMAIN served) >= MaxKeys THEN served
    ELSE Put(served, s, FreshBytes(s) \cup
                            (IF BytesFit(s, n) THEN {[by |-> r, at |-> now, n |-> n]} ELSE {}))

\* get_b2_share() and get_share_blob(), first gate.
BeginDownload(r, s, n) ==
    /\ Begin(r, IF BytesFit(s, n) THEN "slot" ELSE "done", <<>>, s, n, 0)
    /\ served' = ReserveBytes(s, r, n)
    /\ first' = IF s \notin DOMAIN served /\ s \in DOMAIN served' THEN Put(first, s, n) ELSE first
    /\ UNCHANGED <<now, hour, day, join, budget, totals, byShare, counter, hourly, created,
                   joined, uploadPast>>

\* try_acquire(): fetch_add, and the previous value decides.  No bytes are given
\* back to the budget when there is no slot.
SlotFreeOneMore(prev) == prev <= MaxConcurrent
SlotFree(prev) == prev < MaxConcurrent
AcquireSlot(r) ==
    LET s == rq[r].share
        prev == Get(counter, s, 0) IN
    /\ rq[r].op = "slot"
    /\ counter' = Put(counter, s, prev + 1)
    /\ Goto(r, IF SlotFree(prev) THEN "serving" ELSE "backoff")
    /\ UNCHANGED <<now, hour, day, join, budget, totals, byShare, served, past>>

\* fetch_sub of a refused request.
BackOff(r) ==
    /\ rq[r].op = "backoff"
    /\ counter' = [counter EXCEPT ![rq[r].share] = @ - 1]
    /\ Goto(r, "done")
    /\ UNCHANGED <<now, hour, day, join, budget, totals, byShare, served, past>>

\* The body ends or the connection dies: throttle_stream() and carry_guard() drop
\* the guard.
DropGuard(r) ==
    /\ rq[r].op = "serving"
    /\ counter' = [counter EXCEPT ![rq[r].share] = @ - 1]
    /\ Goto(r, "done")
    /\ UNCHANGED <<now, hour, day, join, budget, totals, byShare, served, past>>

LimitsTick ==
    /\ now < MaxTime
    /\ now' = now + 1
    /\ UNCHANGED <<maps, rq, past>>

\* main(): every tracker is new, and the handlers are gone.
LimitsRestart ==
    /\ hour' = EmptyMap /\ day' = EmptyMap /\ join' = EmptyMap /\ budget' = EmptyMap
    /\ totals' = EmptyMap /\ byShare' = EmptyMap /\ served' = EmptyMap
    /\ counter' = EmptyMap
    /\ rq' = [r \in Reqs |-> IF rq[r].op = "idle" THEN rq[r] ELSE [IdleReq EXCEPT !.op = "done"]]
    /\ hourly' = {} /\ created' = {} /\ joined' = {} /\ spent' = EmptyMap
    /\ straddled' = {} /\ unmeasured' = {} /\ first' = EmptyMap
    /\ UNCHANGED now

WindowNext ==
    \/ \E r \in Reqs, ip \in Addrs : JoinChannel(r, ip) \/ CreateHour(r, ip)
    \/ \E r \in Reqs : CreateDay(r)
UploadNext ==
    \/ \E r \in Reqs, b \in Buckets, s \in ShareIds, n \in Sizes, declared \in BOOLEAN :
         BeginUpload(r, b, s, n, declared)
    \/ \E r \in Reqs : StreamChunk(r) \/ RegisterShare(r) \/ RegisterTotal(r) \/ ReleaseTotal(r)
    \/ \E r \in Reqs, ok \in BOOLEAN : StoreUpload(r, ok)
    \/ \E r \in Reqs, s \in ShareIds : ReleaseShare(r, s)
DownloadNext ==
    \/ \E r \in Reqs, s \in ShareIds, n \in Sizes : BeginDownload(r, s, n)
    \/ \E r \in Reqs : AcquireSlot(r) \/ BackOff(r) \/ DropGuard(r)
LimitsNext == WindowNext \/ UploadNext \/ DownloadNext \/ LimitsTick \/ LimitsRestart
LimitsSpec == LimitsInit /\ [][LimitsNext]_limitVars
-----------------------------------------------------------------------------
(***************************************************************************)
(* Properties.                                                             *)
(***************************************************************************)
\* The window of length w that ends at t.
InWindow(e, t, w) == t - w < e.stamp.at /\ e.stamp.at <= t

\* Neither window of the creation limiter lets more requests of one tracked bucket
\* through than its cap, whichever way the two locks of concurrent requests
\* interleave: at most PerHour pass the check of an hour, at most PerDay are admitted
\* in a day (ShareCreationRateLimiter::check_and_record).
CreationWindows ==
    \A b \in Buckets, t \in 0..now :
      /\ Cardinality({e \in hourly : e.b = b /\ InWindow(e, t, HourW)}) <= PerHour
      /\ Cardinality({e \in created : e.b = b /\ InWindow(e, t, DayW)}) <= PerDay

\* In one window no IPv6 /64 and no IPv4 address joins more than JoinMax channels,
\* by whatever addresses of the prefix it came (ChannelJoinLimiter, IpBucket).
SameClient(a, b) == a.v = b.v /\ a.hi = b.hi /\ (a.v = 4 => a.lo = b.lo)
JoinWindows ==
    \A ip \in Addrs, t \in 0..now :
      Cardinality({e \in joined : SameClient(e.ip, ip) /\ InWindow(e, t, JoinW)}) <= JoinMax

\* A bucket without a body that streamed past midnight never uploads more than the
\* daily budget under one day (ByteBudgetTracker::try_consume).
BudgetHeld ==
    \A k \in DOMAIN spent : k[1] \notin straddled => spent[k] <= DailyBytes

\* Bytes of the requests of a bucket that are at one step, and of its shares.  A
\* byte is named by its request or share and its number, so counting them adds up
\* the lengths.
PendingBytes(b, op) ==
    UNION {{r} \X (1..rq[r].len) : r \in {q \in Reqs : rq[q].op = op /\ rq[q].b = b}}
Pending(b, op) == Cardinality(PendingBytes(b, op))
AttributedBytes(b) ==
    UNION {{s} \X (1..byShare[s].n) : s \in {x \in DOMAIN byShare : byShare[x].b = b}}
Attributed(b) == Cardinality(AttributedBytes(b))

\* The total of a bucket covers everything attributed to its shares, counting the
\* second half of the register() and release() calls under way: a race of the two
\* locks may leave bytes behind, it never forgets any.
NeverUndercounts ==
    \A b \in Buckets :
      Get(totals, b, 0) + Pending(b, "attribute") >= Attributed(b)

\* A bucket that declared every length and never had two requests under way at
\* once stays within its storage cap (would_accept, then register).
StorageCapHeld ==
    \A b \in DOMAIN totals : b \notin unmeasured => totals[b] <= StorageCap

\* A share serves no more than its hourly budget, or the one oversized reservation
\* that opened its entry (ShareBytesPerShareTracker::try_consume).
HourlyBytesHeld ==
    \A s \in DOMAIN served : BytesOf(FreshBytes(s)) <= ShareBytes \/ BytesOf(FreshBytes(s)) <= first[s]

In(s, op) == Cardinality({r \in Reqs : rq[r].op = op /\ rq[r].share = s})

\* A share never has more than MaxConcurrent bodies on the wire, and its counter
\* is exactly those plus the refusals about to be taken back: no early return, no
\* dropped connection and no race of fetch_add with fetch_sub leaks a slot.
SlotsExact ==
    \A s \in ShareIds :
      /\ In(s, "serving") <= MaxConcurrent
      /\ Get(counter, s, 0) = In(s, "serving") + In(s, "backoff")

\* The shape of the maps and of the handlers.
LimitsTypeOK ==
    /\ now \in Nat
    /\ \A f \in {hour, day, join} : \A b \in DOMAIN f : f[b] \subseteq [by : Reqs, at : 0..now]
    /\ \A b \in DOMAIN budget : budget[b] \in [day : Nat, bytes : 0..DailyBytes]
    /\ \A b \in DOMAIN totals : totals[b] \in Nat \ {0}
    /\ \A s \in DOMAIN byShare : s \in ShareIds /\ byShare[s].n \in Nat \ {0}
    /\ \A s \in DOMAIN counter : s \in ShareIds /\ counter[s] \in Nat
    /\ \A r \in Reqs : rq[r].op \in Ops /\ rq[r].share \in ShareIds \cup {None}
    /\ Cardinality(DOMAIN hour) <= MaxKeys /\ Cardinality(DOMAIN served) <= MaxKeys

\* What uploads may use, whichever requests are between their check and their record or
\* between the two locks of a register or a release: the daily budget, every stored byte
\* accounted for, and the storage cap (ByteBudgetTracker, ShareStoragePerIpTracker).
UploadsInv == BudgetHeld /\ NeverUndercounts /\ StorageCapHeld

\* What the sliding windows of rate_limit.rs promise together, whatever requests are between
\* their check and their record: creations, joins, served bytes and the tables' sizes.
LimitsInv == LimitsTypeOK /\ CreationWindows /\ JoinWindows /\ HourlyBytesHeld
=============================================================================
