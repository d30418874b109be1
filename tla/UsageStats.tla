----------------------------- MODULE UsageStats -----------------------------
(***************************************************************************)
(* Usage statistics: a tab queues events in a ring buffer and posts them   *)
(* in batches, best effort; the relay adds what it accepts of a batch to   *)
(* its counters, in one transaction.                                       *)
(*                                                                         *)
(* An event is its kind, provider, error class, bytes, size bucket and     *)
(* time; times are days, and a day is one bucket.  The per-device limiter  *)
(* is one of those of RelayLimits; here a request may simply be refused.   *)
(***************************************************************************)
EXTENDS Maps, Integers, FiniteSets, FiniteSetsExt, Sequences, SequencesExt

CONSTANTS
    StTabs,         \* tabs that run the client
    StDevices,      \* device UUIDs: tabs of one browser share one
    Shapes,         \* events a page may record, without their time
    SinkCap,        \* SINK_CAP
    FlushMax,       \* events of one flush
    StatsMaxBytes,  \* MAX_BYTES
    TsPast,         \* TS_MAX_PAST_SECS, in days
    StClocks,       \* how far the clock of a tab may be off, in days
    CalStarts,      \* days since the epoch at which a behaviour may start
    MaxRec,         \* bound: events of a behaviour
    StDays          \* bound: days of a behaviour

ASSUME StatsAssumption ==
    {SinkCap, FlushMax} \subseteq Nat \ {0} /\ StatsMaxBytes \in Nat /\ CalStarts \subseteq Nat

VARIABLES
    stTab,      \* the tabs: device, clock error, queue and flush under way
    stNet,      \* batches posted and not yet received
    stDb,       \* the relay's three tables
    stDay,      \* the relay's day
    stFrom,     \* the day the behaviour started
    stRec       \* history: what each tab has recorded

statsVars == <<stTab, stNet, stDb, stDay, stFrom, stRec>>
-----------------------------------------------------------------------------
(* calendar_date(): days since the epoch to year, month and day.           *)
MonthOf(mp) == IF mp < 10 THEN mp + 3 ELSE mp - 9
CalendarDateMarch(days) ==
    LET z == days + 719468
        era == z \div 146097
        doe == z - era * 146097
        yoe == (doe - doe \div 1460 + doe \div 36524 - doe \div 146096) \div 365
        doy == doe - (365 * yoe + yoe \div 4 - yoe \div 100)
        mp == (5 * doy + 2) \div 153
    IN  [y |-> yoe + era * 400, m |-> MonthOf(mp), d |-> doy - (153 * mp + 2) \div 5 + 1]
CalendarDate(days) ==
    LET z == days + 719468
        era == z \div 146097
        doe == z - era * 146097
        yoe == (doe - doe \div 1460 + doe \div 36524 - doe \div 146096) \div 365
        doy == doe - (365 * yoe + yoe \div 4 - yoe \div 100)
        mp == (5 * doy + 2) \div 153
        m == MonthOf(mp)
    IN  [y |-> yoe + era * 400 + (IF m <= 2 THEN 1 ELSE 0), m |-> m,
         d |-> doy - (153 * mp + 2) \div 5 + 1]
-----------------------------------------------------------------------------
(* The client.                                                             *)
WireKinds == {"vault_save", "upload", "error", "share_create", "share_os_outbound",
              "relay_bandwidth_share", "device_size_snapshot"}
ErrorClasses == {"Network", "Other"}

\* serde_json::from_str::<StatsEvent>(): a kind or an error class the client does not know.
ParsesEvent(s) == s.kind \in WireKinds /\ (s.kind = "error" => s.cls \in ErrorClasses)

\* InMemoryStatsSink::record(): at capacity the oldest event goes.
PushedDropsNew(q, e) == IF Len(q) >= SinkCap THEN q ELSE Append(q, e)
PushedUnbounded(q, e) == Append(q, e)
Pushed(q, e) == Append(IF Len(q) >= SinkCap THEN Tail(q) ELSE q, e)

\* InMemoryStatsSink::drain(): the batch, and what is left.
Batch(q) == SubSeq(q, 1, IF Len(q) < FlushMax THEN Len(q) ELSE FlushMax)
DrainedKept(q) == q
Drained(q) == SubSeq(q, Len(Batch(q)) + 1, Len(q))

SetTab(t, r) == stTab' = [stTab EXCEPT ![t] = r]
Recorded == FoldFunction(+, 0, [t \in StTabs |-> Len(stRec[t])])

\* recordEvent() and statsRecord()
StRecord(t, s) ==
    LET e == s @@ [ts |-> stDay + stTab[t].off, dev |-> stTab[t].dev]
    IN  /\ Recorded < MaxRec
        /\ stRec' = [stRec EXCEPT ![t] = Append(@, e)]
        /\ SetTab(t, [stTab[t] EXCEPT !.q = IF ParsesEvent(s) THEN Pushed(@, e) ELSE @])
        /\ UNCHANGED <<stNet, stDb, stDay, stFrom>>

\* doFlush(): the timer, a hidden tab or a long queue; one at a time; first the cookie.
StFlush(t) ==
    /\ stTab[t].flush = "no" /\ SetTab(t, [stTab[t] EXCEPT !.flush = "cookie"])
    /\ UNCHANGED <<stNet, stDb, stDay, stFrom, stRec>>
\* statsFlush(): the events leave the queue before the POST.
StPost(t) ==
    LET b == Batch(stTab[t].q)
    IN  /\ stTab[t].flush = "cookie"
        /\ SetTab(t, [stTab[t] EXCEPT !.q = Drained(@), !.flush = IF b = <<>> THEN "no" ELSE "post"])
        /\ stNet' = IF b = <<>> THEN stNet ELSE Append(stNet, [dev |-> stTab[t].dev, events |-> b])
        /\ UNCHANGED <<stDb, stDay, stFrom, stRec>>
\* No cookie; or the POST is over, whatever flush_batch() made of the answer.
StFlushEnds(t) ==
    /\ stTab[t].flush # "no" /\ SetTab(t, [stTab[t] EXCEPT !.flush = "no"])
    /\ UNCHANGED <<stNet, stDb, stDay, stFrom, stRec>>

\* The tab is closed, and opened again.
StClose(t) ==
    /\ stTab[t].q # <<>> \/ stTab[t].flush # "no"
    /\ SetTab(t, [stTab[t] EXCEPT !.q = <<>>, !.flush = "no"])
    /\ UNCHANGED <<stNet, stDb, stDay, stFrom, stRec>>
-----------------------------------------------------------------------------
(* The relay.                                                              *)
NoRows == [count |-> EmptyMap, seen |-> EmptyMap, size |-> EmptyMap]
KnownProviders == {"gdrive", "s3"}
ProviderKinds == {"upload", "error", "device_size_snapshot"}

\* The tests of the loop of apply_batch() that make it skip an event.
Accepted(e) ==
    /\ e.ts >= stDay - TsPast /\ e.ts <= stDay
    /\ e.kind \in ProviderKinds => e.prov \in KnownProviders
    /\ e.kind \in {"upload", "relay_bandwidth_share"} => e.bytes <= StatsMaxBytes

CounterKey(e) == <<e.ts, e.kind, IF e.kind \in ProviderKinds THEN e.prov ELSE "", e.cls>>
Upsert(e) == [into |-> "count", key |-> CounterKey(e), v |-> e.bytes]

\* The statements an accepted event runs; the share-sheet kinds are known and not counted.
Statements(e) ==
    CASE e.kind = "device_size_snapshot" ->
            <<[into |-> "size", key |-> <<e.ts, e.dev, e.prov>>, v |-> e.bytes]>>
      [] e.kind \in {"upload", "error"} ->
            <<Upsert(e), [into |-> "seen", key |-> <<e.ts, e.dev, e.prov>>, v |-> 0]>>
      [] e.kind = "share_os_outbound" -> <<>>
      [] OTHER -> <<Upsert(e)>>

\* upsert_counter()
CountedDay(old, v) == IF old = None THEN [n |-> 1, bytes |-> v] ELSE [n |-> old.n + 1, bytes |-> old.bytes + v]
Execute(db, s) ==
    CASE s.into = "count" -> [db EXCEPT !.count = Put(@, s.key, CountedDay(Get(@, s.key, None), s.v))]
      [] s.into = "seen"  -> [db EXCEPT !.seen = Put(@, s.key, 1)]
      [] OTHER            -> [db EXCEPT !.size = Put(@, s.key, s.v)]

\* The transaction of apply_batch(): all of it, or nothing.
CommitPartly(db, after, ok) == after
Commit(db, after, ok) == IF ok THEN after ELSE db

Received(k) == stNet' = RemoveAt(stNet, k)

\* ingest_stats(): of the batch's statements n are run, and the transaction commits or not.
StIngest(k, n, ok) ==
    LET todo == FlattenSeq([j \in 1..Len(stNet[k].events) |->
                    IF Accepted(stNet[k].events[j]) THEN Statements(stNet[k].events[j]) ELSE <<>>])
    IN  /\ n <= Len(todo) /\ (ok => n = Len(todo))
        /\ stDb' = Commit(stDb, FoldLeft(Execute, stDb, SubSeq(todo, 1, n)), ok)
        /\ Received(k) /\ UNCHANGED <<stTab, stDay, stFrom, stRec>>
\* Lost on the way, or refused: the cookie, the size, the device_id or the limiter.
StRefuse(k) == Received(k) /\ UNCHANGED <<stTab, stDb, stDay, stFrom, stRec>>

\* clear_all()
StClear == stDb # NoRows /\ stDb' = NoRows /\ UNCHANGED <<stTab, stNet, stDay, stFrom, stRec>>

StTick == stDay < stFrom + StDays /\ stDay' = stDay + 1 /\ UNCHANGED <<stTab, stNet, stDb, stFrom, stRec>>

StatsInit ==
    /\ stTab \in [StTabs -> [dev : StDevices, off : StClocks, q : {<<>>}, flush : {"no"}]]
    /\ stNet = <<>> /\ stDb = NoRows /\ stDay \in CalStarts /\ stFrom = stDay
    /\ stRec = [t \in StTabs |-> <<>>]

StatsNext ==
    \/ \E t \in StTabs : StFlush(t) \/ StPost(t) \/ StFlushEnds(t) \/ StClose(t)
    \/ \E t \in StTabs, s \in Shapes : StRecord(t, s)
    \/ \E k \in 1..Len(stNet) : StRefuse(k)
    \/ \E k \in 1..Len(stNet), n \in 0..(2 * FlushMax), ok \in BOOLEAN : StIngest(k, n, ok)
    \/ StClear \/ StTick

StatsSpec == StatsInit /\ [][StatsNext]_statsVars
-----------------------------------------------------------------------------
\* The queues and batches stay within SINK_CAP and the size of a flush.
StTypeOK ==
    /\ \A t \in StTabs : stTab[t].flush \in {"no", "cookie", "post"} /\ Len(stTab[t].q) <= SinkCap
    /\ \A k \in 1..Len(stNet) : Len(stNet[k].events) \in 1..FlushMax
    /\ DOMAIN stDb = {"count", "seen", "size"}

AllRecorded == {<<t, k>> : t \in StTabs, k \in 1..MaxRec} \cap
               UNION {{<<t, k>> : k \in 1..Len(stRec[t])} : t \in StTabs}
RecordedAs(key) == {x \in AllRecorded : CounterKey(stRec[x[1]][x[2]]) = key}

\* No event is counted twice: whatever is lost, refused, rolled back or answered late, a
\* counter never exceeds the events recorded for it, in number or in bytes (statsFlush()
\* drains before it posts and never puts a batch back).
CountedOnce ==
    \A key \in DOMAIN stDb.count :
        /\ stDb.count[key].n <= Cardinality(RecordedAs(key))
        /\ stDb.count[key].bytes <= MapThenSumSet(LAMBDA x : stRec[x[1]][x[2]].bytes, RecordedAs(key))

\* The provider mix agrees with the counters: a day's transfers or errors of a provider have a
\* device behind them, and the mix of a day counts each device that was there once
\* (apply_batch() writes both tables in one transaction).
MixAgrees ==
    /\ \A key \in DOMAIN stDb.count :
          key[2] \in {"upload", "error"} => \E d \in StDevices : <<key[1], d, key[3]>> \in DOMAIN stDb.seen
    /\ \A key \in DOMAIN stDb.seen :
          /\ \E c \in DOMAIN stDb.count : c[1] = key[1] /\ c[3] = key[3]
          /\ \E x \in AllRecorded : LET e == stRec[x[1]][x[2]]
                                    IN  e.ts = key[1] /\ e.dev = key[2] /\ e.prov = key[3]

ParsedOf(t) == SelectSeq(stRec[t], ParsesEvent)

\* What a full queue loses is the oldest: the queue is always the end of what the tab has
\* recorded, in order (InMemoryStatsSink).
QueueNewest == \A t \in StTabs : IsSuffix(stTab[t].q, ParsedOf(t))

Leap(y) == y % 4 = 0 /\ (y % 100 # 0 \/ y % 400 = 0)
MonthLen(y, m) ==
    CASE m = 2 -> (IF Leap(y) THEN 29 ELSE 28) [] m \in {4, 6, 9, 11} -> 30 [] OTHER -> 31
DayAfter(c) ==
    IF c.d < MonthLen(c.y, c.m) THEN [c EXCEPT !.d = @ + 1]
    ELSE IF c.m < 12 THEN [y |-> c.y, m |-> c.m + 1, d |-> 1] ELSE [y |-> c.y + 1, m |-> 1, d |-> 1]

\* The date of the day after is the day after in the Gregorian calendar, from the epoch on
\* and across the ends of months, leap years and centuries (calendar_date's arithmetic).
CalendarAdvances ==
    /\ CalendarDate(0) = [y |-> 1970, m |-> 1, d |-> 1]
    /\ CalendarDate(stDay + 1) = DayAfter(CalendarDate(stDay))

\* What the statistics promise from the recorder to stats.rs: no event is counted twice, the
\* tables of a day agree, a full queue keeps the newest events, and the date is the date.
StatsInv == StTypeOK /\ CountedOnce /\ MixAgrees /\ QueueNewest /\ CalendarAdvances
=============================================================================
