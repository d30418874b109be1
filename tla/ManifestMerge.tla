---------------------------- MODULE ManifestMerge ----------------------------
(***************************************************************************)
(* The replicated manifest: every provider of a vault holds a copy of the  *)
(* list of providers.  A device that unlocks merges the copies it can      *)
(* reach, edits the result under its own clock, and writes it back over    *)
(* whatever is there.  Beside it, the merge of the rows of a vault body.   *)
(***************************************************************************)
EXTENDS Maps, Integers, TLC, Sequences, SequencesExt, FiniteSets, FiniteSetsExt

CONSTANTS
    MDevices,       \* devices, the naturals 1..n
    MProviders,     \* provider_ids, as naturals: they are compared as strings
    MFirst,         \* the providers of the vault at the start
    MaxSkew,        \* MAX_CLOCK_SKEW_SECS
    Offsets,        \* how far the clock of a device may be off
    MaxClock,       \* bound: seconds of a behaviour
    MaxEdits,       \* bound: edits of a behaviour
    MaxUnlocks      \* bound: unlocks of a behaviour

ASSUME ManifestAssumption ==
    /\ MDevices \subseteq Nat /\ MProviders \subseteq Nat /\ IsFiniteSet(MProviders)
    /\ MFirst \subseteq MProviders /\ MFirst # {}
    /\ MaxSkew \in Nat /\ Offsets \subseteq Int /\ IsFiniteSet(Offsets)
    /\ None # "entry"

VARIABLES
    stored,     \* vault_manifest.sc on each provider
    local,      \* _manifest of each device, None while locked
    lastSeen,   \* last_seen_manifest_version in IndexedDB
    mclock,     \* the time
    offset,     \* the error of each device's clock
    medits,     \* edits made so far
    munlocks,   \* unlocks so far
    refused,    \* an unlock was refused because of an entry, not of the version
    unsaved,    \* devices with an edit not yet uploaded
    primaryId,  \* _primaryProviderId of each device
    early       \* history: an edit was stamped no later than one before it

maniVars == <<stored, local, lastSeen, mclock, offset, medits, munlocks, refused, unsaved,
              primaryId, early>>
-----------------------------------------------------------------------------
(* A manifest is its version and its entries by provider_id: ids are fresh *)
(* random strings, so manifest_add_provider() never meets a tombstone of   *)
(* the same id.                                                            *)
Entry(name, primary, t) ==
    [name |-> name, primary |-> primary, created |-> t, updated |-> t, tomb |-> FALSE]

Active(es) == {p \in DOMAIN es : ~es[p].tomb}
Primaries(es) == {p \in Active(es) : es[p].primary}
PrimaryOf(es) == CHOOSE p \in Primaries(es) : TRUE

\* entry_is_better(): a later entry, and at the same second a tombstone.
EntryIsBetterLate(c, w) == c.updated > w.updated
EntryIsBetter(c, w) == c.updated > w.updated \/ (c.updated = w.updated /\ c.tomb /\ ~w.tomb)

\* The loop over all entries: the first one seen stays unless a later one is better.
Joined(es, m) ==
    [p \in DOMAIN es \cup DOMAIN m |->
        IF p \notin DOMAIN es THEN m[p]
        ELSE IF p \in DOMAIN m /\ EntryIsBetter(m[p], es[p]) THEN m[p]
        ELSE es[p]]
UnionAt(ms) == LET at[k \in 0..Len(ms)] == IF k = 0 THEN EmptyMap ELSE Joined(at[k - 1], ms[k].es)
               IN  at
Union(ms) == UnionAt(ms)[Len(ms)]

\* enforce_primary_uniqueness(): of several claims the latest, of none the oldest entry.
EnforcePrimaryNot(es) == es
EnforcePrimary(es) ==
    LET claims == Primaries(es)
        later(p, q) == es[p].updated > es[q].updated \/ (es[p].updated = es[q].updated /\ p > q)
        older(p, q) == es[p].created < es[q].created \/ (es[p].created = es[q].created /\ p < q)
        winner == IF claims # {} THEN CHOOSE p \in claims : \A q \in claims \ {p} : later(p, q)
                  ELSE CHOOSE p \in Active(es) : \A q \in Active(es) \ {p} : older(p, q)
    IN  IF Cardinality(claims) = 1 \/ Active(es) = {} THEN es
        ELSE [p \in DOMAIN es |-> IF p \in claims \cup {winner}
                                  THEN [es[p] EXCEPT !.primary = (p = winner)] ELSE es[p]]

\* The skew test of merge_manifests() and validate_manifest().
TooNewNoSkew(es, now) == \E p \in DOMAIN es : es[p].updated > now
TooNew(es, now) == \E p \in DOMAIN es : es[p].updated > now + MaxSkew

\* validate_manifest()
Valid(m, now) ==
    /\ ~TooNew(m.es, now)
    /\ \A p \in DOMAIN m.es : ~(m.es[p].tomb /\ m.es[p].primary)
    /\ Active(m.es) = {} \/ Cardinality(Primaries(m.es)) = 1

MaxVersion(ms) == Max({ms[k].version : k \in 1..Len(ms)})

\* merge_manifests(): the manifest, or why there is none.
MergeManifests(ms, now, floor) ==
    LET merged == [version |-> MaxVersion(ms) + 1, es |-> EnforcePrimary(Union(ms))]
    IN  IF \E k \in 1..Len(ms) : TooNew(ms[k].es, now) THEN [err |-> "entry", m |-> None]
        ELSE IF floor > 0 /\ merged.version < floor THEN [err |-> "rollback", m |-> None]
        ELSE IF ~Valid(merged, now) THEN [err |-> "entry", m |-> None]
        ELSE [err |-> None, m |-> merged]
-----------------------------------------------------------------------------
(* The edits.  Each works on a copy and is given the device's time.        *)
TouchNot(m, p, now) == m
Touch(m, p, now) == [m EXCEPT !.es[p].updated = now]

\* manifest_rename_provider(), manifest_update_provider_config()
Renamed(m, p, name, now) == [Touch(m, p, now) EXCEPT !.es[p].name = name]

\* manifest_set_primary_provider(): only the new primary's entry is touched.
SetPrimary(m, p, now) ==
    [m EXCEPT !.es = [q \in DOMAIN m.es |->
        IF q = p THEN [m.es[q] EXCEPT !.primary = TRUE, !.updated = now]
        ELSE [m.es[q] EXCEPT !.primary = FALSE]]]

\* manifest_tombstone_provider() refuses the primary.
MayTombstoneAny(m, p) == TRUE
MayTombstone(m, p) == ~m.es[p].primary
Tombstoned(m, p, now) ==
    [m EXCEPT !.es[p] = [@ EXCEPT !.tomb = TRUE, !.primary = FALSE, !.updated = now]]

\* manifest_add_provider()
Added(m, p, name, now) == [m EXCEPT !.es = Put(@, p, Entry(name, FALSE, now))]
-----------------------------------------------------------------------------
Copies == {stored[p] : p \in MProviders} \ {None}
Locals == {local[d] : d \in MDevices} \ {None}
Now(d) == mclock + offset[d]
FirstEntry(p) == [Entry(0, p = Min(MFirst), 0) EXCEPT !.created = 0]

MInit ==
    /\ stored = [p \in MProviders |-> IF p \in MFirst
                    THEN [version |-> 1, es |-> [q \in MFirst |-> FirstEntry(q)]] ELSE None]
    /\ local = [d \in MDevices |-> None] /\ lastSeen = [d \in MDevices |-> 0]
    /\ mclock = Max(Offsets \cup {0}) + 1 /\ offset \in [MDevices -> Offsets] /\ \E d \in MDevices : offset[d] = 0
    /\ medits = 0 /\ munlocks = 0 /\ refused = FALSE /\ unsaved = {} /\ early = FALSE
    /\ primaryId = [d \in MDevices |-> None]

\* Orders in which the copies of a set of providers may arrive.
Arrivals(S) == {s \in [1..Cardinality(S) -> S] : \A a, b \in DOMAIN s : s[a] = s[b] => a = b}

\* unlockVault(), step 6: the copy of the provider it was opened with first, then those of
\* the other active providers it could reach, in the order of their answers.  A device that
\* was unlocked has been locked or reloaded, without its unsaved edits.  _primaryProviderId
\* is the primary of that first copy, also when the merge has another.  Of a merge that
\* leaves no provider active no body is loaded, and loadKeyVersionsIntoWorker() throws.
MUnlock(d, p, rest) ==
    LET ms == <<stored[p]>> \o [k \in 1..Len(rest) |-> stored[rest[k]]]
        r == MergeManifests(ms, Now(d), lastSeen[d])
        m == IF Len(ms) = 1 THEN stored[p] ELSE r.m
    IN  /\ munlocks < MaxUnlocks /\ munlocks' = munlocks + 1
        /\ unsaved' = unsaved \ {d}
        /\ \A k \in 1..Len(rest) : /\ rest[k] \in Active(stored[p].es) \ Primaries(stored[p].es)
                                   /\ stored[rest[k]] # None
        /\ IF m # None /\ Active(m.es) # {}
           THEN /\ local' = [local EXCEPT ![d] = m]
                /\ lastSeen' = [lastSeen EXCEPT ![d] = Max({@, m.version})]
                /\ primaryId' = [primaryId EXCEPT ![d] = PrimaryOf(stored[p].es)]
                /\ UNCHANGED refused
           ELSE /\ refused' = (refused \/ (m = None /\ r.err = "entry"))
                /\ local' = [local EXCEPT ![d] = None]
                /\ primaryId' = [primaryId EXCEPT ![d] = None] /\ UNCHANGED lastSeen
        /\ UNCHANGED <<stored, mclock, offset, medits, early>>

Edited(d, m) ==
    /\ local' = [local EXCEPT ![d] = m] /\ medits' = medits + 1
    /\ unsaved' = unsaved \cup {d}
    /\ early' = (early \/ \E n \in Copies \cup Locals : \E q \in DOMAIN n.es : n.es[q].updated >= Now(d))
    /\ UNCHANGED <<stored, lastSeen, mclock, offset, munlocks, refused>>
CanEdit(d, p) ==
    /\ local[d] # None /\ medits < MaxEdits
    /\ p \in Active(local[d].es)

MRename(d, p) ==
    CanEdit(d, p) /\ Edited(d, Renamed(local[d], p, d, Now(d))) /\ UNCHANGED primaryId
MSetPrimary(d, p) ==
    /\ CanEdit(d, p) /\ Edited(d, SetPrimary(local[d], p, Now(d)))
    /\ primaryId' = [primaryId EXCEPT ![d] = p]
MTombstone(d, p) ==
    /\ CanEdit(d, p) /\ p # primaryId[d] /\ MayTombstone(local[d], p)
    /\ Edited(d, Tombstoned(local[d], p, Now(d))) /\ UNCHANGED primaryId
MAdd(d, p) ==
    /\ local[d] # None /\ medits < MaxEdits
    /\ stored[p] = None /\ \A m \in Copies \cup Locals : p \notin DOMAIN m.es
    /\ Edited(d, Added(local[d], p, d, Now(d))) /\ UNCHANGED primaryId

\* saveVault(), phase 4: the next version over the copy of every provider that answers,
\* _primaryProviderId among them; no other device's copy is read first.
MSave(d, targets) ==
    LET m == [local[d] EXCEPT !.version = @ + 1]
    IN  /\ local[d] # None
        /\ targets \subseteq Active(local[d].es) /\ primaryId[d] \in targets
        /\ d \in unsaved /\ unsaved' = unsaved \ {d}
        /\ stored' = [p \in MProviders |-> IF p \in targets THEN m ELSE stored[p]]
        /\ local' = [local EXCEPT ![d] = m]
        /\ UNCHANGED <<lastSeen, mclock, offset, medits, munlocks, refused, primaryId, early>>

MTick ==
    /\ mclock < MaxClock /\ mclock' = mclock + 1
    /\ UNCHANGED <<stored, local, lastSeen, offset, medits, munlocks, refused, unsaved, primaryId, early>>

MNext ==
    \/ \E d \in MDevices, p \in {q \in MProviders : stored[q] # None} :
          \E S \in SUBSET {q \in MProviders \ {p} : stored[q] # None} :
             \E rest \in Arrivals(S) : MUnlock(d, p, rest)
    \/ \E d \in MDevices, p \in MProviders : MRename(d, p)
    \/ \E d \in MDevices, p \in MProviders : MSetPrimary(d, p)
    \/ \E d \in MDevices, p \in MProviders : MTombstone(d, p)
    \/ \E d \in MDevices, p \in MProviders : MAdd(d, p)
    \/ \E d \in MDevices, T \in SUBSET MProviders : MSave(d, T)
    \/ MTick

MSpec == MInit /\ [][MNext]_maniVars
-----------------------------------------------------------------------------
\* Every manifest a device holds or has stored has exactly one active primary and no
\* tombstoned one, whatever merges and edits of two devices went into it
\* (validate_manifest, enforce_primary_uniqueness).
OnePrimary ==
    \A m \in Copies \cup Locals :
        /\ Cardinality(Primaries(m.es)) = 1
        /\ \A p \in DOMAIN m.es : m.es[p].tomb => ~m.es[p].primary

\* While no two clocks are further apart than MAX_CLOCK_SKEW_SECS, no device is shut out of
\* the vault by an entry another one wrote: a merge fails only for the version floor, or
\* because every provider of it has been removed.
NeverShutOut == (\A a, b \in MDevices : offset[a] - offset[b] <= MaxSkew) => ~refused

StoredSeqs == {[k \in DOMAIN s |-> stored[s[k]]] : s \in Arrivals({p \in MProviders : stored[p] # None})}

\* The same entry but for the flag that manifest_set_primary_provider() clears without a stamp.
SameButFlag(e, f) == [e EXCEPT !.primary = FALSE] = [f EXCEPT !.primary = FALSE]
Undisputed == \A m, n \in Copies : \A p \in DOMAIN m.es \cap DOMAIN n.es :
                 m.es[p].updated = n.es[p].updated => m.es[p] = n.es[p]

\* The order in which the copies arrive does not matter for what the providers are: as long as
\* every edit was stamped later than those before it, two devices that read the same copies
\* agree on the providers and on all of their entries but the primary flag, and on that one
\* too unless two copies hold an entry of one stamp with different flags.
OrderIrrelevant ==
    \A s, t \in StoredSeqs :
        LET a == EnforcePrimary(Union(s))
            b == EnforcePrimary(Union(t))
        IN  /\ ~early => DOMAIN a = DOMAIN b /\ \A p \in DOMAIN a : SameButFlag(a[p], b[p])
            /\ Undisputed => a = b

\* What the comment of merge_manifests() says of its rules, "commutative, associative": copies
\* whose edits were each stamped later than those before merge to one manifest in any order.
\* They do not: of the flags that two copies hold for one stamp the first read stays.
MergeCommutes == ~early => Cardinality({EnforcePrimary(Union(s)) : s \in StoredSeqs}) <= 1

\* A removal is not undone by an older copy, nor by one of the same second: the merge of all
\* copies has a provider removed whenever the latest entry for it, or one of the latest, says so.
RemovalWins ==
    \A s \in StoredSeqs : \A m \in Copies : \A p \in DOMAIN m.es :
        m.es[p].tomb /\ (\A n \in Copies : p \in DOMAIN n.es => n.es[p].updated <= m.es[p].updated)
            => EnforcePrimary(Union(s))[p].tomb
-----------------------------------------------------------------------------
(***************************************************************************)
(* The rows of a table of the vault body.  Devices insert and update rows, *)
(* each save uploads a body over the last one, and ConflictResolver merges *)
(* the body on the provider into a device's own table.  The program has    *)
(* the merge and nothing that creates a resolver: this is the algorithm as *)
(* its callers would meet it, not a step of a save.                        *)
(***************************************************************************)
CONSTANTS RowIds, MaxRowClock

ASSUME RowAssumption == RowIds \subseteq Nat /\ None \notin Nat

VARIABLES
    rows,       \* the table in each device's database: row by id
    rbody,      \* the table in the body on the provider
    rclock,     \* the time
    rkv         \* the table is key_versions

rowVars == <<rows, rbody, rclock, rkv>>

\* row_newer(): updated_at decides, else created_at; without a local stamp the local row stays.
RowNewer(r, l) ==
    IF l.updated # None /\ r.updated # None THEN r.updated > l.updated
    ELSE r.created > l.created

\* merge_rows() and mergeInto(): insert what is missing, replace what is older, keep the rest.
RowMergedAlways(l, r, kv) == r @@ l
RowMerged(l, r, kv) ==
    [i \in DOMAIN l \cup DOMAIN r |->
        IF i \notin DOMAIN l THEN r[i]
        ELSE IF i \in DOMAIN r /\ ~kv /\ RowNewer(r[i], l[i]) THEN r[i]
        ELSE l[i]]

RInit == rows = [d \in MDevices |-> EmptyMap] /\ rbody = EmptyMap /\ rclock = 1 /\ rkv \in BOOLEAN

\* createFile() and its like: AUTOINCREMENT gives the next id of this device's table.
RInsert(d, stamped) ==
    LET i == 1 + Max(DOMAIN rows[d] \cup {0})
    IN  /\ i \in RowIds
        /\ rows' = [rows EXCEPT ![d] = Put(@, i, [by |-> d, created |-> rclock,
                                                 updated |-> IF stamped THEN rclock ELSE None])]
        /\ UNCHANGED <<rbody, rclock, rkv>>
RUpdate(d, i) ==
    /\ i \in DOMAIN rows[d]
    /\ rows' = [rows EXCEPT ![d][i] = [@ EXCEPT !.by = d, !.updated = rclock]]
    /\ UNCHANGED <<rbody, rclock, rkv>>
\* saveVault(): the body goes over the one that is there.
RUpload(d) == rbody' = rows[d] /\ UNCHANGED <<rows, rclock, rkv>>
\* ConflictResolver.resolve(): the remote table is merged into the local one.
RResolve(d) ==
    /\ rows' = [rows EXCEPT ![d] = RowMerged(@, rbody, rkv)]
    /\ UNCHANGED <<rbody, rclock, rkv>>
RTick == rclock < MaxRowClock /\ rclock' = rclock + 1 /\ UNCHANGED <<rows, rbody, rkv>>

RNext ==
    \/ \E d \in MDevices, stamped \in BOOLEAN : RInsert(d, stamped)
    \/ \E d \in MDevices, i \in RowIds : RUpdate(d, i)
    \/ \E d \in MDevices : RUpload(d)
    \/ \E d \in MDevices : RResolve(d)
    \/ RTick

\* Manifests and rows beside each other: no step touches both.
MergeSpec ==
    /\ MInit /\ RInit
    /\ [][(MNext /\ UNCHANGED rowVars) \/ (RNext /\ UNCHANGED maniVars)]_<<maniVars, rowVars>>

\* Both ways round the merge of two devices' tables is the same table, so that they agree
\* once each has merged the other's, wherever the two hold different stamps (row_newer:
\* of equal ones each keeps its own).
RowsConverge ==
    \A d, e \in MDevices :
        LET a == rows[d]
            b == rows[e]
            ma == RowMerged(a, b, FALSE)
            mb == RowMerged(b, a, FALSE)
        IN  \A i \in DOMAIN a \cup DOMAIN b :
               (i \in DOMAIN a \cap DOMAIN b /\ ~RowNewer(a[i], b[i]) /\ ~RowNewer(b[i], a[i]))
                   \/ (i \in DOMAIN ma /\ i \in DOMAIN mb /\ ma[i] = mb[i])

\* What merges promise the devices of a vault: one primary, nobody shut out within the skew
\* allowed, removals that stay, and rows that converge.
ManifestInv == OnePrimary /\ NeverShutOut /\ RemovalWins /\ RowsConverge
=============================================================================
