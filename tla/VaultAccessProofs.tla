-------------------------- MODULE VaultAccessProofs --------------------------
(***************************************************************************)
(* Proofs for VaultAccess: whatever meets, the stored header opens and the *)
(* keys in memory are accounted for, and until a write replaces what it    *)
(* had not read no operation on the header is lost and every device keeps  *)
(* its slot, for any number of devices, slots and operations.              *)
(*                                                                         *)
(* The invariant has three parts: what a device may hold (RecordFine), how *)
(* the operations under way relate to the stored file (JobsFine), and,     *)
(* until a write was blind or past a hole, what the slots of the stored    *)
(* header say of each device (SlotsFine).                                  *)
(*                                                                         *)
(* And for DeviceEnroll: the shard goes to the device whose code was       *)
(* compared and no enrolment loses another one's slot, for any number of   *)
(* new devices, attempts and saves.  The invariant says what each party    *)
(* may hold, and what the messages on their way prove: a shard that its    *)
(* keys were compared, a "done" that a device has written its slot, a      *)
(* public key that there are keys.                                         *)
(***************************************************************************)
EXTENDS VaultAccess, DeviceEnroll, FiniteSetTheorems, TLAPS

\* A header that was once stored.
GoodHeader(h) == h \in VaHeaders /\ MacOk(h) /\ h.pass.salt = h.salt

JobFine(d, x, j) ==
    /\ GoodHeader(j.h)
    /\ j.op = "enrol" => x.st = "locked" /\ x.id = None /\ j.h.count < VaSlots
    /\ j.op = "recover" => x.st = "recovering"
    /\ j.op \in {"save", "change", "revoke", "migrate"} => x.st = "open"
    /\ j.op \in {"enrol", "recover"} => j.id = <<d, j.n>> /\ x.key = j.id
    /\ j.op = "migrate" => j.id = x.id /\ x.key = <<d, j.n>> /\ j.key # None

Held(x) == (IF x.st # "locked" THEN 1 ELSE 0)
           + (IF x.job # None /\ x.job.op = "enrol" THEN 1 ELSE 0)

RecordFine(d, x) ==
    /\ x \in VaRecords
    /\ x.hdr # None => GoodHeader(x.hdr)
    /\ x.cache # None => GoodHeader(x.cache)
    /\ (x.st = "open") = (x.hdr # None)
    /\ x.id # None => x.key # None /\ x.id[1] = d
    /\ x.live = x.thrown + Held(x)
    /\ x.job # None => JobFine(d, x, x.job)

Busy(devs) == {d \in VaDevices : devs[d].job # None}

\* An operation has a number of its own, and a conditional one that is as old as the file has
\* read it; the versions of the file are counted by the operations that have ended.
JobsFine(f, devs, ops) ==
    /\ GoodHeader(f.h) /\ f \in [h : VaHeaders, ver : Nat] /\ ops \in 0..VaMaxOps
    /\ \A d \in Busy(devs) :
          /\ devs[d].job.n <= ops /\ devs[d].job.ver <= f.ver
          /\ devs[d].job.op \in Conditional /\ devs[d].job.ver = f.ver => devs[d].job.h = f.h
    /\ f.ver + Cardinality(Busy(devs)) <= ops

At(h, i, id) == h.slots[i] # None /\ h.slots[i].id = id
Has(h, id, key) == \E i \in 1..VaSlots : At(h, i, id) /\ h.slots[i].key = key
Distinct(h) == \A i, k \in Filled(h) : h.slots[i].id = h.slots[k].id => i = k

\* What the header says of device d, whose record is x.
SlotFine(h, x) ==
    /\ x.job # None /\ x.job.op \in {"enrol", "recover"} =>
         \A i \in Filled(h) : h.slots[i].id # x.job.id
SlotKept(h, x) ==
    /\ x.id # None /\ (x.job = None \/ x.job.op \notin Rekeys) => Has(h, x.id, x.key)
    /\ x.id # None /\ x.job # None /\ x.job.op = "migrate" => Has(h, x.id, x.job.key)

SlotsFine(h, devs, ops, E) ==
    /\ Parses(h) /\ Distinct(h)
    /\ \A i \in Filled(h) : h.slots[i].id[2] <= ops
    /\ \A d \in VaDevices : SlotFine(h, devs[d])
    /\ \A d \in VaDevices \ E : SlotKept(h, devs[d])

AccInd ==
    /\ DOMAIN va = VaDevices /\ va = [d \in VaDevices |-> va[d]]
    /\ \A d \in VaDevices : RecordFine(d, va[d])
    /\ JobsFine(vaFile, va, vaOps)
    /\ {vaStale, vaHole} \subseteq BOOLEAN
    /\ vaStale \/ vaHole \/ (vaFile.h = vaWant /\ SlotsFine(vaFile.h, va, vaOps, vaExcused))
-----------------------------------------------------------------------------
(***************************************************************************)
(* Slots and what the operations make of a header.                         *)
(***************************************************************************)
LEMMA SlotFound ==
    ASSUME NEW h, NEW id, NEW n \in Nat
    PROVE  \/ SlotAmong(h, id, n) = 0 /\ \A i \in 1..n : ~At(h, i, id)
           \/ SlotAmong(h, id, n) \in 1..n /\ At(h, SlotAmong(h, id, n), id)
<1>1. CASE \E i \in 1..n : At(h, i, id)
  <2>1. SlotAmong(h, id, n) = CHOOSE i \in 1..n : At(h, i, id)
    BY <1>1 DEF SlotAmong, At
  <2> QED BY <1>1, <2>1
<1>2. CASE ~\E i \in 1..n : At(h, i, id)
  BY <1>2 DEF SlotAmong, At
<1> QED BY <1>1, <1>2

LEMMA ResealGood ==
    ASSUME NEW g \in VaHeaders, g.pass.salt = g.salt
    PROVE  /\ GoodHeader(Resealed(g))
           /\ Resealed(g).slots = g.slots /\ Resealed(g).count = g.count
<1>1. PICK m : m = Covered(g)
  OBVIOUS
<1>2. m \in VaMacs
  BY <1>1 DEF Covered, VaHeaders, VaMacs
<1>3. PICK r : r = Resealed(g)
  OBVIOUS
<1>4. /\ r \in VaHeaders /\ r.mac = m /\ r.salt = g.salt /\ r.pass = g.pass /\ r.rec = g.rec
      /\ r.slots = g.slots /\ r.count = g.count /\ r.epoch = g.epoch
  BY <1>1, <1>2, <1>3 DEF Resealed, VaHeaders
<1>5. Covered(r) = m
  BY <1>1, <1>4 DEF Covered
<1> QED BY <1>3, <1>4, <1>5 DEF GoodHeader, MacOk

LEMMA RewrapGood ==
    ASSUME NEW h \in VaHeaders, NEW n \in Nat
    PROVE  /\ Rewrapped(h, n) \in VaHeaders
           /\ Rewrapped(h, n).pass.salt = Rewrapped(h, n).salt
           /\ Rewrapped(h, n).slots = h.slots /\ Rewrapped(h, n).count = h.count
<1>1. PICK w : w = [salt |-> n, phrase |-> n]
  OBVIOUS
<1>2. w \in VaWraps /\ w.salt = n
  BY <1>1 DEF VaWraps
<1>3. Rewrapped(h, n) = [h EXCEPT !.salt = n, !.pass = w]
  BY <1>1 DEF Rewrapped
<1> QED BY <1>2, <1>3 DEF VaHeaders

LEMMA RevokeGood ==
    ASSUME NEW h \in VaHeaders, NEW id
    PROVE  /\ Revoked(h, id) \in VaHeaders
           /\ Revoked(h, id).pass = h.pass /\ Revoked(h, id).salt = h.salt
           /\ \/ /\ \A i \in 1..VaSlots : ~At(h, i, id)
                 /\ Revoked(h, id).slots = h.slots /\ Revoked(h, id).count = h.count
              \/ \E s \in 1..VaSlots :
                   /\ At(h, s, id) /\ Revoked(h, id).slots = [h.slots EXCEPT ![s] = None]
                   /\ Revoked(h, id).count = IF h.count > 0 THEN h.count - 1 ELSE h.count
<1>1. VaSlots \in Nat
  BY AccessAssumption
<1>2. PICK s : s = SlotOf(h, id)
  OBVIOUS
<1>3. CASE s = 0
  <2>1. \A i \in 1..VaSlots : ~At(h, i, id)
    <3>1. \/ SlotAmong(h, id, VaSlots) = 0 /\ \A i \in 1..VaSlots : ~At(h, i, id)
          \/ SlotAmong(h, id, VaSlots) \in 1..VaSlots
      BY <1>1, SlotFound
    <3>2. SlotAmong(h, id, VaSlots) = 0 /\ 0 \notin 1..VaSlots
      BY <1>1, <1>2, <1>3 DEF SlotOf
    <3> QED BY <3>1, <3>2
  <2>2. Revoked(h, id) = h
    BY <1>2, <1>3 DEF Revoked
  <2> QED BY <2>1, <2>2
<1>4. CASE s # 0
  <2>1. s \in 1..VaSlots /\ At(h, s, id)
    BY <1>1, <1>2, <1>4, SlotFound DEF SlotOf
  <2>2. PICK c : c = IF h.count > 0 THEN h.count - 1 ELSE h.count
    OBVIOUS
  <2>3. h.count \in 0..VaSlots /\ h.slots \in VaSlotArrays
    BY DEF VaHeaders
  <2>4. c \in 0..VaSlots
    BY <1>1, <2>2, <2>3
  <2>5. PICK t : t = [h.slots EXCEPT ![s] = None]
    OBVIOUS
  <2>6. t \in VaSlotArrays
    BY <2>1, <2>3, <2>5 DEF VaSlotArrays
  <2>7. Revoked(h, id) = [h EXCEPT !.slots = t, !.count = c]
    BY <1>2, <1>4, <2>2, <2>5 DEF Revoked, VaHeaders
  <2>8. /\ Revoked(h, id) \in VaHeaders /\ Revoked(h, id).slots = t
        /\ Revoked(h, id).count = c
        /\ Revoked(h, id).pass = h.pass /\ Revoked(h, id).salt = h.salt
    BY <2>4, <2>6, <2>7 DEF VaHeaders
  <2> QED BY <2>1, <2>2, <2>5, <2>8
<1> QED BY <1>3, <1>4

LEMMA NewSlotGood ==
    ASSUME NEW d \in VaDevices, NEW n \in Nat
    PROVE  /\ NewSlot(d, n) \in DeviceSlots /\ NewSlot(d, n) # None
           /\ NewSlot(d, n).id = <<d, n>> /\ NewSlot(d, n).key = <<d, n>>
<1>1. <<d, n>> \in VaIds
  BY DEF VaIds
<1>2. NewSlot(d, n) \in DeviceSlots
  BY <1>1 DEF NewSlot, DeviceSlots
<1> QED BY <1>2, AccessAssumption DEF NewSlot

LEMMA EnrolGood ==
    ASSUME NEW h \in VaHeaders, h.count < VaSlots, NEW d \in VaDevices, NEW n \in Nat
    PROVE  /\ Enrolled(h, d, n) \in VaHeaders
           /\ Enrolled(h, d, n).pass = h.pass /\ Enrolled(h, d, n).salt = h.salt
           /\ Enrolled(h, d, n).slots = [h.slots EXCEPT ![h.count + 1] = NewSlot(d, n)]
           /\ Enrolled(h, d, n).count = h.count + 1
<1>1. VaSlots \in Nat /\ h.count \in 0..VaSlots /\ h.slots \in VaSlotArrays
  BY AccessAssumption DEF VaHeaders
<1>2. PICK c : c = h.count + 1
  OBVIOUS
<1>3. c \in 1..VaSlots /\ c \in 0..VaSlots
  BY <1>1, <1>2
<1>4. PICK t : t = [h.slots EXCEPT ![c] = NewSlot(d, n)]
  OBVIOUS
<1>5. t \in VaSlotArrays
  BY <1>1, <1>3, <1>4, NewSlotGood DEF VaSlotArrays
<1>6. Enrolled(h, d, n) = [h EXCEPT !.slots = t, !.count = c]
  BY <1>2, <1>4 DEF Enrolled, VaHeaders
<1> QED BY <1>2, <1>3, <1>4, <1>5, <1>6 DEF VaHeaders

LEMMA RecoverGood ==
    ASSUME NEW h \in VaHeaders, NEW d \in VaDevices, NEW n \in Nat
    PROVE  /\ Recovered(h, d, n) \in VaHeaders
           /\ Recovered(h, d, n).pass.salt = Recovered(h, d, n).salt
           /\ Recovered(h, d, n).slots =
                [i \in 1..VaSlots |-> IF i = 1 THEN NewSlot(d, n) ELSE None]
           /\ Recovered(h, d, n).count = 1
<1>1. VaSlots \in Nat /\ 1 \in 0..VaSlots
  BY AccessAssumption
<1>2. PICK g : g = Rewrapped(h, n)
  OBVIOUS
<1>3. g \in VaHeaders /\ g.pass.salt = g.salt
  BY <1>2, RewrapGood
<1>4. PICK t : t = [i \in 1..VaSlots |-> IF i = 1 THEN NewSlot(d, n) ELSE None]
  OBVIOUS
<1>5. t \in VaSlotArrays
  BY <1>1, <1>4, NewSlotGood DEF VaSlotArrays
<1>6. PICK e : e = g.epoch + 1
  OBVIOUS
<1>7. e \in Nat
  BY <1>3, <1>6 DEF VaHeaders
<1>8. Recovered(h, d, n) = [g EXCEPT !.rec = n, !.count = 1, !.epoch = e, !.slots = t]
  BY <1>2, <1>4, <1>6 DEF Recovered
<1> QED BY <1>1, <1>3, <1>4, <1>5, <1>7, <1>8 DEF VaHeaders

\* What a migration leaves alone, and which slot it writes.
MigratedWell(h, id, n, g) ==
    /\ g \in VaHeaders /\ g.pass = h.pass /\ g.salt = h.salt /\ g.count = h.count
    /\ MigratesAt(h, id) = 0 => g.slots = h.slots
    /\ MigratesAt(h, id) # 0 =>
         /\ MigratesAt(h, id) \in 1..VaSlots /\ At(h, MigratesAt(h, id), id)
         /\ g.slots = [h.slots EXCEPT ![MigratesAt(h, id)] = [id |-> id, key |-> <<id[1], n>>]]

LEMMA MigrateGood ==
    ASSUME NEW h \in VaHeaders, NEW id, NEW n \in Nat
    PROVE  MigratedWell(h, id, n, Migrated(h, id, n))
<1>1. VaSlots \in Nat /\ h.count \in 0..VaSlots /\ h.slots \in VaSlotArrays
  BY AccessAssumption DEF VaHeaders
<1>2. PICK s : s = MigratesAt(h, id)
  OBVIOUS
<1>3. CASE s = 0
  BY <1>2, <1>3 DEF Migrated, MigratedWell
<1>4. CASE s # 0
  <2>1. s \in 1..VaSlots /\ At(h, s, id)
    BY <1>1, <1>2, <1>4, SlotFound DEF MigratesAt
  <2>2. PICK v : v = [id |-> id, key |-> <<id[1], n>>]
    OBVIOUS
  <2>3. h.slots[s] \in DeviceSlots /\ id \in VaIds
    BY <1>1, <2>1, AccessAssumption DEF VaSlotArrays, At, DeviceSlots
  <2>4. <<id[1], n>> \in VaIds
    BY <2>3 DEF VaIds
  <2>5. v \in DeviceSlots
    BY <2>2, <2>3, <2>4 DEF DeviceSlots
  <2>6. [h.slots[s] EXCEPT !.key = <<id[1], n>>] = v
    BY <2>1, <2>2, <2>3, <2>4 DEF DeviceSlots, At
  <2>7. PICK t : t = [h.slots EXCEPT ![s] = v]
    OBVIOUS
  <2>8. t \in VaSlotArrays
    BY <1>1, <2>1, <2>5, <2>7 DEF VaSlotArrays
  <2>9. Migrated(h, id, n) = [h EXCEPT !.slots = t]
    BY <1>2, <1>4, <2>6, <2>7 DEF Migrated, VaHeaders
  <2> QED BY <1>2, <1>4, <2>1, <2>2, <2>7, <2>8, <2>9 DEF VaHeaders, MigratedWell
<1> QED BY <1>3, <1>4

\* What an operation makes of the header, before the HMAC is computed again.
Operated(j, d, h) ==
    CASE j.op = "save" -> h
      [] j.op = "change" -> Rewrapped(h, j.n)
      [] j.op = "revoke" -> Revoked(h, j.id)
      [] j.op = "enrol" -> Enrolled(h, d, j.n)
      [] j.op = "recover" -> Recovered(h, d, j.n)
      [] j.op = "migrate" -> Migrated(h, j.id, j.n)

\* Every operation makes a header that opens of one that does.
LEMMA PatchGood ==
    ASSUME NEW h, GoodHeader(h), NEW d \in VaDevices, NEW j \in VaJobs,
           j.op = "enrol" => h.count < VaSlots
    PROVE  /\ Operated(j, d, h) \in VaHeaders /\ GoodHeader(Patched(j, d, h))
           /\ Patched(j, d, h).slots = Operated(j, d, h).slots
           /\ Patched(j, d, h).count = Operated(j, d, h).count
<1>1. j.op \in Ops /\ j.n \in Nat
  BY DEF VaJobs
<1>2. h \in VaHeaders /\ h.pass.salt = h.salt
  BY DEF GoodHeader
<1>3. Operated(j, d, h) \in VaHeaders /\ Operated(j, d, h).pass.salt = Operated(j, d, h).salt
  <2>1. CASE j.op = "save"
    BY <1>2, <2>1 DEF Operated
  <2>2. CASE j.op = "change"
    BY <1>1, <1>2, <2>2, RewrapGood DEF Operated
  <2>3. CASE j.op = "revoke"
    <3>1. Operated(j, d, h) = Revoked(h, j.id)
      BY <2>3 DEF Operated
    <3>2. /\ Revoked(h, j.id) \in VaHeaders
          /\ Revoked(h, j.id).pass = h.pass /\ Revoked(h, j.id).salt = h.salt
      BY <1>2, RevokeGood, Zenon
    <3> QED BY <1>2, <3>1, <3>2
  <2>4. CASE j.op = "enrol"
    BY <1>1, <1>2, <2>4, EnrolGood, ZenonT(40) DEF Operated
  <2>5. CASE j.op = "recover"
    BY <1>1, <1>2, <2>5, RecoverGood DEF Operated
  <2>6. CASE j.op = "migrate"
    <3>1. Operated(j, d, h) = Migrated(h, j.id, j.n)
      BY <2>6 DEF Operated
    <3>2. /\ Migrated(h, j.id, j.n) \in VaHeaders
          /\ Migrated(h, j.id, j.n).pass = h.pass /\ Migrated(h, j.id, j.n).salt = h.salt
      <4>1. MigratedWell(h, j.id, j.n, Migrated(h, j.id, j.n))
        BY <1>1, <1>2, MigrateGood
      <4> QED BY <4>1 DEF MigratedWell
    <3> QED BY <1>2, <3>1, <3>2
  <2> QED BY <1>1, <2>1, <2>2, <2>3, <2>4, <2>5, <2>6 DEF Ops
<1>4. Patched(j, d, h) = Resealed(Operated(j, d, h))
  BY DEF Patched, Operated
<1> QED BY <1>3, <1>4, ResealGood

LEMMA FilledFinite ==
    ASSUME NEW h
    PROVE  IsFiniteSet(Filled(h)) /\ Cardinality(Filled(h)) \in Nat /\ Filled(h) \subseteq 1..VaSlots
<1>1. VaSlots \in Nat /\ IsFiniteSet(1..VaSlots)
  BY AccessAssumption, FS_Interval
<1>2. Filled(h) \in SUBSET (1..VaSlots)
  BY DEF Filled
<1> QED BY <1>1, <1>2, FS_Subset, FS_CardinalityType

\* The slots of g are those of h, but for those of id.
Carried(h, g, id) == \A i \in 1..VaSlots : h.slots[i] # None /\ h.slots[i].id # id =>
                                              g.slots[i] = h.slots[i]
LEMMA CarriedHas ==
    ASSUME NEW h, NEW g, NEW id, Carried(h, g, id), NEW other, other # id, NEW key,
           Has(h, other, key)
    PROVE  Has(g, other, key)
BY DEF Carried, Has, At

\* What an operation makes of the slots, when the one before it was complete.
SlotsAfter(j, d, h, g) ==
    /\ Parses(g) /\ Distinct(g)
    /\ \A i \in Filled(g) : \/ j.op \in {"enrol", "recover"} /\ g.slots[i].id = j.id
                            \/ \E k \in Filled(h) : g.slots[i].id = h.slots[k].id
    /\ j.op # "recover" => Carried(h, g, j.id)
    /\ j.op \in {"save", "change"} => g.slots = h.slots
    /\ j.op \in {"enrol", "recover"} => Has(g, j.id, <<d, j.n>>)
    /\ j.op = "migrate" /\ MigratesAt(h, j.id) # 0 => Has(g, j.id, <<j.id[1], j.n>>)

LEMMA SameSlots ==
    ASSUME NEW h, Parses(h), Distinct(h), NEW g, g.slots = h.slots, g.count = h.count
    PROVE  Parses(g) /\ Distinct(g) /\ Filled(g) = Filled(h)
<1>1. Filled(g) = Filled(h)
  BY DEF Filled
<1> QED BY <1>1 DEF Parses, Distinct

LEMMA RevokeSlots ==
    ASSUME NEW h \in VaHeaders, Parses(h), Distinct(h), NEW d \in VaDevices, NEW j \in VaJobs,
           j.op = "revoke", NEW g, g = Revoked(h, j.id)
    PROVE  SlotsAfter(j, d, h, g)
<1>1. CASE g.slots = h.slots /\ g.count = h.count
  BY <1>1, SameSlots DEF SlotsAfter, Carried
<1>2. CASE ~(g.slots = h.slots /\ g.count = h.count)
  <2>1. PICK s \in 1..VaSlots :
               /\ At(h, s, j.id) /\ g.slots = [h.slots EXCEPT ![s] = None]
               /\ g.count = IF h.count > 0 THEN h.count - 1 ELSE h.count
    BY <1>2, RevokeGood
  <2>2. DOMAIN h.slots = 1..VaSlots
    BY DEF VaHeaders, VaSlotArrays
  <2>3. g.slots[s] = None /\ \A i \in 1..VaSlots : i # s => g.slots[i] = h.slots[i]
    BY <2>1, <2>2
  <2>4. Filled(g) = Filled(h) \ {s} /\ s \in Filled(h)
    BY <2>1, <2>3 DEF Filled, At
  <2>5. IsFiniteSet(Filled(h)) /\ Cardinality(Filled(h)) \in Nat /\ Cardinality(Filled(h)) # 0
    BY <2>4, FilledFinite, FS_EmptySet
  <2>6. Cardinality(Filled(g)) = Cardinality(Filled(h)) - 1
    BY <2>4, <2>5, FS_RemoveElement
  <2>7. Parses(g)
    BY <2>1, <2>5, <2>6 DEF Parses
  <2>8. \A i \in Filled(g) : i \in Filled(h) /\ g.slots[i] = h.slots[i]
    BY <2>3, <2>4 DEF Filled
  <2>9. Distinct(g)
    BY <2>8 DEF Distinct
  <2>10. Carried(h, g, j.id)
    BY <2>1, <2>3 DEF Carried, At
  <2> QED BY <2>7, <2>8, <2>9, <2>10 DEF SlotsAfter
<1> QED BY <1>1, <1>2

LEMMA EnrolSlots ==
    ASSUME NEW h \in VaHeaders, Parses(h), Distinct(h), NEW d \in VaDevices, NEW j \in VaJobs,
           j.op = "enrol", j.id = <<d, j.n>>, Filled(h) = 1..h.count, h.count < VaSlots,
           \A i \in Filled(h) : h.slots[i].id # j.id,
           NEW g, g = Enrolled(h, d, j.n)
    PROVE  SlotsAfter(j, d, h, g)
<1>1. VaSlots \in Nat /\ h.count \in 0..VaSlots /\ DOMAIN h.slots = 1..VaSlots /\ j.n \in Nat
  BY AccessAssumption DEF VaHeaders, VaSlotArrays, VaJobs
<1>2. PICK s : s = h.count + 1
  OBVIOUS
<1>3. s \in 1..VaSlots /\ s \notin Filled(h)
  BY <1>1, <1>2
<1>4. PICK v : v = NewSlot(d, j.n)
  OBVIOUS
<1>5. v # None /\ v.id = j.id /\ v.key = <<d, j.n>>
  BY <1>1, <1>4, NewSlotGood
<1>6. g.slots = [h.slots EXCEPT ![s] = v] /\ g.count = s
  BY <1>1, <1>2, <1>4, EnrolGood
<1>7. g.slots[s] = v /\ \A i \in 1..VaSlots : i # s => g.slots[i] = h.slots[i]
  BY <1>1, <1>3, <1>6
<1>8. Filled(g) = Filled(h) \cup {s}
  BY <1>3, <1>5, <1>7 DEF Filled
<1>9. Cardinality(Filled(g)) = Cardinality(Filled(h)) + 1
  BY <1>3, <1>8, FilledFinite, FS_AddElement
<1>10. Parses(g)
  BY <1>2, <1>6, <1>9 DEF Parses
<1>11. \A i \in Filled(g) : i = s \/ (i # s /\ i \in Filled(h) /\ g.slots[i] = h.slots[i])
  BY <1>3, <1>7, <1>8, FilledFinite
<1>12. Distinct(g)
  BY <1>5, <1>7, <1>11 DEF Distinct
<1>13. Carried(h, g, j.id)
  BY <1>3, <1>7 DEF Carried, Filled
<1>14. Has(g, j.id, <<d, j.n>>)
  BY <1>3, <1>5, <1>7 DEF Has, At
<1> QED BY <1>5, <1>7, <1>10, <1>11, <1>12, <1>13, <1>14 DEF SlotsAfter

LEMMA RecoverSlots ==
    ASSUME NEW h \in VaHeaders, NEW d \in VaDevices, NEW j \in VaJobs,
           j.op = "recover", j.id = <<d, j.n>>, NEW g, g = Recovered(h, d, j.n)
    PROVE  SlotsAfter(j, d, h, g)
<1>1. VaSlots \in Nat /\ 1 \in 1..VaSlots /\ j.n \in Nat
  BY AccessAssumption DEF VaJobs
<1>2. PICK v : v = NewSlot(d, j.n)
  OBVIOUS
<1>3. v # None /\ v.id = j.id /\ v.key = <<d, j.n>>
  BY <1>1, <1>2, NewSlotGood
<1>4. g.slots = [i \in 1..VaSlots |-> IF i = 1 THEN v ELSE None] /\ g.count = 1
  <2>1. /\ Recovered(h, d, j.n).slots =
             [i \in 1..VaSlots |-> IF i = 1 THEN NewSlot(d, j.n) ELSE None]
        /\ Recovered(h, d, j.n).count = 1
    BY <1>1, RecoverGood
  <2> QED BY <1>2, <2>1
<1>5. Filled(g) = {1} /\ g.slots[1] = v
  BY <1>1, <1>3, <1>4 DEF Filled
<1>6. Parses(g)
  BY <1>4, <1>5, FS_Singleton DEF Parses
<1>7. Distinct(g) /\ Has(g, j.id, <<d, j.n>>)
  BY <1>1, <1>3, <1>5 DEF Distinct, Has, At
<1> QED BY <1>3, <1>5, <1>6, <1>7 DEF SlotsAfter

LEMMA MigrateSlots ==
    ASSUME NEW h \in VaHeaders, Parses(h), Distinct(h), NEW d \in VaDevices, NEW j \in VaJobs,
           j.op = "migrate", NEW g, g = Migrated(h, j.id, j.n)
    PROVE  SlotsAfter(j, d, h, g)
<1>1. DOMAIN h.slots = 1..VaSlots /\ j.n \in Nat
  BY DEF VaHeaders, VaSlotArrays, VaJobs
<1>2. PICK s : s = MigratesAt(h, j.id)
  OBVIOUS
<1>3. MigratedWell(h, j.id, j.n, g)
  BY <1>1, MigrateGood
<1>4. CASE s = 0
  <2>1. g.slots = h.slots
    BY <1>2, <1>3, <1>4 DEF MigratedWell
  <2> QED BY <1>2, <1>3, <1>4, <2>1, SameSlots DEF SlotsAfter, Carried, MigratedWell
<1>5. CASE s # 0
  <2>1. PICK v : v = [id |-> j.id, key |-> <<j.id[1], j.n>>]
    OBVIOUS
  <2>2. s \in 1..VaSlots /\ At(h, s, j.id) /\ g.slots = [h.slots EXCEPT ![s] = v]
    BY <1>2, <1>3, <1>5, <2>1 DEF MigratedWell
  <2>3. v.id = j.id /\ v.key = <<j.id[1], j.n>>
    BY <2>1
  <2>4. v # None
    <3>1. h.slots[s] \in DeviceSlots
      BY <2>2, AccessAssumption DEF VaHeaders, VaSlotArrays, At
    <3>2. j.id \in VaIds
      BY <2>2, <3>1 DEF DeviceSlots, At
    <3>3. <<j.id[1], j.n>> \in VaIds
      BY <1>1, <3>2 DEF VaIds
    <3>4. v \in DeviceSlots
      BY <2>1, <3>2, <3>3 DEF DeviceSlots
    <3> QED BY <3>4, AccessAssumption
  <2>5. g.slots[s] = v /\ \A i \in 1..VaSlots : i # s => g.slots[i] = h.slots[i]
    BY <1>1, <2>2
  <2>6. Filled(g) = Filled(h)
    BY <2>2, <2>4, <2>5 DEF Filled, At
  <2>7. \A i \in Filled(g) : i \in Filled(h) /\ g.slots[i].id = h.slots[i].id
    BY <2>2, <2>3, <2>5, <2>6 DEF Filled, At
  <2>8. Parses(g) /\ Distinct(g)
    BY <1>3, <2>6, <2>7 DEF Parses, Distinct, MigratedWell
  <2>9. Carried(h, g, j.id)
    BY <2>2, <2>5 DEF Carried, At
  <2>10. Has(g, j.id, <<j.id[1], j.n>>)
    BY <2>2, <2>3, <2>4, <2>5 DEF Has, At
  <2> QED BY <2>7, <2>8, <2>9, <2>10 DEF SlotsAfter
<1> QED BY <1>4, <1>5

LEMMA OperatedSlots ==
    ASSUME NEW h \in VaHeaders, Parses(h), Distinct(h), NEW d \in VaDevices, NEW j \in VaJobs,
           j.op \in {"enrol", "recover"} =>
              j.id = <<d, j.n>> /\ \A i \in Filled(h) : h.slots[i].id # j.id,
           j.op = "enrol" => Filled(h) = 1..h.count /\ h.count < VaSlots,
           NEW g, g.slots = Operated(j, d, h).slots, g.count = Operated(j, d, h).count
    PROVE  SlotsAfter(j, d, h, g)
<1>1. PICK o : o = Operated(j, d, h)
  OBVIOUS
<1>2. j.op \in Ops /\ j.n \in Nat
  BY DEF VaJobs
<1>3. SlotsAfter(j, d, h, o)
  <2>1. CASE j.op \in {"save", "change"}
    <3>1. o.slots = h.slots /\ o.count = h.count
      BY <1>1, <1>2, <2>1, RewrapGood DEF Operated
    <3> QED BY <2>1, <3>1, SameSlots DEF SlotsAfter, Carried
  <2>2. CASE j.op = "revoke"
    BY <1>1, <2>2, RevokeSlots DEF Operated
  <2>3. CASE j.op = "enrol"
    BY <1>1, <2>3, EnrolSlots DEF Operated
  <2>4. CASE j.op = "recover"
    BY <1>1, <2>4, RecoverSlots DEF Operated
  <2>5. CASE j.op = "migrate"
    BY <1>1, <2>5, MigrateSlots DEF Operated
  <2> QED BY <1>2, <2>1, <2>2, <2>3, <2>4, <2>5 DEF Ops
<1>4. Parses(g) /\ Distinct(g) /\ Filled(g) = Filled(o)
  BY <1>1, <1>3, SameSlots DEF SlotsAfter
<1> QED BY <1>1, <1>3, <1>4 DEF SlotsAfter, Carried, Has, At
-----------------------------------------------------------------------------
(***************************************************************************)
(* The first state.                                                        *)
(***************************************************************************)
LEMMA CreatedGood ==
    /\ GoodHeader(Created(VaEnrolled)) /\ Parses(Created(VaEnrolled))
    /\ Distinct(Created(VaEnrolled))
    /\ \A i \in Filled(Created(VaEnrolled)) : Created(VaEnrolled).slots[i].id[2] = 0
    /\ \A i \in 1..VaEnrolled : Has(Created(VaEnrolled), <<i, 0>>, <<i, 0>>)
<1>1. /\ VaSlots \in Nat /\ VaEnrolled \in Nat /\ VaEnrolled <= VaSlots
      /\ 1..VaEnrolled \subseteq VaDevices
  BY AccessAssumption
<1>2. PICK t : t = [i \in 1..VaSlots |->
                      IF i <= VaEnrolled THEN [id |-> <<i, 0>>, key |-> <<i, 0>>] ELSE None]
  OBVIOUS
<1>3. ASSUME NEW i \in 1..VaSlots, i <= VaEnrolled
      PROVE  t[i] \in DeviceSlots /\ t[i].id = <<i, 0>> /\ t[i].key = <<i, 0>> /\ t[i] # None
  <2>1. t[i] = NewSlot(i, 0) /\ i \in VaDevices
    BY <1>1, <1>2, <1>3 DEF NewSlot
  <2> QED BY <2>1, NewSlotGood
<1>4. t \in VaSlotArrays
  BY <1>1, <1>2, <1>3 DEF VaSlotArrays
<1>5. PICK w : w = [salt |-> 0, phrase |-> 0]
  OBVIOUS
<1>6. w \in VaWraps /\ w.salt = 0
  BY <1>5 DEF VaWraps
<1>7. PICK m : m = [salt |-> 0, pass |-> w, rec |-> 0, slots |-> t, count |-> VaEnrolled,
                    epoch |-> 0]
  OBVIOUS
<1>8. m \in VaMacs
  BY <1>1, <1>4, <1>6, <1>7 DEF VaMacs
<1>9. PICK g : g = [salt |-> 0, pass |-> w, rec |-> 0, slots |-> t, count |-> VaEnrolled,
                    epoch |-> 0, mac |-> m]
  OBVIOUS
<1>10. g \in VaHeaders /\ Covered(g) = m /\ g.pass.salt = g.salt
  BY <1>1, <1>4, <1>6, <1>7, <1>8, <1>9 DEF VaHeaders, Covered
<1>11. Created(VaEnrolled) = g
  <2>1. PICK b : b = [salt |-> 0, pass |-> w, rec |-> 0, slots |-> t, count |-> VaEnrolled,
                      epoch |-> 0, mac |-> None]
    OBVIOUS
  <2>2. Created(VaEnrolled) = Resealed(b)
    BY <1>2, <1>5, <2>1 DEF Created
  <2>3. Covered(b) = m
    BY <1>7, <2>1 DEF Covered
  <2>4. Resealed(b) = g
    BY <1>9, <2>1, <2>3 DEF Resealed
  <2> QED BY <2>2, <2>4
<1>12. GoodHeader(g)
  BY <1>9, <1>10 DEF GoodHeader, MacOk
<1>13. Filled(g) = 1..VaEnrolled /\ g.slots = t /\ g.count = VaEnrolled
  <2>1. g.slots = t /\ g.count = VaEnrolled
    BY <1>9
  <2>2. \A i \in 1..VaSlots : t[i] # None <=> i <= VaEnrolled
    BY <1>1, <1>2, <1>3
  <2> QED BY <1>1, <2>1, <2>2 DEF Filled
<1>14. Parses(g)
  <2>1. Cardinality(1..VaEnrolled) = VaEnrolled
    BY <1>1, FS_Interval
  <2> QED BY <1>13, <2>1 DEF Parses
<1>15. \A i \in 1..VaEnrolled : i \in 1..VaSlots /\ t[i].id = <<i, 0>> /\ t[i].key = <<i, 0>>
                                 /\ t[i] # None
  BY <1>1, <1>3
<1>16. Distinct(g) /\ \A i \in Filled(g) : g.slots[i].id[2] = 0
  BY <1>13, <1>15 DEF Distinct
<1>17. \A i \in 1..VaEnrolled : Has(g, <<i, 0>>, <<i, 0>>)
  BY <1>13, <1>15 DEF Has, At
<1> QED BY <1>11, <1>12, <1>14, <1>16, <1>17

LEMMA NewDeviceFine ==
    ASSUME NEW d \in VaDevices
    PROVE  /\ RecordFine(d, NewDevice(d)) /\ NewDevice(d).job = None
           /\ NewDevice(d).id # None =>
                d \in 1..VaEnrolled /\ NewDevice(d).id = <<d, 0>> /\ NewDevice(d).key = <<d, 0>>
<1>1. /\ d \in Nat /\ d # 0 /\ VaEnrolled \in Nat
      /\ None \notin VaIds
  BY AccessAssumption
<1>2. PICK mine : mine = IF d <= VaEnrolled THEN <<d, 0>> ELSE None
  OBVIOUS
<1>3. mine \in VaIds \cup {None} /\ (mine # None => d \in 1..VaEnrolled /\ mine = <<d, 0>>)
  BY <1>1, <1>2 DEF VaIds
<1>4. NewDevice(d) = [st |-> "locked", id |-> mine, key |-> mine, prf |-> FALSE, hdr |-> None,
                      cache |-> None, job |-> None, live |-> 0, thrown |-> 0]
  BY <1>2 DEF NewDevice
<1>5. NewDevice(d) \in VaRecords
  BY <1>3, <1>4 DEF VaRecords
<1>6. Held(NewDevice(d)) = 0
  BY <1>4 DEF Held
<1>7. mine # None => mine[1] = d
  BY <1>3
<1> QED BY <1>3, <1>4, <1>5, <1>6, <1>7 DEF RecordFine

LEMMA AccStart == AccInit => AccInd
<1> SUFFICES ASSUME AccInit PROVE AccInd
  OBVIOUS
<1>1. PICK h : h = Created(VaEnrolled)
  OBVIOUS
<1>2. /\ vaFile = [h |-> h, ver |-> 0] /\ vaWant = h /\ vaStale = FALSE /\ vaHole = FALSE
      /\ vaExcused = {} /\ vaOps = 0 /\ va = [d \in VaDevices |-> NewDevice(d)]
  BY <1>1 DEF AccInit
<1>3. GoodHeader(h) /\ h \in VaHeaders /\ vaFile.h = h /\ vaFile.ver = 0
  BY <1>1, <1>2, CreatedGood DEF GoodHeader
<1>4. \A d \in VaDevices : va[d].job = None /\ va[d] = NewDevice(d)
  BY <1>2, NewDeviceFine
<1>5. Busy(va) = {} /\ VaMaxOps \in Nat
  BY <1>4, AccessAssumption DEF Busy
<1>6. JobsFine(vaFile, va, vaOps)
  BY <1>2, <1>3, <1>5, FS_EmptySet DEF JobsFine
<1>7. SlotsFine(h, va, vaOps, vaExcused)
  <2>1. \A d \in VaDevices : SlotFine(h, va[d]) /\ SlotKept(h, va[d])
    BY <1>1, <1>4, NewDeviceFine, CreatedGood DEF SlotFine, SlotKept
  <2>2. \A i \in Filled(h) : h.slots[i].id[2] <= vaOps
    BY <1>1, <1>2, CreatedGood
  <2> QED BY <1>1, <2>1, <2>2, CreatedGood DEF SlotsFine
<1>8. \A d \in VaDevices : RecordFine(d, va[d])
  BY <1>4, NewDeviceFine
<1> QED BY <1>2, <1>3, <1>6, <1>7, <1>8 DEF AccInd
-----------------------------------------------------------------------------
(***************************************************************************)
(* Steps of one device.                                                    *)
(***************************************************************************)
LEMMA BusyFinite ==
    ASSUME NEW devs
    PROVE  IsFiniteSet(Busy(devs)) /\ Cardinality(Busy(devs)) \in Nat
<1>1. Busy(devs) \in SUBSET VaDevices /\ IsFiniteSet(VaDevices)
  BY AccessAssumption DEF Busy
<1> QED BY <1>1, FS_Subset, FS_CardinalityType

\* One device's record changes: the others are as they were.
LEMMA OneRecord ==
    ASSUME NEW devs, devs = [e \in VaDevices |-> devs[e]], NEW d \in VaDevices, NEW y,
           NEW next, next = [devs EXCEPT ![d] = y]
    PROVE  /\ next = [e \in VaDevices |-> next[e]] /\ DOMAIN next = VaDevices
           /\ next[d] = y /\ \A e \in VaDevices : e # d => next[e] = devs[e]
           /\ (y.job = None) => Busy(next) = Busy(devs) \ {d}
           /\ (y.job # None) => Busy(next) = Busy(devs) \cup {d}
<1>1. /\ next = [e \in VaDevices |-> next[e]] /\ DOMAIN next = VaDevices
      /\ next[d] = y /\ \A e \in VaDevices : e # d => next[e] = devs[e]
  OBVIOUS
<1> QED BY <1>1 DEF Busy

\* A step that leaves the file alone and begins nothing.
LEMMA DeviceStep ==
    ASSUME AccInd, NEW d \in VaDevices, NEW y, va' = [va EXCEPT ![d] = y],
           RecordFine(d, y), y.job \in {va[d].job, None},
           UNCHANGED <<vaFile, vaOps, vaWant, vaStale, vaHole>>,
           vaExcused \subseteq vaExcused',
           d \in vaExcused' \/ \A h : SlotKept(h, va[d]) => SlotKept(h, y)
    PROVE  AccInd'
<1>1. /\ va' = [e \in VaDevices |-> va'[e]] /\ DOMAIN va' = VaDevices
      /\ va'[d] = y /\ \A e \in VaDevices : e # d => va'[e] = va[e]
      /\ (y.job = None) => Busy(va') = Busy(va) \ {d}
      /\ (y.job # None) => Busy(va') = Busy(va) \cup {d}
  BY OneRecord DEF AccInd
<1>2. \A e \in VaDevices : RecordFine(e, va'[e])
  BY <1>1 DEF AccInd
<1>3. Busy(va') \subseteq Busy(va) /\ \A e \in Busy(va') : va'[e].job = va[e].job
  BY <1>1 DEF Busy
<1>4. Cardinality(Busy(va')) <= Cardinality(Busy(va))
  BY <1>3, BusyFinite, FS_Subset
<1>5. JobsFine(vaFile', va', vaOps')
  <2>1. JobsFine(vaFile, va, vaOps)
    BY DEF AccInd
  <2>2. /\ vaFile.ver \in Nat /\ vaOps \in Nat
        /\ Cardinality(Busy(va)) \in Nat /\ Cardinality(Busy(va')) \in Nat
    BY <2>1, BusyFinite, AccessAssumption DEF JobsFine
  <2>3. vaFile.ver + Cardinality(Busy(va')) <= vaOps
    BY <1>4, <2>1, <2>2 DEF JobsFine
  <2> QED BY <1>3, <2>1, <2>3 DEF JobsFine
<1>6. vaStale \/ vaHole \/ SlotsFine(vaFile.h, va', vaOps, vaExcused')
  <2> SUFFICES ASSUME ~vaStale, ~vaHole PROVE SlotsFine(vaFile.h, va', vaOps, vaExcused')
    BY DEF AccInd
  <2>1. SlotsFine(vaFile.h, va, vaOps, vaExcused)
    BY DEF AccInd
  <2>2. \A e \in VaDevices : SlotFine(vaFile.h, va'[e])
    <3>1. SlotFine(vaFile.h, va[d]) /\ va[d].job \in {va[d].job, None}
      BY <2>1 DEF SlotsFine
    <3>2. SlotFine(vaFile.h, y)
      BY <3>1 DEF SlotFine
    <3> QED BY <1>1, <2>1, <3>2 DEF SlotsFine
  <2>3. \A e \in VaDevices \ vaExcused' : SlotKept(vaFile.h, va'[e])
    BY <1>1, <2>1 DEF SlotsFine
  <2> QED BY <2>1, <2>2, <2>3 DEF SlotsFine
<1> QED BY <1>1, <1>2, <1>5, <1>6 DEF AccInd

\* A step that begins an operation.
BegunRecord(x, j, key, live) == [x EXCEPT !.job = j, !.key = key, !.live = @ + live]
LEMMA BeginStep ==
    ASSUME AccInd, NEW d \in VaDevices, NEW j \in VaJobs, NEW key, NEW live \in {0, 1},
           Begins(d, j, key, live), j.n = vaOps + 1, j.ver = vaFile.ver,
           j.op \in Conditional => j.h = vaFile.h,
           RecordFine(d, BegunRecord(va[d], j, key, live)),
           j.op \in {"save", "change", "revoke"} => key = va[d].key,
           j.op = "migrate" => j.key = va[d].key,
           j.op = "enrol" => va[d].id = None,
           j.op \in {"enrol", "recover"} => j.id = <<d, j.n>>
    PROVE  AccInd'
<1> DEFINE x == va[d]
           y == BegunRecord(va[d], j, key, live)
<1>1. x \in VaRecords /\ j # None /\ x.job = None /\ vaOps < VaMaxOps /\ vaOps' = vaOps + 1
  BY AccessAssumption DEF AccInd, RecordFine, Begins
<1>2. y.job = j /\ y.key = key /\ y.id = x.id
  BY <1>1 DEF VaRecords, BegunRecord
<1>3. va' = [va EXCEPT ![d] = y]
  BY DEF Begins, AccInd, BegunRecord
<1>4. /\ va' = [e \in VaDevices |-> va'[e]] /\ DOMAIN va' = VaDevices
      /\ va'[d] = y /\ \A e \in VaDevices : e # d => va'[e] = va[e]
      /\ Busy(va') = Busy(va) \cup {d}
  <2> HIDE DEF y
  <2> QED BY <1>1, <1>2, <1>3, OneRecord DEF AccInd
<1> HIDE DEF y
<1>5. UNCHANGED <<vaFile, vaWant, vaStale, vaHole, vaExcused>>
  BY DEF Begins, hist
<1>6. JobsFine(vaFile, va, vaOps) /\ vaFile.ver \in Nat /\ vaOps \in Nat /\ VaMaxOps \in Nat
  BY AccessAssumption DEF AccInd, JobsFine
<1>7. d \notin Busy(va) /\ Cardinality(Busy(va')) = Cardinality(Busy(va)) + 1
  <2>1. d \notin Busy(va)
    BY <1>1 DEF Busy
  <2>2. IsFiniteSet(Busy(va))
    BY BusyFinite
  <2> QED BY <1>4, <2>1, <2>2, FS_AddElement, ZenonT(40)
<1>8. JobsFine(vaFile', va', vaOps')
  <2>1. ASSUME NEW e \in Busy(va')
        PROVE  /\ va'[e].job.n <= vaOps + 1 /\ va'[e].job.ver <= vaFile.ver
               /\ va'[e].job.op \in Conditional /\ va'[e].job.ver = vaFile.ver =>
                    va'[e].job.h = vaFile.h
    <3>1. CASE e = d
      BY <1>2, <1>4, <1>6, <3>1
    <3>2. CASE e # d
      <4>1. e \in Busy(va) /\ va'[e] = va[e] /\ va[e].job \in VaJobs
        BY <1>4, <3>2, <2>1 DEF Busy, AccInd, RecordFine, VaRecords
      <4> QED BY <1>6, <4>1 DEF JobsFine, VaJobs
    <3> QED BY <3>1, <3>2
  <2>2. vaFile.ver + Cardinality(Busy(va')) <= vaOps + 1 /\ vaOps + 1 \in 0..VaMaxOps
    BY <1>1, <1>6, <1>7, BusyFinite DEF JobsFine
  <2> QED BY <1>1, <1>5, <1>6, <2>1, <2>2 DEF JobsFine
<1>9. ASSUME ~vaStale, ~vaHole PROVE SlotsFine(vaFile.h, va', vaOps + 1, vaExcused)
  <2>1. SlotsFine(vaFile.h, va, vaOps, vaExcused)
    BY <1>9 DEF AccInd
  <2>2. \A i \in Filled(vaFile.h) : vaFile.h.slots[i].id \in VaIds /\ vaFile.h.slots[i].id[2] <= vaOps
    <3>1. vaFile.h \in VaHeaders
      BY <1>6 DEF JobsFine
    <3>2. ASSUME NEW i \in Filled(vaFile.h) PROVE vaFile.h.slots[i] \in DeviceSlots
      BY <3>1 DEF VaHeaders, VaSlotArrays, Filled
    <3> QED BY <2>1, <3>2 DEF SlotsFine, DeviceSlots
  <2>3. SlotFine(vaFile.h, y)
    <3>1. ASSUME NEW i \in Filled(vaFile.h), j.id = <<d, j.n>> PROVE vaFile.h.slots[i].id # j.id
      <4>1. vaFile.h.slots[i].id[2] <= vaOps /\ j.id[2] = vaOps + 1
        BY <2>2, <3>1
      <4>2. vaFile.h.slots[i].id[2] \in Nat
        BY <2>2 DEF VaIds
      <4> QED BY <1>6, <4>1, <4>2
    <3> QED BY <1>2, <3>1 DEF SlotFine
  <2>4. d \notin vaExcused => SlotKept(vaFile.h, y)
    <3>1. d \notin vaExcused => SlotKept(vaFile.h, x)
      BY <2>1 DEF SlotsFine
    <3>2. j.op \in Ops
      BY DEF VaJobs
    <3> QED BY <1>1, <1>2, <3>1, <3>2 DEF SlotKept, Ops, Rekeys
  <2>5. \A i \in Filled(vaFile.h) : vaFile.h.slots[i].id[2] <= vaOps + 1
    <3>1. \A i \in Filled(vaFile.h) : vaFile.h.slots[i].id[2] \in Nat
      BY <2>2 DEF VaIds
    <3> QED BY <1>6, <2>2, <3>1
  <2> QED BY <1>4, <2>1, <2>3, <2>4, <2>5 DEF SlotsFine
<1>10. \A e \in VaDevices : RecordFine(e, va'[e])
  BY <1>4 DEF AccInd, y
<1> QED BY <1>1, <1>4, <1>5, <1>8, <1>9, <1>10 DEF AccInd

LEMMA ReadableGood ==
    ASSUME AccInd, NEW d \in VaDevices, NEW h \in Readable(d)
    PROVE  GoodHeader(h) /\ h \in VaHeaders /\ h # None
<1>1. GoodHeader(vaFile.h) /\ RecordFine(d, va[d])
  BY DEF AccInd, JobsFine
<1>2. GoodHeader(h)
  BY <1>1 DEF Readable, RecordFine
<1> QED BY <1>2, AccessAssumption DEF GoodHeader

\* A vault that was locked, or whose device has just enrolled, is open.
OpenRecord(x, h, c, l) == [x EXCEPT !.st = "open", !.hdr = h, !.cache = c, !.live = l]
LEMMA OpenedFine ==
    ASSUME NEW d, NEW x, RecordFine(d, x), x.st \in {"locked", "adopting"}, x.job = None,
           NEW h, GoodHeader(h), h # None, NEW c, c \in {h, x.cache},
           NEW l, l = x.thrown + 1
    PROVE  /\ RecordFine(d, OpenRecord(x, h, c, l)) /\ OpenRecord(x, h, c, l).job = x.job
           /\ OpenRecord(x, h, c, l).id = x.id /\ OpenRecord(x, h, c, l).key = x.key
<1>1. x \in VaRecords /\ h \in VaHeaders /\ x.thrown \in Nat
  BY DEF RecordFine, GoodHeader, VaRecords
<1>2. PICK y : y = OpenRecord(x, h, c, l)
  OBVIOUS
<1>3. c \in VaHeaders \cup {None} /\ l \in Nat
  BY <1>1 DEF VaRecords
<1>4. /\ y \in VaRecords /\ y.st = "open" /\ y.hdr = h /\ y.cache = c /\ y.live = l
      /\ y.job = x.job /\ y.id = x.id /\ y.key = x.key /\ y.thrown = x.thrown
  BY <1>1, <1>2, <1>3 DEF VaRecords, OpenRecord
<1>5. Held(y) = 1
  BY <1>4 DEF Held
<1>6. RecordFine(d, y)
  BY <1>4, <1>5 DEF RecordFine
<1> QED BY <1>2, <1>4, <1>6

LEMMA KeptByRecord ==
    ASSUME NEW x, NEW y, y.job = x.job, y.id = x.id, y.key = x.key
    PROVE  \A h : SlotKept(h, x) => SlotKept(h, y)
BY DEF SlotKept

\* An unlock ends: the vault is open, a session stays behind, or nothing has changed.
LEMMA EndsStep ==
    ASSUME AccInd, NEW d \in VaDevices, NEW h \in Readable(d), NEW end, Ends(d, h, end),
           va[d].st = "locked", va[d].job = None,
           UNCHANGED <<vaFile, vaOps, vaWant, vaStale, vaHole, vaExcused>>
    PROVE  AccInd'
<1>1. PICK x : x = va[d]
  OBVIOUS
<1>2. RecordFine(d, x) /\ x \in VaRecords /\ va = [e \in VaDevices |-> va[e]]
  BY <1>1 DEF AccInd, RecordFine
<1>4. GoodHeader(h) /\ h # None
  BY ReadableGood
<1>5. /\ UNCHANGED <<vaFile, vaOps, vaWant, vaStale, vaHole, vaExcused>>
      /\ x.st = "locked" /\ x.job = None
  BY <1>1
<1>6. x.thrown \in Nat /\ x.live = x.thrown /\ Held(x) = 0
  BY <1>2, <1>5 DEF RecordFine, VaRecords, Held
<1>7. CASE end = "open"
  <2>1. PICK c : c = IF h = vaFile.h THEN h ELSE x.cache
    OBVIOUS
  <2>2. PICK l : l = x.thrown + 1
    OBVIOUS
  <2>3. PICK y : y = OpenRecord(x, h, c, l)
    OBVIOUS
  <2>4. LiveAfter(d, end) = l
    BY <1>1, <1>6, <1>7, <2>2 DEF LiveAfter
  <2>8. va' = [Opened1(d, h) EXCEPT ![d].live = l]
    BY <1>7, <2>4 DEF Ends
  <2>5. va' = [va EXCEPT ![d] = y]
    BY <1>1, <1>2, <2>1, <2>3, <2>8, ZenonT(40) DEF Opened1, OpenRecord, VaRecords
  <2>6. RecordFine(d, y) /\ y.job = x.job /\ y.id = x.id /\ y.key = x.key
    <3>1. c \in {h, x.cache} /\ x.st \in {"locked", "adopting"}
      BY <1>5, <2>1
    <3> QED BY <1>2, <1>4, <1>5, <2>2, <2>3, <3>1, OpenedFine
  <2>7. \A g : SlotKept(g, x) => SlotKept(g, y)
    BY <2>6, KeptByRecord
  <2> QED BY <1>1, <1>5, <2>5, <2>6, <2>7, DeviceStep
<1>8. CASE end = "thrown"
  <2>1. PICK l : l = x.thrown + 1
    OBVIOUS
  <2>2. PICK y : y = [x EXCEPT !.live = l, !.thrown = l]
    OBVIOUS
  <2>3. LiveAfter(d, end) = l
    BY <1>1, <1>6, <1>8, <2>1 DEF LiveAfter
  <2>9. va' = [va EXCEPT ![d].live = l, ![d].thrown = @ + 1]
    BY <1>8, <2>3 DEF Ends
  <2>4. va' = [va EXCEPT ![d] = y]
    BY <1>1, <1>2, <2>1, <2>2, <2>9 DEF VaRecords
  <2>5. /\ y \in VaRecords /\ y.job = x.job /\ y.id = x.id /\ y.key = x.key /\ y.st = x.st
        /\ y.hdr = x.hdr /\ y.cache = x.cache /\ y.live = l /\ y.thrown = l
    <3>1. l \in Nat
      BY <1>6, <2>1
    <3> QED BY <1>2, <2>2, <3>1 DEF VaRecords
  <2>6. Held(y) = 0 /\ l \in Nat
    BY <1>5, <1>6, <2>1, <2>5 DEF Held
  <2>7. RecordFine(d, y)
    BY <1>2, <1>5, <2>5, <2>6 DEF RecordFine
  <2>8. \A g : SlotKept(g, x) => SlotKept(g, y)
    BY <2>5, KeptByRecord
  <2> QED BY <1>1, <1>5, <2>4, <2>5, <2>7, <2>8, DeviceStep
<1>9. CASE end \in {"no", "closed"}
  <2>1. LiveAfter(d, end) = x.live
    BY <1>1, <1>6, <1>9 DEF LiveAfter
  <2>3. va' = [va EXCEPT ![d].live = x.live]
    BY <1>9, <2>1 DEF Ends
  <2>2. va' = [va EXCEPT ![d] = x]
    BY <1>1, <1>2, <2>3 DEF VaRecords
  <2> QED BY <1>1, <1>2, <1>5, <2>2, DeviceStep
<1> QED BY <1>7, <1>8, <1>9 DEF Ends

LEMMA UnlockStep ==
    ASSUME AccInd, NEW d \in VaDevices, NEW phrase, VaUnlock(d, phrase)
    PROVE  AccInd'
<1>1. PICK h \in Readable(d) : \E end \in UnlockEnds(d, h, phrase) :
        /\ va[d].st = "locked" /\ va[d].job = None /\ Ends(d, h, end)
        /\ UNCHANGED <<vaFile, vaOps, hist>>
  BY DEF VaUnlock
<1>2. UNCHANGED <<vaFile, vaOps, vaWant, vaStale, vaHole, vaExcused>>
  BY <1>1 DEF hist
<1>3. PICK end : va[d].st = "locked" /\ va[d].job = None /\ Ends(d, h, end)
  BY <1>1
<1> QED BY <1>2, <1>3, EndsStep

LEMMA PasskeyStep ==
    ASSUME AccInd, NEW d \in VaDevices, VaPasskey(d)
    PROVE  AccInd'
<1>1. PICK h \in Readable(d) : \E end \in PasskeyEnds(h) :
        /\ va[d].st = "locked" /\ va[d].job = None /\ Ends(d, h, end)
        /\ UNCHANGED <<vaFile, vaOps, hist>>
  BY DEF VaPasskey
<1>2. UNCHANGED <<vaFile, vaOps, vaWant, vaStale, vaHole, vaExcused>>
  BY <1>1 DEF hist
<1>3. PICK end : va[d].st = "locked" /\ va[d].job = None /\ Ends(d, h, end)
  BY <1>1
<1> QED BY <1>2, <1>3, EndsStep

LEMMA AddPasskeyStep ==
    ASSUME AccInd, NEW d \in VaDevices, VaAddPasskey(d)
    PROVE  AccInd'
<1>1. PICK x : x = va[d]
  OBVIOUS
<1>2. RecordFine(d, x) /\ x \in VaRecords /\ va = [e \in VaDevices |-> va[e]]
  BY <1>1 DEF AccInd, RecordFine
<1>3. PICK y : y = [x EXCEPT !.prf = TRUE]
  OBVIOUS
<1>4. va' = [va EXCEPT ![d] = y] /\ UNCHANGED <<vaFile, vaOps, vaWant, vaStale, vaHole, vaExcused>>
  BY <1>1, <1>2, <1>3 DEF VaAddPasskey, hist
<1>5. /\ y \in VaRecords /\ y.job = x.job /\ y.id = x.id /\ y.key = x.key /\ y.st = x.st
      /\ y.hdr = x.hdr /\ y.cache = x.cache /\ y.live = x.live /\ y.thrown = x.thrown
  BY <1>2, <1>3 DEF VaRecords
<1>6. Held(y) = Held(x) /\ (x.job # None /\ JobFine(d, x, x.job) => JobFine(d, y, x.job))
  BY <1>5 DEF Held, JobFine
<1>7. RecordFine(d, y)
  BY <1>2, <1>5, <1>6 DEF RecordFine
<1>8. \A g : SlotKept(g, x) => SlotKept(g, y)
  BY <1>5, KeptByRecord
<1> QED BY <1>1, <1>4, <1>5, <1>7, <1>8, DeviceStep

\* A page without an operation goes back to the locked vault, or to recovery.
TurnRecord(x, st, l) == [x EXCEPT !.st = st, !.hdr = None, !.live = l]
LEMMA TurnFine ==
    ASSUME NEW d, NEW x, RecordFine(d, x), x.job = None, NEW st \in {"locked", "recovering"},
           NEW l, l = x.thrown + (IF st = "locked" THEN 0 ELSE 1)
    PROVE  /\ RecordFine(d, TurnRecord(x, st, l)) /\ TurnRecord(x, st, l).job = x.job
           /\ TurnRecord(x, st, l).id = x.id /\ TurnRecord(x, st, l).key = x.key
<1>1. x \in VaRecords /\ x.thrown \in Nat /\ l \in Nat
  BY DEF RecordFine, VaRecords
<1>2. PICK y : y = TurnRecord(x, st, l)
  OBVIOUS
<1>3. /\ y \in VaRecords /\ y.st = st /\ y.hdr = None /\ y.cache = x.cache /\ y.live = l
      /\ y.job = x.job /\ y.id = x.id /\ y.key = x.key /\ y.thrown = x.thrown
  BY <1>1, <1>2, ZenonT(40) DEF VaRecords, TurnRecord
<1>4. Held(y) = IF st = "locked" THEN 0 ELSE 1
  BY <1>3 DEF Held
<1>5. RecordFine(d, y)
  BY <1>3, <1>4 DEF RecordFine
<1> QED BY <1>2, <1>3, <1>5

LEMMA TurnStep ==
    ASSUME AccInd, NEW d \in VaDevices,
           VaLock(d) \/ VaLeave(d) \/ \E key \in 0..vaOps : VaVerify(d, key)
    PROVE  AccInd'
<1>1. PICK x : x = va[d]
  OBVIOUS
<1>2. RecordFine(d, x) /\ x \in VaRecords /\ va = [e \in VaDevices |-> va[e]]
  BY <1>1 DEF AccInd, RecordFine
<1>3. x.job = None /\ UNCHANGED <<vaFile, vaOps, vaWant, vaStale, vaHole, vaExcused>>
  BY <1>1 DEF VaLock, VaLeave, VaVerify, hist
<1>4. PICK st : st = IF x.st = "locked" THEN "recovering" ELSE "locked"
  OBVIOUS
<1>5. PICK l : l = x.thrown + (IF st = "locked" THEN 0 ELSE 1)
  OBVIOUS
<1>6. PICK y : y = TurnRecord(x, st, l)
  OBVIOUS
<1>7. /\ x.thrown \in Nat /\ x.live = x.thrown + (IF x.st = "locked" THEN 0 ELSE 1)
      /\ x.st # "open" => x.hdr = None
  BY <1>2, <1>3 DEF RecordFine, VaRecords, Held
<1>8. va' = [va EXCEPT ![d] = y]
  <2>1. CASE VaLock(d)
    <3>1. x.st = "open" /\ va' = [va EXCEPT ![d].st = "locked", ![d].hdr = None, ![d].live = @ - 1]
      BY <1>1, <2>1 DEF VaLock
    <3>2. x.live - 1 = l /\ st = "locked"
      BY <1>4, <1>5, <1>7, <3>1
    <3> QED BY <1>1, <1>2, <1>6, <3>1, <3>2 DEF VaRecords, TurnRecord
  <2>2. CASE VaLeave(d)
    <3>1. x.st = "recovering" /\ va' = [va EXCEPT ![d].st = "locked", ![d].live = @ - 1]
      BY <1>1, <2>2 DEF VaLeave
    <3>2. x.live - 1 = l /\ st = "locked" /\ x.hdr = None
      BY <1>4, <1>5, <1>7, <3>1
    <3> QED BY <1>1, <1>2, <1>6, <3>1, <3>2 DEF VaRecords, TurnRecord
  <2>3. CASE \E key \in 0..vaOps : VaVerify(d, key)
    <3>1. x.st = "locked" /\ va' = [va EXCEPT ![d].st = "recovering", ![d].live = @ + 1]
      BY <1>1, <2>3 DEF VaVerify
    <3>2. x.live + 1 = l /\ st = "recovering" /\ x.hdr = None
      BY <1>4, <1>5, <1>7, <3>1
    <3> QED BY <1>1, <1>2, <1>6, <3>1, <3>2 DEF VaRecords, TurnRecord
  <2> QED BY <2>1, <2>2, <2>3
<1>9. RecordFine(d, y) /\ y.job = x.job /\ y.id = x.id /\ y.key = x.key
  <2>1. st \in {"locked", "recovering"}
    BY <1>4
  <2> QED BY <1>2, <1>3, <1>5, <1>6, <2>1, TurnFine
<1>10. \A g : SlotKept(g, x) => SlotKept(g, y)
  BY <1>9, KeptByRecord
<1> QED BY <1>1, <1>3, <1>8, <1>9, <1>10, DeviceStep
-----------------------------------------------------------------------------
(***************************************************************************)
(* An operation begins.                                                    *)
(***************************************************************************)
LEMMA BegunFine ==
    ASSUME NEW d \in VaDevices, NEW x, RecordFine(d, x), x.job = None, NEW j \in VaJobs,
           NEW key, key \in VaIds \cup {None}, x.id # None => key # None,
           NEW live, live = IF j.op = "enrol" THEN 1 ELSE 0,
           GoodHeader(j.h),
           j.op = "enrol" => x.st = "locked" /\ x.id = None /\ j.h.count < VaSlots,
           j.op = "recover" => x.st = "recovering",
           j.op \in {"save", "change", "revoke", "migrate"} => x.st = "open",
           j.op \in {"enrol", "recover"} => j.id = <<d, j.n>> /\ key = j.id,
           j.op = "migrate" => j.id = x.id /\ key = <<d, j.n>> /\ j.key # None
    PROVE  RecordFine(d, BegunRecord(x, j, key, live))
<1>1. x \in VaRecords /\ x.live \in Nat /\ x.thrown \in Nat /\ live \in {0, 1} /\ j # None
  BY AccessAssumption DEF RecordFine, VaRecords
<1>2. PICK l : l = x.live + live
  OBVIOUS
<1>3. l \in Nat
  BY <1>1, <1>2
<1>4. PICK y : y = BegunRecord(x, j, key, live)
  OBVIOUS
<1>5. /\ y \in VaRecords /\ y.st = x.st /\ y.hdr = x.hdr /\ y.cache = x.cache /\ y.live = l
      /\ y.job = j /\ y.id = x.id /\ y.key = key /\ y.thrown = x.thrown
  BY <1>1, <1>2, <1>3, <1>4, ZenonT(40) DEF VaRecords, BegunRecord
<1>6. Held(x) \in {0, 1} /\ Held(y) = Held(x) + live
  BY <1>1, <1>5 DEF Held
<1>7. y.live = y.thrown + Held(y)
  BY <1>1, <1>2, <1>5, <1>6 DEF RecordFine
<1>8. JobFine(d, y, j)
  BY <1>5 DEF JobFine
<1> QED BY <1>4, <1>5, <1>7, <1>8 DEF RecordFine

LEMMA JobType ==
    ASSUME AccInd, NEW d \in VaDevices, NEW op \in Ops, NEW h, GoodHeader(h),
           NEW id, id \in VaIds \cup {None}
    PROVE  /\ Job(op, h, id, d) \in VaJobs
           /\ Job(op, h, id, d).op = op /\ Job(op, h, id, d).n = vaOps + 1
           /\ Job(op, h, id, d).h = h /\ Job(op, h, id, d).ver = vaFile.ver
           /\ Job(op, h, id, d).id = id /\ Job(op, h, id, d).key = va[d].key
<1>1. vaOps + 1 \in Nat /\ vaFile.ver \in Nat /\ h \in VaHeaders
  BY AccessAssumption DEF AccInd, JobsFine, GoodHeader
<1>2. va[d].key \in VaIds \cup {None}
  BY DEF AccInd, RecordFine, VaRecords
<1> QED BY <1>1, <1>2 DEF Job, VaJobs

\* What a device's record says before its operations begin.
LEMMA RecordFacts ==
    ASSUME AccInd, NEW d \in VaDevices
    PROVE  /\ RecordFine(d, va[d]) /\ GoodHeader(vaFile.h)
           /\ va[d].id \in VaIds \cup {None} /\ va[d].key \in VaIds \cup {None}
           /\ va[d].id # None => va[d].key # None
           /\ va[d].st = "open" => GoodHeader(va[d].hdr)
           /\ <<d, vaOps + 1>> \in VaIds /\ None \notin VaIds
<1>1. RecordFine(d, va[d]) /\ GoodHeader(vaFile.h) /\ vaOps + 1 \in Nat
  BY AccessAssumption DEF AccInd, JobsFine
<1>2. va[d] \in VaRecords
  BY <1>1 DEF RecordFine
<1> QED BY <1>1, <1>2, AccessAssumption DEF RecordFine, VaRecords, VaIds

\* Operations of an open vault that leave the device's key alone.
LEMMA OpenBegins ==
    ASSUME AccInd, NEW d \in VaDevices, NEW op \in {"save", "change", "revoke"},
           NEW h, GoodHeader(h), op = "revoke" => h = vaFile.h,
           NEW id, id \in VaIds \cup {None}, va[d].st = "open",
           Begins(d, Job(op, h, id, d), va[d].key, 0)
    PROVE  AccInd'
<1>1. PICK j : j = Job(op, h, id, d)
  OBVIOUS
<1>2. op \in Ops
  BY DEF Ops
<1>3. /\ j \in VaJobs /\ j.op = op /\ j.n = vaOps + 1 /\ j.h = h /\ j.ver = vaFile.ver
      /\ j.id = id /\ j.key = va[d].key
  BY <1>1, <1>2, JobType
<1>4. va[d].job = None
  BY DEF Begins
<1>5. RecordFine(d, BegunRecord(va[d], j, va[d].key, 0))
  BY <1>3, <1>4, RecordFacts, BegunFine
<1>6. j.op \in Conditional => j.h = vaFile.h
  BY <1>3 DEF Conditional
<1> QED BY <1>1, <1>3, <1>5, <1>6, BeginStep

LEMMA SaveStep ==
    ASSUME AccInd, NEW d \in VaDevices, VaSave(d)
    PROVE  AccInd'
<1>1. PICK h \in {vaFile.h, va[d].hdr} :
         va[d].st = "open" /\ Begins(d, Job("save", h, va[d].id, d), va[d].key, 0)
  BY DEF VaSave
<1>2. GoodHeader(h) /\ va[d].id \in VaIds \cup {None}
  BY <1>1, RecordFacts
<1> QED BY <1>1, <1>2, OpenBegins

LEMMA ChangeStep ==
    ASSUME AccInd, NEW d \in VaDevices, VaChange(d)
    PROVE  AccInd'
<1>1. va[d].st = "open" /\ Begins(d, Job("change", vaFile.h, va[d].id, d), va[d].key, 0)
  BY DEF VaChange
<1>2. GoodHeader(vaFile.h) /\ va[d].id \in VaIds \cup {None}
  BY RecordFacts
<1> QED BY <1>1, <1>2, OpenBegins

LEMMA RevokeStep ==
    ASSUME AccInd, NEW d \in VaDevices, NEW i \in 1..VaSlots, VaRevoke(d, i)
    PROVE  AccInd'
<1>1. PICK id : id = vaFile.h.slots[i].id
  OBVIOUS
<1>2. /\ va[d].st = "open" /\ Begins(d, Job("revoke", vaFile.h, id, d), va[d].key, 0)
      /\ i \in Filled(vaFile.h)
  BY <1>1 DEF VaRevoke
<1>3. GoodHeader(vaFile.h)
  BY RecordFacts
<1>4. vaFile.h.slots[i] \in DeviceSlots
  BY <1>2, <1>3 DEF GoodHeader, VaHeaders, VaSlotArrays, Filled
<1>5. id \in VaIds \cup {None}
  BY <1>1, <1>4 DEF DeviceSlots
<1> QED BY <1>2, <1>3, <1>5, OpenBegins

LEMMA EnrolStep ==
    ASSUME AccInd, NEW d \in VaDevices, VaEnrol(d)
    PROVE  AccInd'
<1>1. PICK id : id = <<d, vaOps + 1>>
  OBVIOUS
<1>2. PICK j : j = Job("enrol", vaFile.h, id, d)
  OBVIOUS
<1>3. va[d].st = "locked" /\ va[d].id = None /\ vaFile.h.count < VaSlots /\ Begins(d, j, id, 1)
  BY <1>1, <1>2 DEF VaEnrol
<1>4. GoodHeader(vaFile.h) /\ id \in VaIds \cup {None} /\ RecordFine(d, va[d]) /\ "enrol" \in Ops
  BY <1>1, RecordFacts DEF Ops
<1>5. /\ j \in VaJobs /\ j.op = "enrol" /\ j.n = vaOps + 1 /\ j.h = vaFile.h
      /\ j.ver = vaFile.ver /\ j.id = id
  BY <1>2, <1>4, JobType
<1>6. va[d].job = None
  BY <1>3 DEF Begins
<1>7. RecordFine(d, BegunRecord(va[d], j, id, 1))
  BY <1>1, <1>3, <1>4, <1>5, <1>6, BegunFine
<1> QED BY <1>1, <1>3, <1>5, <1>7, BeginStep

LEMMA RecoverStep ==
    ASSUME AccInd, NEW d \in VaDevices, VaRecover(d)
    PROVE  AccInd'
<1>1. PICK id : id = <<d, vaOps + 1>>
  OBVIOUS
<1>2. PICK j : j = Job("recover", vaFile.h, id, d)
  OBVIOUS
<1>3. va[d].st = "recovering" /\ Begins(d, j, id, 0)
  BY <1>1, <1>2 DEF VaRecover
<1>4. /\ GoodHeader(vaFile.h) /\ id \in VaIds \cup {None} /\ id # None /\ RecordFine(d, va[d])
      /\ "recover" \in Ops
  BY <1>1, RecordFacts DEF Ops
<1>5. /\ j \in VaJobs /\ j.op = "recover" /\ j.n = vaOps + 1 /\ j.h = vaFile.h
      /\ j.ver = vaFile.ver /\ j.id = id
  BY <1>2, <1>4, JobType
<1>6. va[d].job = None
  BY <1>3 DEF Begins
<1>7. RecordFine(d, BegunRecord(va[d], j, id, 0))
  BY <1>1, <1>3, <1>4, <1>5, <1>6, BegunFine
<1> QED BY <1>1, <1>3, <1>5, <1>7, BeginStep

LEMMA MigrateStep ==
    ASSUME AccInd, NEW d \in VaDevices, VaMigrate(d)
    PROVE  AccInd'
<1>1. PICK key : key = <<d, vaOps + 1>>
  OBVIOUS
<1>2. PICK j : j = Job("migrate", vaFile.h, va[d].id, d)
  OBVIOUS
<1>3. va[d].st = "open" /\ va[d].key # None /\ Begins(d, j, key, 0)
  BY <1>1, <1>2 DEF VaMigrate
<1>4. /\ GoodHeader(vaFile.h) /\ key \in VaIds \cup {None} /\ key # None /\ RecordFine(d, va[d])
      /\ va[d].id \in VaIds \cup {None} /\ "migrate" \in Ops
  BY <1>1, RecordFacts DEF Ops
<1>5. /\ j \in VaJobs /\ j.op = "migrate" /\ j.n = vaOps + 1 /\ j.h = vaFile.h
      /\ j.ver = vaFile.ver /\ j.id = va[d].id /\ j.key = va[d].key
  BY <1>2, <1>4, JobType
<1>6. va[d].job = None
  BY <1>3 DEF Begins
<1>7. RecordFine(d, BegunRecord(va[d], j, key, 0))
  BY <1>1, <1>3, <1>4, <1>5, <1>6, BegunFine
<1> QED BY <1>1, <1>3, <1>5, <1>7, BeginStep
-----------------------------------------------------------------------------
(***************************************************************************)
(* An operation ends.                                                      *)
(***************************************************************************)
LEMMA JobFacts ==
    ASSUME AccInd, NEW d \in VaDevices, va[d].job # None
    PROVE  /\ va[d] \in VaRecords /\ va[d].job \in VaJobs /\ va[d].job.op \in Ops
           /\ JobFine(d, va[d], va[d].job) /\ RecordFine(d, va[d])
           /\ va[d].live \in Nat /\ va[d].thrown \in Nat
           /\ va[d].live = va[d].thrown + Held(va[d])
           /\ Held(va[d]) = 1
<1>1. RecordFine(d, va[d]) /\ va[d] \in VaRecords
  BY DEF AccInd, RecordFine
<1>2. va[d].job \in VaJobs /\ va[d].live \in Nat /\ va[d].thrown \in Nat
  BY <1>1 DEF VaRecords
<1>3. va[d].job.op \in Ops
  BY <1>2 DEF VaJobs
<1>4. JobFine(d, va[d], va[d].job)
  BY <1>1 DEF RecordFine
<1>5. Held(va[d]) = 1
  BY <1>3, <1>4 DEF JobFine, Ops, Held
<1> QED BY <1>1, <1>2, <1>3, <1>4, <1>5 DEF RecordFine

LEMMA FailedFine ==
    ASSUME AccInd, NEW d \in VaDevices, va[d].job # None
    PROVE  /\ RecordFine(d, Failed(d)) /\ Failed(d).job = None /\ Failed(d).id = va[d].id
           /\ va[d].job.op \in {"save", "change", "revoke"} => Failed(d).key = va[d].key
           /\ va[d].job.op = "migrate" => Failed(d).key = va[d].job.key
<1>1. PICK x : x = va[d]
  OBVIOUS
<1>2. PICK j : j = x.job
  OBVIOUS
<1>3. /\ x \in VaRecords /\ j \in VaJobs /\ j.op \in Ops /\ JobFine(d, x, j) /\ RecordFine(d, x)
      /\ x.live \in Nat /\ x.thrown \in Nat /\ x.live = x.thrown + 1 /\ j # None
  BY <1>1, <1>2, JobFacts
<1>4. PICK y : y = Failed(d)
  OBVIOUS
<1>5. CASE j.op \in {"save", "change", "revoke"}
  <2>1. y = [x EXCEPT !.job = None]
    BY <1>1, <1>2, <1>4, <1>5 DEF Failed
  <2>2. /\ y \in VaRecords /\ y.st = x.st /\ y.hdr = x.hdr /\ y.cache = x.cache
        /\ y.live = x.live /\ y.job = None /\ y.id = x.id /\ y.key = x.key
        /\ y.thrown = x.thrown
    BY <1>3, <2>1 DEF VaRecords
  <2>3. Held(y) = 1
    BY <1>3, <1>5, <2>2 DEF Held, JobFine
  <2>4. RecordFine(d, y)
    BY <1>3, <2>2, <2>3 DEF RecordFine
  <2> QED BY <1>1, <1>2, <1>4, <1>5, <2>2, <2>4
<1>6. CASE j.op = "migrate"
  <2>1. y = [x EXCEPT !.job = None, !.key = j.key]
    BY <1>1, <1>2, <1>4, <1>6 DEF Failed
  <2>2. j.key \in VaIds \cup {None} /\ j.key # None
    BY <1>3, <1>6 DEF VaJobs, JobFine
  <2>3. /\ y \in VaRecords /\ y.st = x.st /\ y.hdr = x.hdr /\ y.cache = x.cache
        /\ y.live = x.live /\ y.job = None /\ y.id = x.id /\ y.key = j.key
        /\ y.thrown = x.thrown
    BY <1>3, <2>1, <2>2 DEF VaRecords
  <2>4. Held(y) = 1
    BY <1>3, <1>6, <2>3 DEF Held, JobFine
  <2>5. RecordFine(d, y)
    BY <1>3, <2>2, <2>3, <2>4 DEF RecordFine
  <2> QED BY <1>1, <1>2, <1>4, <1>6, <2>3, <2>5
<1>7. CASE j.op = "enrol"
  <2>1. y = [x EXCEPT !.job = None, !.key = None, !.live = x.thrown]
    <3>1. y = [x EXCEPT !.job = None, !.key = None, !.live = x.live - 1]
      BY <1>1, <1>2, <1>3, <1>4, <1>7 DEF Failed
    <3>2. x.live - 1 = x.thrown
      BY <1>3
    <3> QED BY <3>1, <3>2
  <2>2. /\ y \in VaRecords /\ y.st = x.st /\ y.hdr = x.hdr /\ y.cache = x.cache
        /\ y.live = x.thrown /\ y.job = None /\ y.id = x.id /\ y.thrown = x.thrown
    BY <1>3, <2>1 DEF VaRecords
  <2>3. Held(y) = 0 /\ y.id = None
    BY <1>3, <1>7, <2>2 DEF Held, JobFine
  <2>4. RecordFine(d, y)
    BY <1>3, <2>2, <2>3 DEF RecordFine
  <2> QED BY <1>1, <1>2, <1>4, <1>7, <2>2, <2>4
<1>8. CASE j.op = "recover"
  <2>1. y = [x EXCEPT !.job = None, !.st = "locked", !.live = x.thrown]
    <3>1. y = [x EXCEPT !.job = None, !.st = "locked", !.live = x.live - 1]
      BY <1>1, <1>2, <1>3, <1>4, <1>8 DEF Failed
    <3>2. x.live - 1 = x.thrown
      BY <1>3
    <3> QED BY <3>1, <3>2
  <2>2. /\ y \in VaRecords /\ y.st = "locked" /\ y.hdr = x.hdr /\ y.cache = x.cache
        /\ y.live = x.thrown /\ y.job = None /\ y.id = x.id /\ y.key = x.key
        /\ y.thrown = x.thrown
    BY <1>3, <2>1 DEF VaRecords
  <2>3. Held(y) = 0 /\ x.st = "recovering"
    BY <1>3, <1>8, <2>2 DEF Held, JobFine
  <2>4. RecordFine(d, y)
    BY <1>3, <2>2, <2>3 DEF RecordFine
  <2> QED BY <1>1, <1>2, <1>4, <1>8, <2>2, <2>4
<1> QED BY <1>3, <1>5, <1>6, <1>7, <1>8 DEF Ops

LEMMA CrashedFine ==
    ASSUME AccInd, NEW d \in VaDevices
    PROVE  /\ RecordFine(d, Crashed(d)) /\ Crashed(d).job = None
           /\ Crashed(d).id = va[d].id /\ Crashed(d).key = va[d].key
<1>1. PICK x : x = va[d]
  OBVIOUS
<1>2. x \in VaRecords /\ RecordFine(d, x)
  BY <1>1 DEF AccInd, RecordFine
<1>3. PICK y : y = Crashed(d)
  OBVIOUS
<1>4. /\ y \in VaRecords /\ y.st = "locked" /\ y.hdr = None /\ y.cache = x.cache
      /\ y.live = 0 /\ y.job = None /\ y.id = x.id /\ y.key = x.key /\ y.thrown = 0
  BY <1>1, <1>2, <1>3 DEF Crashed, VaRecords
<1>5. Held(y) = 0
  BY <1>4 DEF Held
<1>6. RecordFine(d, y)
  BY <1>2, <1>4, <1>5 DEF RecordFine
<1> QED BY <1>1, <1>3, <1>4, <1>6

LEMMA ConfirmedFine ==
    ASSUME AccInd, NEW d \in VaDevices, va[d].job # None
    PROVE  /\ RecordFine(d, Confirmed(d)) /\ Confirmed(d).job = None
           /\ Confirmed(d).key = va[d].key
           /\ va[d].job.op \in {"save", "change", "revoke", "migrate"} => Confirmed(d).id = va[d].id
           /\ va[d].job.op \in {"enrol", "recover"} => Confirmed(d).id = va[d].job.id
<1>1. PICK x : x = va[d]
  OBVIOUS
<1>2. PICK j : j = x.job
  OBVIOUS
<1>3. /\ x \in VaRecords /\ j \in VaJobs /\ j.op \in Ops /\ JobFine(d, x, j) /\ RecordFine(d, x)
      /\ x.live \in Nat /\ x.thrown \in Nat /\ x.live = x.thrown + 1 /\ j # None
  BY <1>1, <1>2, JobFacts
<1>4. PICK y : y = Confirmed(d)
  OBVIOUS
<1>5. CASE j.op \in {"save", "change", "revoke", "migrate"}
  <2>1. y = [x EXCEPT !.job = None]
    BY <1>1, <1>2, <1>4, <1>5 DEF Confirmed
  <2>2. /\ y \in VaRecords /\ y.st = x.st /\ y.hdr = x.hdr /\ y.cache = x.cache
        /\ y.live = x.live /\ y.job = None /\ y.id = x.id /\ y.key = x.key
        /\ y.thrown = x.thrown
    BY <1>3, <2>1 DEF VaRecords
  <2>3. Held(y) = 1
    BY <1>3, <1>5, <2>2 DEF Held, JobFine
  <2>4. RecordFine(d, y)
    BY <1>3, <2>2, <2>3 DEF RecordFine
  <2> QED BY <1>1, <1>2, <1>4, <1>5, <2>2, <2>4
<1>6. CASE j.op \in {"enrol", "recover"}
  <2>1. j.id = <<d, j.n>> /\ x.key = j.id /\ j.n \in Nat
    BY <1>3, <1>6 DEF JobFine, VaJobs
  <2>2. j.id \in VaIds /\ j.id[1] = d /\ j.id # None
    BY <2>1, AccessAssumption DEF VaIds
  <2>3. CASE j.op = "enrol"
    <3>1. y = [x EXCEPT !.job = None, !.id = j.id, !.st = "adopting"]
      BY <1>1, <1>2, <1>4, <2>3 DEF Confirmed
    <3>2. /\ y \in VaRecords /\ y.st = "adopting" /\ y.hdr = x.hdr /\ y.cache = x.cache
          /\ y.live = x.live /\ y.job = None /\ y.id = j.id /\ y.key = x.key
          /\ y.thrown = x.thrown
      BY <1>3, <2>2, <3>1 DEF VaRecords
    <3>3. Held(y) = 1 /\ x.st = "locked"
      BY <1>3, <2>3, <3>2 DEF Held, JobFine
    <3>4. RecordFine(d, y)
      BY <1>3, <2>1, <2>2, <3>2, <3>3 DEF RecordFine
    <3> QED BY <1>1, <1>2, <1>4, <2>3, <3>2, <3>4
  <2>4. CASE j.op = "recover"
    <3>1. y = [x EXCEPT !.job = None, !.st = "locked", !.id = j.id, !.prf = FALSE,
                        !.live = x.thrown]
      <4>1. y = [x EXCEPT !.job = None, !.st = "locked", !.id = j.id, !.prf = FALSE,
                          !.live = x.live - 1]
        BY <1>1, <1>2, <1>4, <2>4 DEF Confirmed
      <4>2. x.live - 1 = x.thrown
        BY <1>3
      <4> QED BY <4>1, <4>2
    <3>2. /\ y \in VaRecords /\ y.st = "locked" /\ y.hdr = x.hdr /\ y.cache = x.cache
          /\ y.live = x.thrown /\ y.job = None /\ y.id = j.id /\ y.key = x.key
          /\ y.thrown = x.thrown
      BY <1>3, <2>2, <3>1 DEF VaRecords
    <3>3. Held(y) = 0 /\ x.st = "recovering"
      BY <1>3, <2>4, <3>2 DEF Held, JobFine
    <3>4. RecordFine(d, y)
      BY <1>3, <2>1, <2>2, <3>2, <3>3 DEF RecordFine
    <3> QED BY <1>1, <1>2, <1>4, <2>4, <3>2, <3>4
  <2> QED BY <1>6, <2>3, <2>4
<1> QED BY <1>3, <1>5, <1>6 DEF Ops

LEMMA FailStep ==
    ASSUME AccInd, NEW d \in VaDevices, VaFail(d)
    PROVE  AccInd'
<1>1. PICK y : y = Failed(d)
  OBVIOUS
<1>2. /\ va[d].job # None /\ va' = [va EXCEPT ![d] = y] /\ vaExcused \subseteq vaExcused'
      /\ UNCHANGED <<vaFile, vaOps, vaWant, vaStale, vaHole>>
      /\ va[d].job.op = "recover" => d \in vaExcused'
  BY <1>1 DEF VaFail
<1>3. /\ RecordFine(d, y) /\ y.job = None /\ y.id = va[d].id
      /\ va[d].job.op \in {"save", "change", "revoke"} => y.key = va[d].key
      /\ va[d].job.op = "migrate" => y.key = va[d].job.key
  BY <1>1, <1>2, FailedFine
<1>4. va[d].job.op \in Ops /\ JobFine(d, va[d], va[d].job)
  BY <1>2, JobFacts
<1>5. d \in vaExcused' \/ \A h : SlotKept(h, va[d]) => SlotKept(h, y)
  <2>1. CASE va[d].job.op \in {"save", "change", "revoke"}
    BY <1>2, <1>3, <2>1 DEF SlotKept, Rekeys
  <2>2. CASE va[d].job.op = "migrate"
    BY <1>2, <1>3, <2>2 DEF SlotKept
  <2>3. CASE va[d].job.op = "enrol"
    BY <1>3, <1>4, <2>3 DEF SlotKept, JobFine
  <2>4. CASE va[d].job.op = "recover"
    BY <1>2, <2>4
  <2> QED BY <1>4, <2>1, <2>2, <2>3, <2>4 DEF Ops
<1> QED BY <1>2, <1>3, <1>5, DeviceStep

LEMMA CrashStep ==
    ASSUME AccInd, NEW d \in VaDevices, VaCrash(d)
    PROVE  AccInd'
<1>1. PICK y : y = Crashed(d)
  OBVIOUS
<1>2. /\ va' = [va EXCEPT ![d] = y] /\ vaExcused \subseteq vaExcused'
      /\ UNCHANGED <<vaFile, vaOps, vaWant, vaStale, vaHole>>
      /\ va[d].job # None /\ va[d].job.op \in Rekeys => d \in vaExcused'
  BY <1>1 DEF VaCrash
<1>3. RecordFine(d, y) /\ y.job = None /\ y.id = va[d].id /\ y.key = va[d].key
  BY <1>1, CrashedFine
<1>4. d \in vaExcused' \/ \A h : SlotKept(h, va[d]) => SlotKept(h, y)
  BY <1>2, <1>3 DEF SlotKept
<1> QED BY <1>2, <1>3, <1>4, DeviceStep

LEMMA AdoptStep ==
    ASSUME AccInd, NEW d \in VaDevices, VaAdopt(d)
    PROVE  AccInd'
<1>1. PICK x : x = va[d]
  OBVIOUS
<1>2. RecordFine(d, x) /\ x \in VaRecords /\ va = [e \in VaDevices |-> va[e]]
  BY <1>1 DEF AccInd, RecordFine
<1>3. x.st = "adopting" /\ UNCHANGED <<vaFile, vaOps, vaWant, vaStale, vaHole, vaExcused>>
  BY <1>1 DEF VaAdopt, hist
<1>4. x.job = None
  <2> SUFFICES ASSUME x.job # None PROVE FALSE
    OBVIOUS
  <2>1. JobFine(d, x, x.job) /\ x.job.op \in Ops
    BY <1>1, JobFacts
  <2> QED BY <1>3, <2>1 DEF JobFine, Ops
<1>5. x.thrown \in Nat /\ x.live = x.thrown + 1 /\ x.live \in Nat
  BY <1>2, <1>3, <1>4 DEF RecordFine, VaRecords, Held
<1>6. GoodHeader(vaFile.h) /\ vaFile.h # None
  BY RecordFacts, AccessAssumption DEF GoodHeader
<1>7. CASE va' = Opened1(d, vaFile.h)
  <2>1. PICK h : h = vaFile.h
    OBVIOUS
  <2>2. PICK l : l = x.live
    OBVIOUS
  <2>3. PICK y : y = OpenRecord(x, h, h, l)
    OBVIOUS
  <2>4. va' = [va EXCEPT ![d] = y]
    BY <1>1, <1>2, <1>7, <2>1, <2>2, <2>3 DEF Opened1, OpenRecord, VaRecords
  <2>5. RecordFine(d, y) /\ y.job = x.job /\ y.id = x.id /\ y.key = x.key
    <3>1. /\ x.st \in {"locked", "adopting"} /\ l = x.thrown + 1
          /\ GoodHeader(h) /\ h # None
      BY <1>3, <1>5, <1>6, <2>1, <2>2
    <3>2. PICK c : c = h
      OBVIOUS
    <3>3. c \in {h, x.cache} /\ y = OpenRecord(x, h, c, l)
      BY <2>3, <3>2
    <3> QED BY <1>2, <1>4, <3>1, <3>3, OpenedFine
  <2>6. \A g : SlotKept(g, x) => SlotKept(g, y)
    BY <2>5, KeptByRecord
  <2> QED BY <1>1, <1>3, <2>4, <2>5, <2>6, DeviceStep
<1>8. CASE va' = [va EXCEPT ![d] = Dropped(d)]
  <2>1. PICK y : y = Dropped(d)
    OBVIOUS
  <2>2. y = [x EXCEPT !.st = "locked", !.id = None, !.key = None, !.live = x.thrown]
    <3>1. y = [x EXCEPT !.st = "locked", !.id = None, !.key = None, !.live = x.live - 1]
      BY <1>1, <2>1 DEF Dropped
    <3>2. x.live - 1 = x.thrown
      BY <1>5
    <3> QED BY <3>1, <3>2
  <2>3. /\ y \in VaRecords /\ y.st = "locked" /\ y.hdr = x.hdr /\ y.cache = x.cache
        /\ y.live = x.thrown /\ y.job = None /\ y.id = None /\ y.thrown = x.thrown
    BY <1>2, <1>4, <1>5, <2>2 DEF VaRecords
  <2>4. Held(y) = 0
    BY <2>3 DEF Held
  <2>5. RecordFine(d, y)
    BY <1>2, <1>3, <1>5, <2>3, <2>4 DEF RecordFine
  <2>6. \A g : SlotKept(g, va[d]) => SlotKept(g, y)
    BY <2>3 DEF SlotKept
  <2> QED BY <1>3, <1>8, <2>1, <2>3, <2>5, <2>6, DeviceStep
<1> QED BY <1>7, <1>8 DEF VaAdopt
-----------------------------------------------------------------------------
(***************************************************************************)
(* An upload is stored.                                                    *)
(***************************************************************************)

\* The device after its upload: it finds its new slot, or is excused.
LEMMA EndsFine ==
    ASSUME AccInd, NEW d \in VaDevices, va[d].job # None, NEW end \in {"ok", "lost", "crash"},
           NEW y, y = CASE end = "ok" -> Confirmed(d)
                        [] end = "lost" -> Failed(d)
                        [] end = "crash" -> Crashed(d)
    PROVE  /\ RecordFine(d, y) /\ y.job = None
           /\ va[d].job.op \notin Rekeys => y.id = va[d].id /\ y.key = va[d].key
           /\ end = "ok" => y.key = va[d].key
           /\ end = "ok" /\ va[d].job.op \in {"enrol", "recover"} => y.id = va[d].job.id
           /\ end = "ok" /\ va[d].job.op = "migrate" => y.id = va[d].id
<1>1. va[d].job.op \in Ops
  BY JobFacts
<1>2. va[d].job.op \notin Rekeys => va[d].job.op \in {"save", "change", "revoke"}
  BY <1>1 DEF Ops, Rekeys
<1>3. CASE end = "ok"
  <2>1. y = Confirmed(d)
    BY <1>3
  <2> QED BY <1>2, <1>3, <2>1, ConfirmedFine
<1>4. CASE end = "lost"
  <2>1. y = Failed(d)
    BY <1>4
  <2> QED BY <1>2, <1>4, <2>1, FailedFine
<1>5. CASE end = "crash"
  <2>1. y = Crashed(d)
    BY <1>5
  <2> QED BY <1>5, <2>1, CrashedFine
<1> QED BY <1>3, <1>4, <1>5

LEMMA StoreStep ==
    ASSUME AccInd, NEW d \in VaDevices, NEW end \in {"ok", "lost", "crash"}, VaStore(d, end)
    PROVE  AccInd'
<1>1. PICK x : x = va[d]
  OBVIOUS
<1>2. PICK j : j = x.job
  OBVIOUS
<1>3. j # None /\ Prepared(j) /\ Accepts(d) /\ Stored(d) /\ vaOps' = vaOps
  BY <1>1, <1>2 DEF VaStore
<1>4. /\ x \in VaRecords /\ j \in VaJobs /\ j.op \in Ops /\ JobFine(d, x, j) /\ RecordFine(d, x)
  BY <1>1, <1>2, <1>3, JobFacts
<1>5. GoodHeader(j.h) /\ (j.op = "enrol" => j.h.count < VaSlots)
  BY <1>4 DEF JobFine
<1>6. PICK P : P = Patched(j, d, j.h)
  OBVIOUS
<1>7. PICK o : o = Operated(j, d, j.h)
  OBVIOUS
<1>8. GoodHeader(P) /\ P.slots = o.slots /\ P.count = o.count
  BY <1>4, <1>5, <1>6, <1>7, PatchGood
<1>9. /\ vaFile' = [h |-> P, ver |-> vaFile.ver + 1]
      /\ vaStale' = (vaStale \/ (~(j.op \in Conditional /\ vaAtomic) /\ j.h # vaFile.h))
      /\ vaHole' = (vaHole \/ (j.op = "enrol" /\ Filled(j.h) # 1..j.h.count))
      /\ vaWant' = IF vaStale' \/ vaHole' THEN vaWant ELSE Patched(j, d, vaWant)
  BY <1>1, <1>2, <1>3, <1>6 DEF Stored
<1>10. PICK y : y = CASE end = "ok" -> Confirmed(d)
                      [] end = "lost" -> Failed(d)
                      [] end = "crash" -> Crashed(d)
  OBVIOUS
<1>11. /\ RecordFine(d, y) /\ y.job = None
       /\ j.op \notin Rekeys => y.id = x.id /\ y.key = x.key
       /\ end = "ok" => y.key = x.key
       /\ end = "ok" /\ j.op \in {"enrol", "recover"} => y.id = j.id
       /\ end = "ok" /\ j.op = "migrate" => y.id = x.id
  BY <1>1, <1>2, <1>3, <1>10, EndsFine
<1>12. va' = [va EXCEPT ![d] = y]
  BY <1>10 DEF VaStore
<1>13. /\ va' = [e \in VaDevices |-> va'[e]] /\ DOMAIN va' = VaDevices
       /\ va'[d] = y /\ \A e \in VaDevices : e # d => va'[e] = va[e]
       /\ Busy(va') = Busy(va) \ {d}
  BY <1>11, <1>12, OneRecord DEF AccInd
<1>14. JobsFine(vaFile, va, vaOps) /\ vaFile.ver \in Nat /\ vaOps \in Nat /\ d \in Busy(va)
  BY <1>1, <1>2, <1>3, AccessAssumption DEF AccInd, JobsFine, Busy
<1>15. JobsFine(vaFile', va', vaOps')
  <2>1. Cardinality(Busy(va')) = Cardinality(Busy(va)) - 1
    <3>1. IsFiniteSet(Busy(va))
      BY BusyFinite
    <3> QED BY <1>13, <1>14, <3>1, FS_RemoveElement
  <2>2. vaFile.ver + 1 + Cardinality(Busy(va')) <= vaOps
    BY <1>14, <2>1, BusyFinite DEF JobsFine
  <2>3. P \in VaHeaders /\ vaFile.ver + 1 \in Nat
    BY <1>8, <1>14 DEF GoodHeader
  <2>4. vaFile' \in [h : VaHeaders, ver : Nat] /\ vaFile'.h = P /\ vaFile'.ver = vaFile.ver + 1
    BY <1>9, <2>3
  <2>5. ASSUME NEW e \in Busy(va')
        PROVE  /\ va'[e].job.n <= vaOps /\ va'[e].job.ver <= vaFile.ver + 1
               /\ va'[e].job.ver # vaFile.ver + 1
    <3>1. e \in Busy(va) /\ e \in VaDevices /\ va'[e] = va[e]
      BY <1>13, <2>5 DEF Busy
    <3>2. va[e].job \in VaJobs
      BY <3>1 DEF Busy, AccInd, RecordFine, VaRecords
    <3>3. va[e].job.ver \in Nat /\ va[e].job.ver <= vaFile.ver /\ va[e].job.n <= vaOps
      BY <1>14, <3>1, <3>2 DEF JobsFine, VaJobs
    <3> QED BY <1>14, <3>1, <3>3
  <2> QED BY <1>3, <1>8, <1>14, <2>2, <2>4, <2>5 DEF JobsFine
<1>16. {vaStale', vaHole'} \subseteq BOOLEAN
  BY <1>9 DEF AccInd
<1>17. \A e \in VaDevices : RecordFine(e, va'[e])
  BY <1>11, <1>13 DEF AccInd
<1>18. ASSUME ~vaStale', ~vaHole'
       PROVE  vaFile'.h = vaWant' /\ SlotsFine(vaFile'.h, va', vaOps', vaExcused')
  <2>1. PICK h : h = vaFile.h
    OBVIOUS
  <2>2. ~vaStale /\ ~vaHole /\ (j.op = "enrol" => Filled(j.h) = 1..j.h.count)
    BY <1>9, <1>18 DEF AccInd
  <2>3. j.h = h
    <3>1. CASE ~(j.op \in Conditional /\ vaAtomic)
      BY <1>9, <1>18, <2>1, <3>1
    <3>2. CASE j.op \in Conditional /\ vaAtomic
      BY <1>1, <1>2, <1>3, <1>14, <2>1, <3>2 DEF Accepts, JobsFine
    <3> QED BY <3>1, <3>2
  <2>4. h = vaWant /\ SlotsFine(h, va, vaOps, vaExcused)
    BY <2>1, <2>2 DEF AccInd
  <2>5. vaFile'.h = P /\ vaWant' = P
    BY <1>6, <1>9, <1>18, <2>3, <2>4
  <2>6. h \in VaHeaders /\ Parses(h) /\ Distinct(h) /\ SlotFine(h, x)
    BY <1>1, <1>5, <2>3, <2>4 DEF GoodHeader, SlotsFine
  <2>7. j.op \in {"enrol", "recover"} =>
           j.id = <<d, j.n>> /\ \A i \in Filled(h) : h.slots[i].id # j.id
    BY <1>2, <1>3, <1>4, <2>6 DEF SlotFine, JobFine
  <2>8. SlotsAfter(j, d, h, P)
    BY <1>4, <1>5, <1>7, <1>8, <2>2, <2>3, <2>6, <2>7, OperatedSlots
  <2>9. \A i \in Filled(P) : P.slots[i].id[2] <= vaOps
    <3>1. j.n <= vaOps
      BY <1>1, <1>2, <1>14 DEF JobsFine
    <3>2. j.op \in {"enrol", "recover"} => j.id[2] = j.n
      BY <2>7
    <3> QED BY <2>4, <2>8, <3>1, <3>2 DEF SlotsAfter, SlotsFine
  <2>10. ASSUME NEW e \in VaDevices PROVE SlotFine(P, va'[e])
    <3>1. CASE e = d
      BY <1>11, <1>13, <3>1 DEF SlotFine
    <3>2. CASE e # d
      <4>1. va'[e] = va[e] /\ SlotFine(h, va[e]) /\ RecordFine(e, va[e])
        BY <1>13, <2>4, <3>2 DEF SlotsFine, AccInd
      <4>2. ASSUME va[e].job # None, va[e].job.op \in {"enrol", "recover"}, NEW i \in Filled(P)
            PROVE  P.slots[i].id # va[e].job.id
        <5>1. va[e].job.id = <<e, va[e].job.n>>
          BY <4>1, <4>2 DEF RecordFine, JobFine
        <5>2. CASE \E k \in Filled(h) : P.slots[i].id = h.slots[k].id
          BY <4>1, <4>2, <5>2 DEF SlotFine
        <5>3. CASE P.slots[i].id = j.id /\ j.id = <<d, j.n>>
          BY <3>2, <5>1, <5>3
        <5> QED BY <2>7, <2>8, <5>2, <5>3 DEF SlotsAfter
      <4> QED BY <4>1, <4>2 DEF SlotFine
    <3> QED BY <3>1, <3>2
  <2>11. /\ vaExcused' = LET parted == IF j.op \in Rekeys /\ end # "ok" THEN {d} ELSE {}
                             back == IF j.op \in {"enrol", "recover"} /\ end = "ok" THEN {d} ELSE {}
                         IN (vaExcused \cup TakenBy(d) \cup parted) \ back
         /\ j.op = "revoke" => TakenBy(d) = {e \in VaDevices : va[e].id = j.id}
         /\ j.op = "recover" => TakenBy(d) = VaDevices \ {d}
    BY <1>1, <1>2 DEF VaStore, TakenBy
  <2>12. ASSUME NEW e \in VaDevices, e \notin vaExcused' PROVE SlotKept(P, va'[e])
    <3>1. CASE e # d
      <4>1. va'[e] = va[e] /\ e \notin vaExcused /\ e \notin TakenBy(d)
        BY <1>13, <2>11, <2>12, <3>1
      <4>2. SlotKept(h, va[e]) /\ RecordFine(e, va[e]) /\ j.op # "recover"
        BY <2>4, <2>11, <3>1, <4>1 DEF SlotsFine, AccInd
      <4>3. ASSUME va[e].id # None, NEW key, Has(h, va[e].id, key)
            PROVE  Has(P, va[e].id, key)
        <5>1. CASE j.op \in {"save", "change"}
          BY <2>8, <4>3, <5>1 DEF SlotsAfter, Has, At
        <5>2. CASE j.op \notin {"save", "change"}
          <6>1. va[e].id[1] = e
            BY <4>2, <4>3 DEF RecordFine
          <6>2. va[e].id # j.id
            <7>1. CASE j.op = "revoke"
              BY <2>11, <4>1, <7>1
            <7>2. CASE j.op = "enrol"
              <8>1. j.id[1] = d
                BY <2>7, <7>2
              <8> QED BY <3>1, <6>1, <8>1
            <7>3. CASE j.op = "migrate"
              <8>1. j.id = x.id /\ (x.id # None => x.id[1] = d)
                BY <1>4, <7>3 DEF JobFine, RecordFine
              <8> QED BY <3>1, <4>3, <6>1, <8>1
            <7> QED BY <1>4, <4>2, <5>2, <7>1, <7>2, <7>3 DEF Ops
          <6>3. Carried(h, P, j.id)
            BY <2>8, <4>2 DEF SlotsAfter
          <6> QED BY <4>3, <6>2, <6>3, CarriedHas
        <5> QED BY <5>1, <5>2
      <4> QED BY <4>1, <4>2, <4>3 DEF SlotKept
    <3>2. CASE e = d
      <4>1. va'[e] = y /\ y.job = None
        BY <1>11, <1>13, <3>2
      <4>2. CASE j.op \in Rekeys
        <5>1. end = "ok"
          BY <2>11, <2>12, <3>2, <4>2
        <5>2. CASE j.op \in {"enrol", "recover"}
          <6>1. y.id = j.id /\ y.key = <<d, j.n>>
            BY <1>4, <1>11, <5>1, <5>2 DEF JobFine
          <6>2. Has(P, j.id, <<d, j.n>>)
            BY <2>8, <5>2 DEF SlotsAfter
          <6> QED BY <4>1, <6>1, <6>2 DEF SlotKept
        <5>3. CASE j.op = "migrate"
          <6>1. y.id = j.id /\ y.key = <<d, j.n>> /\ x.id = j.id
            BY <1>4, <1>11, <5>1, <5>3 DEF JobFine
          <6>2. MigratesAt(h, j.id) # 0
            BY <1>3, <2>3, <5>3 DEF Prepared
          <6>3. Has(P, j.id, <<j.id[1], j.n>>)
            BY <2>8, <5>3, <6>2 DEF SlotsAfter
          <6>4. j.id # None => j.id[1] = d
            BY <1>4, <6>1 DEF RecordFine
          <6> QED BY <4>1, <6>1, <6>3, <6>4 DEF SlotKept
        <5> QED BY <4>2, <5>2, <5>3 DEF Rekeys
      <4>3. CASE j.op \notin Rekeys
        <5>1. y.id = x.id /\ y.key = x.key
          BY <1>11, <4>3
        <5>2. j.op \in {"save", "change", "revoke"}
          BY <1>4, <4>3 DEF Ops, Rekeys
        <5>3. d \notin vaExcused /\ d \notin TakenBy(d)
          BY <2>11, <2>12, <3>2, <5>2
        <5>4. x.id # None => Has(h, x.id, x.key)
          BY <1>1, <1>2, <2>4, <4>3, <5>3 DEF SlotsFine, SlotKept
        <5>5. CASE j.op \in {"save", "change"}
          BY <2>8, <4>1, <5>1, <5>4, <5>5 DEF SlotsAfter, SlotKept, Has, At
        <5>6. CASE j.op = "revoke"
          <6>1. x.id # j.id /\ Carried(h, P, j.id)
            BY <1>1, <2>8, <2>11, <5>3, <5>6 DEF SlotsAfter
          <6>2. x.id # None => Has(P, x.id, x.key)
            BY <5>4, <6>1, CarriedHas
          <6> QED BY <4>1, <5>1, <6>2 DEF SlotKept
        <5> QED BY <5>2, <5>5, <5>6
      <4> QED BY <4>2, <4>3
    <3> QED BY <3>1, <3>2
  <2>13. SlotsFine(P, va', vaOps, vaExcused')
    BY <2>8, <2>9, <2>10, <2>12 DEF SlotsFine, SlotsAfter
  <2> QED BY <1>3, <2>5, <2>13
<1> QED BY <1>13, <1>15, <1>16, <1>17, <1>18 DEF AccInd
-----------------------------------------------------------------------------
(***************************************************************************)
(* The theorems.                                                           *)
(***************************************************************************)
LEMMA CompareStep ==
    ASSUME AccInd, NEW d \in VaDevices, VaCompare(d)
    PROVE  AccInd'
<1>1. UNCHANGED <<vaFile, va, vaOps, vaWant, vaStale, vaHole, vaExcused>>
  BY DEF VaCompare, hist
<1> QED BY <1>1 DEF AccInd

LEMMA AccStep == AccInd /\ [AccNext]_accVars => AccInd'
<1> SUFFICES ASSUME AccInd, [AccNext]_accVars PROVE AccInd'
  OBVIOUS
<1>1. CASE UNCHANGED accVars
  BY <1>1 DEF AccInd, accVars
<1>2. CASE AccNext
  <2>1. PICK d \in VaDevices :
          \/ \E phrase \in 0..vaOps : VaUnlock(d, phrase)
          \/ VaPasskey(d) \/ VaAddPasskey(d) \/ VaLock(d)
          \/ VaSave(d) \/ VaChange(d) \/ VaEnrol(d) \/ VaMigrate(d)
          \/ \E i \in 1..VaSlots : VaRevoke(d, i)
          \/ \E key \in 0..vaOps : VaVerify(d, key)
          \/ VaLeave(d) \/ VaRecover(d)
          \/ VaCompare(d) \/ \E end \in {"ok", "lost", "crash"} : VaStore(d, end)
          \/ VaFail(d) \/ VaAdopt(d) \/ VaCrash(d)
    BY <1>2 DEF AccNext
  <2> QED BY <2>1, UnlockStep, PasskeyStep, AddPasskeyStep, TurnStep, SaveStep, ChangeStep,
             EnrolStep, MigrateStep, RevokeStep, RecoverStep, CompareStep, StoreStep, FailStep,
             AdoptStep, CrashStep
<1> QED BY <1>1, <1>2

LEMMA HeldCounts ==
    ASSUME NEW x
    PROVE  Cardinality({k \in {1, 2} : \/ k = 1 /\ x.st # "locked"
                                       \/ k = 2 /\ x.job # None /\ x.job.op = "enrol"}) = Held(x)
<1> DEFINE A == x.st # "locked"
           B == x.job # None /\ x.job.op = "enrol"
           S == {k \in {1, 2} : \/ k = 1 /\ x.st # "locked"
                                \/ k = 2 /\ x.job # None /\ x.job.op = "enrol"}
<1>1. CASE A /\ B
  <2>1. S = {1} \cup {2}
    BY <1>1
  <2>2. IsFiniteSet({1}) /\ Cardinality({1}) = 1
    BY FS_Singleton, Zenon
  <2>3. Cardinality({1} \cup {2}) = 2
    BY <2>2, FS_AddElement
  <2> QED BY <1>1, <2>1, <2>3 DEF Held
<1>2. CASE A /\ ~B
  <2>1. S = {1}
    BY <1>2
  <2>2. Cardinality({1}) = 1
    BY FS_Singleton, Zenon
  <2> QED BY <1>2, <2>1, <2>2 DEF Held
<1>3. CASE ~A /\ B
  <2>1. S = {2}
    BY <1>3
  <2>2. Cardinality({2}) = 1
    BY FS_Singleton, Zenon
  <2> QED BY <1>3, <2>1, <2>2 DEF Held
<1>4. CASE ~A /\ ~B
  <2>1. S = {}
    BY <1>4
  <2> QED BY <1>4, <2>1, FS_EmptySet DEF Held
<1> QED BY <1>1, <1>2, <1>3, <1>4

LEMMA AccIndImplies == AccInd => AccessInv /\ AccessLinear
<1> SUFFICES ASSUME AccInd PROVE AccessInv /\ AccessLinear
  OBVIOUS
<1>1. /\ GoodHeader(vaFile.h) /\ vaFile \in [h : VaHeaders, ver : Nat] /\ vaOps \in 0..VaMaxOps
      /\ vaFile.ver + Cardinality(Busy(va)) <= vaOps /\ VaMaxOps \in Nat
  BY AccessAssumption DEF AccInd, JobsFine
<1>2. VaTypeOK
  <2>1. vaFile.ver \in 0..VaMaxOps
    BY <1>1, BusyFinite
  <2>2. vaFile \in [h : VaHeaders, ver : 0..VaMaxOps]
    BY <1>1, <2>1
  <2>3. va \in [VaDevices -> VaRecords]
    BY DEF AccInd, RecordFine
  <2>4. \A d \in VaDevices : /\ va[d].id # None => va[d].key # None
                             /\ (va[d].st = "open") = (va[d].hdr # None)
    BY DEF AccInd, RecordFine
  <2> QED BY <1>1, <2>2, <2>3, <2>4 DEF VaTypeOK
<1>3. StoredOpens
  <2>1. vaFile.h.pass \in VaWraps /\ MacOk(vaFile.h) /\ vaFile.h.pass.salt = vaFile.h.salt
    BY <1>1 DEF GoodHeader, VaHeaders
  <2>2. PICK p : p = vaFile.h.pass
    OBVIOUS
  <2>3. p = [salt |-> p.salt, phrase |-> p.phrase]
    BY <2>1, <2>2 DEF VaWraps
  <2> QED BY <2>1, <2>2, <2>3 DEF StoredOpens, PassOpens
<1>4. KeysReleased
  <2> SUFFICES ASSUME NEW d \in VaDevices
               PROVE  va[d].live = va[d].thrown + Cardinality({k \in {1, 2} :
                        \/ k = 1 /\ va[d].st # "locked"
                        \/ k = 2 /\ va[d].job # None /\ va[d].job.op = "enrol"})
    BY DEF KeysReleased
  <2>1. va[d].live = va[d].thrown + Held(va[d])
    BY DEF AccInd, RecordFine
  <2> QED BY <2>1, HeldCounts
<1>5. EnrolledOpens
  <2> SUFFICES ASSUME NEW d \in VaDevices \ vaExcused, va[d].id # None, ~vaStale, ~vaHole,
                      va[d].job = None
               PROVE  /\ SlotOf(vaFile.h, va[d].id) # 0
                      /\ vaFile.h.slots[SlotOf(vaFile.h, va[d].id)].key = va[d].key
    BY DEF EnrolledOpens
  <2>1. PICK h, id : h = vaFile.h /\ id = va[d].id
    OBVIOUS
  <2>2. Has(h, id, va[d].key) /\ Distinct(h)
    BY <2>1 DEF AccInd, SlotsFine, SlotKept
  <2>3. PICK i \in 1..VaSlots : At(h, i, id) /\ h.slots[i].key = va[d].key
    BY <2>2 DEF Has
  <2>4. PICK s : s = SlotOf(h, id)
    OBVIOUS
  <2>5. s \in 1..VaSlots /\ At(h, s, id)
    <3>1. VaSlots \in Nat
      BY AccessAssumption
    <3> QED BY <2>3, <2>4, <3>1, SlotFound DEF SlotOf
  <2>6. s = i
    BY <2>2, <2>3, <2>5 DEF Distinct, Filled, At
  <2>7. s # 0
    BY <2>5
  <2> QED BY <2>1, <2>3, <2>4, <2>6, <2>7
<1>6. AccessLinear
  BY DEF AccInd, SlotsFine, AccessLinear
<1> QED BY <1>2, <1>3, <1>4, <1>5, <1>6 DEF AccessInv

\* Whatever the operations on the header met (lost answers, crashes, blind overwrites), the
\* stored header opens; WASM memory holds the keys of open vaults, of operations under way and
\* of the unlocks that threw with a session open, and no others; and, until a write replaces a
\* header it had not read, a device that was not revoked, cleared or interrupted while it
\* changed its key finds its slot under its key.
THEOREM AccessKept == AccSpec => []AccessInv
<1>1. AccInit => AccInd
  BY AccStart
<1>2. AccInd /\ [AccNext]_accVars => AccInd'
  BY AccStep
<1>3. AccInd => AccessInv
  BY AccIndImplies
<1> QED BY <1>1, <1>2, <1>3, PTL DEF AccSpec

\* Until a write replaces what it had not read, or an enrolment writes past an empty slot, the
\* stored header is what the operations make of it one after the other, and it parses.  Where
\* the primary compares the version as it writes, only uploads without an expected version do
\* so: revocations and enrolments lose nothing.  Where it compares first, they may.
THEOREM NothingLost == AccSpec => []AccessLinear
<1>1. AccInit => AccInd
  BY AccStart
<1>2. AccInd /\ [AccNext]_accVars => AccInd'
  BY AccStep
<1>3. AccInd => AccessLinear
  BY AccIndImplies
<1> QED BY <1>1, <1>2, <1>3, PTL DEF AccSpec
-----------------------------------------------------------------------------
(***************************************************************************)
(* Enrolment.                                                              *)
(***************************************************************************)
Keys == Nat \X Joiners \X Nat
Messages == [t : {"peer_pk", "encrypted_shard", "primary_config", "config_unavailable",
                  "ready_for_config", "done"},
             key : Keys \cup {None}]
Headers == [version : Nat, slots : SUBSET Joiners]
Pages == [step : XSteps, starts : Nat, made : Nat, sid : Nat, qr : Nat, ws : Nat,
          code : Keys \cup {None}, sealing : Seq(Keys), timer : BOOLEAN]
Sessions == [sock : Socks, sk : BOOLEAN, key : Keys \cup {None}, due : Keys \cup {None}]
JSessions == [step : JSteps, try : Nat, ch : Nat, key : Keys \cup {None}, conn : BOOLEAN,
              shard : Keys \cup {None}, shardReceived : BOOLEAN, config : BOOLEAN,
              provider : BOOLEAN, read : Headers \cup {None}]

\* The keys the shard may be sealed for.
Sealed == compared \cup crossed

\* The existing device's page x and its sessions s, when C are the keys sealed for: while there
\* is one session, the code it shows is that session's.
PageFine(x, C) ==
    /\ x \in Pages
    /\ x.sid <= x.made /\ x.qr <= x.made /\ x.ws <= x.made /\ x.made <= 2 * EnTries + 1
    /\ x.step = "sas-confirmed" => x.timer \/ x.sealing # <<>>
    /\ x.step = "sas" => x.code # None
    /\ \A k \in 1..Len(x.sealing) : x.sealing[k] \in C
OneCode(s, code) ==
    /\ s.sk => s.due = None /\ code = None
    /\ s.key # None => s.due \in {None, s.key} /\ code \in {None, s.key}
SesFine(x, s) ==
    /\ s \in [Channels -> Sessions]
    /\ \A c \in Channels : s[c].sk => s[c].key = None
    /\ \A c \in Channels : c > x.made => s[c] = NoSession
    /\ x.made = 0 => x.code = None
    /\ x.made = 1 => OneCode(s[1], x.code)

\* A new device: its shard is for its own keys; a header it read is the current one, or older.
JFine(j, C, h) ==
    /\ j \in JSessions
    /\ j.step = "enrolled" => ~j.conn
    /\ j.shard # None => j.shard = j.key /\ j.shard \in C
    /\ j.step \in {"unlocking", "writing", "storing"} =>
         /\ j.read \in Headers /\ j.read.version <= h.version
         /\ j.read.version = h.version => j.read.slots = h.slots

\* What a message proves; e says that a device has enrolled.
MsgFine(m, C, e) ==
    /\ m \in Messages
    /\ m.t = "encrypted_shard" => m.key \in C
    /\ m.t = "peer_pk" => m.key \in Keys
    /\ m.t = "done" => e
BoxFine(box, D, C, e) ==
    /\ box \in [D -> Seq(Messages)]
    /\ \A d \in D : \A k \in 1..Len(box[d]) : MsgFine(box[d][k], C, e)

SomeEnrolled == \E n \in Joiners : jn[n].step = "enrolled"

TriesFine == nTries \in Nat /\ nTries <= EnTries /\ xd.made + xd.starts <= 2 * nTries + 1

EnInd ==
    /\ PageFine(xd, Sealed) /\ SesFine(xd, ses) /\ TriesFine
    /\ DOMAIN jn = Joiners /\ \A n \in Joiners : JFine(jn[n], Sealed, hdr)
    /\ BoxFine(inbox, Joiners, Sealed, SomeEnrolled) /\ BoxFine(xbox, Channels, Sealed, SomeEnrolled)
    /\ hdr \in Headers /\ saver \in [slots : SUBSET Joiners] \cup {None}
    /\ SlotsKept /\ (crossed # {} => xd.made > 1)
-----------------------------------------------------------------------------
(***************************************************************************)
(* Messages.                                                               *)
(***************************************************************************)
LEMMA DeliverFine ==
    ASSUME NEW C, NEW e \in BOOLEAN, NEW D, NEW box, BoxFine(box, D, C, e),
           NEW to, NEW m, MsgFine(m, C, e)
    PROVE  BoxFine(Deliver1(box, to, m), D, C, e)
<1>1. PICK new : new = Deliver1(box, to, m)
  OBVIOUS
<1>2. /\ DOMAIN new = D
      /\ \A d \in D : new[d] = IF d \in to THEN Append(box[d], m) ELSE box[d]
      /\ new = [d \in D |-> new[d]]
  BY <1>1 DEF Deliver1, BoxFine
<1>3. ASSUME NEW d \in D
      PROVE  /\ new[d] \in Seq(Messages)
             /\ \A k \in 1..Len(new[d]) : MsgFine(new[d][k], C, e)
  <2>1. box[d] \in Seq(Messages) /\ m \in Messages
    BY DEF BoxFine, MsgFine
  <2>2. CASE d \in to
    <3>1. new[d] = Append(box[d], m)
      BY <1>2, <2>2
    <3>2. /\ new[d] \in Seq(Messages) /\ Len(new[d]) = Len(box[d]) + 1
          /\ \A k \in 1..Len(box[d]) : new[d][k] = box[d][k]
          /\ new[d][Len(box[d]) + 1] = m
      BY <2>1, <3>1
    <3>3. \A k \in 1..Len(new[d]) : k \in 1..Len(box[d]) \/ k = Len(box[d]) + 1
      BY <2>1, <3>2
    <3> QED BY <3>2, <3>3 DEF BoxFine
  <2>3. CASE d \notin to
    BY <1>2, <2>1, <2>3 DEF BoxFine
  <2> QED BY <2>2, <2>3
<1>4. BoxFine(new, D, C, e)
  BY <1>2, <1>3 DEF BoxFine
<1> QED BY <1>1, <1>4

LEMMA TakeFine ==
    ASSUME NEW C, NEW e \in BOOLEAN, NEW D, NEW box, BoxFine(box, D, C, e), NEW d \in D,
           box[d] # <<>>
    PROVE  /\ MsgFine(Head(box[d]), C, e)
           /\ BoxFine(Taken(box, d), D, C, e)
<1>1. box[d] \in Seq(Messages) /\ Len(box[d]) \in Nat \ {0}
  BY DEF BoxFine
<1>2. MsgFine(Head(box[d]), C, e)
  BY <1>1 DEF BoxFine
<1>3. /\ Tail(box[d]) \in Seq(Messages) /\ Len(Tail(box[d])) = Len(box[d]) - 1
      /\ \A k \in 1..Len(Tail(box[d])) : Tail(box[d])[k] = box[d][k + 1]
  BY <1>1
<1>4. \A k \in 1..Len(Tail(box[d])) : MsgFine(Tail(box[d])[k], C, e)
  <2> TAKE k \in 1..Len(Tail(box[d]))
  <2>1. k + 1 \in 1..Len(box[d])
    BY <1>1, <1>3
  <2> QED BY <1>3, <2>1 DEF BoxFine
<1>5. Taken(box, d) = [box EXCEPT ![d] = Tail(box[d])]
  BY DEF Taken
<1> QED BY <1>2, <1>3, <1>4, <1>5 DEF BoxFine

LEMMA EmptyFine ==
    ASSUME NEW C, NEW e \in BOOLEAN, NEW D, NEW box, BoxFine(box, D, C, e), NEW d \in D
    PROVE  BoxFine([box EXCEPT ![d] = <<>>], D, C, e)
<1>1. [box EXCEPT ![d] = <<>>] \in [D -> Seq(Messages)]
  BY DEF BoxFine
<1> QED BY <1>1 DEF BoxFine

\* What a message proves stays proved.
LEMMA StayFine ==
    ASSUME NEW B, NEW C, B \subseteq C, NEW e \in BOOLEAN, NEW f \in BOOLEAN, e => f,
           NEW D, NEW box, BoxFine(box, D, B, e)
    PROVE  BoxFine(box, D, C, f)
  BY DEF BoxFine, MsgFine
-----------------------------------------------------------------------------
(***************************************************************************)
(* The existing device.                                                    *)
(***************************************************************************)
LEMMA XMoves ==
    ASSUME EnInd, PageFine(xd', Sealed'), SesFine(xd', ses'), TriesFine', Sealed \subseteq Sealed',
           BoxFine(inbox', Joiners, Sealed', SomeEnrolled),
           BoxFine(xbox', Channels, Sealed', SomeEnrolled), xd'.step = "done" => SomeEnrolled,
           crossed' # {} => xd'.made > 1,
           UNCHANGED <<jn, hdr, atomic, saver, trampled, raced>>
    PROVE  EnInd'
<1>1. SomeEnrolled' <=> SomeEnrolled
  BY DEF SomeEnrolled
<1>2. BoxFine(inbox', Joiners, Sealed', SomeEnrolled') /\ BoxFine(xbox', Channels, Sealed', SomeEnrolled')
  BY <1>1 DEF BoxFine, MsgFine
<1>3. \A n \in Joiners : JFine(jn'[n], Sealed', hdr')
  BY DEF EnInd, JFine
<1>4. SlotsKept'
  BY DEF EnInd, SlotsKept, SomeEnrolled
<1> QED BY <1>2, <1>3, <1>4 DEF EnInd

\* The same when the sets of keys are the same.
LEMMA XSteps1 ==
    ASSUME EnInd, PageFine(xd', Sealed), SesFine(xd', ses'),
           xd'.made + xd'.starts <= xd.made + xd.starts, xd.made <= xd'.made,
           BoxFine(inbox', Joiners, Sealed, SomeEnrolled),
           BoxFine(xbox', Channels, Sealed, SomeEnrolled), xd'.step = "done" => SomeEnrolled,
           UNCHANGED <<jn, hdr, atomic, saver, trampled, raced, compared, crossed, nTries>>
    PROVE  EnInd'
<1>1. Sealed' = Sealed
  BY DEF Sealed
<1>2. /\ xd.made \in Nat /\ xd.starts \in Nat /\ xd'.made \in Nat /\ xd'.starts \in Nat
  BY DEF EnInd, PageFine, Pages
<1>3. TriesFine'
  BY <1>2 DEF EnInd, TriesFine
<1>4. crossed' # {} => xd'.made > 1
  BY <1>2 DEF EnInd
<1> QED BY <1>1, <1>3, <1>4, XMoves

LEMMA SockFine ==
    ASSUME NEW x, NEW C, PageFine(x, C), NEW s, SesFine(x, s), NEW c \in Channels, c <= x.made,
           NEW sock \in Socks
    PROVE  SesFine(x, WithSock(s, c, sock))
<1>1. PICK t : t = WithSock(s, c, sock)
  OBVIOUS
<1>2. s \in [Channels -> Sessions] /\ s[c] \in Sessions /\ x.made \in Nat /\ c \in Nat
  BY DEF SesFine, PageFine, Pages, Channels
<1>3. /\ DOMAIN t = Channels /\ t = [d \in Channels |-> t[d]]
      /\ \A d \in Channels : d # c => t[d] = s[d]
      /\ t[c] = [s[c] EXCEPT !.sock = sock]
  BY <1>1, <1>2 DEF WithSock
<1>4. t[c] \in Sessions /\ t[c].sk = s[c].sk /\ t[c].key = s[c].key /\ t[c].due = s[c].due
  BY <1>2, <1>3 DEF Sessions
<1>5. t \in [Channels -> Sessions]
  BY <1>2, <1>3, <1>4
<1>6. \A d \in Channels : t[d].sk = s[d].sk /\ t[d].key = s[d].key /\ t[d].due = s[d].due
  BY <1>3, <1>4
<1>7. \A d \in Channels : d > x.made => t[d] = NoSession
  <2> TAKE d \in Channels
  <2>1. d \in Nat
    BY DEF Channels
  <2>2. d > x.made => d # c
    BY <1>2, <2>1
  <2> QED BY <1>3, <2>2 DEF SesFine
<1>8. 1 \in Channels
  BY EnrollAssumption DEF Channels
<1>9. SesFine(x, t)
  BY <1>5, <1>6, <1>7, <1>8 DEF SesFine, OneCode
<1> QED BY <1>1, <1>9

\* cleanup() leaves the sessions as they should be, and so does the end of the page.
LEMMA CleanFine ==
    ASSUME NEW C, PageFine(xd, C), NEW s, SesFine(xd, s)
    PROVE  SesFine(xd, Cleaned(s))
<1>1. xd.ws \in Nat /\ xd.ws <= xd.made /\ xd.made \in Nat /\ xd.made <= 2 * EnTries + 1
  BY DEF PageFine, Pages
<1>2. CASE xd.ws = 0
  BY <1>2 DEF Cleaned
<1>3. CASE xd.ws # 0
  <2>1. xd.ws \in Channels
    BY <1>1, <1>3, EnrollAssumption DEF Channels
  <2>2. SesFine(xd, WithSock(s, xd.ws, "closed"))
    BY <1>1, <2>1, SockFine DEF Socks
  <2> QED BY <1>3, <2>2 DEF Cleaned
<1> QED BY <1>2, <1>3

LEMMA EndFine ==
    ASSUME NEW x, NEW C, PageFine(x, C), NEW step \in {"done", "error"}
    PROVE  /\ PageFine(XEnds(x, step), C) /\ XEnds(x, step).step = step
           /\ XEnds(x, step).made = x.made /\ XEnds(x, step).starts = x.starts
           /\ \A s : SesFine(x, s) => SesFine(XEnds(x, step), s)
<1>1. PICK y : y = XEnds(x, step)
  OBVIOUS
<1>2. /\ y \in Pages /\ y.step = step /\ y.ws = 0 /\ y.timer = FALSE /\ y.made = x.made
      /\ y.starts = x.starts /\ y.sid = x.sid /\ y.qr = x.qr /\ y.code = x.code
      /\ y.sealing = x.sealing
  BY <1>1 DEF XEnds, PageFine, Pages, XSteps
<1>3. PageFine(y, C)
  BY <1>2 DEF PageFine, Pages
<1>4. \A s : SesFine(x, s) => SesFine(y, s)
  BY <1>2 DEF SesFine
<1> QED BY <1>1, <1>2, <1>3, <1>4

\* The page ends and cleans up.
LEMMA XEndsInd ==
    ASSUME EnInd, NEW step \in {"done", "error"}, step = "done" => SomeEnrolled,
           xd' = XEnds(xd, step), NEW s, SesFine(xd, s), ses' = Cleaned(s),
           BoxFine(inbox', Joiners, Sealed, SomeEnrolled),
           BoxFine(xbox', Channels, Sealed, SomeEnrolled),
           UNCHANGED <<jn, hdr, atomic, saver, trampled, raced, compared, crossed, nTries>>
    PROVE  EnInd'
<1>1. PageFine(xd, Sealed) /\ xd.made \in Nat /\ xd.starts \in Nat
  BY DEF EnInd, PageFine, Pages
<1>2. SesFine(xd, ses')
  BY <1>1, CleanFine
<1>3. /\ PageFine(xd', Sealed) /\ xd'.step = step /\ xd'.made = xd.made /\ xd'.starts = xd.starts
      /\ SesFine(xd', ses')
  BY <1>1, <1>2, EndFine
<1> QED BY <1>1, <1>3, XSteps1

\* The start of an enrolment.
LEMMA XStartInd ==
    ASSUME EnInd, XOpens \/ XStartFails \/ XAgain \/ \E c \in Channels : XConnect(c) \/ XConnected(c)
    PROVE  EnInd'
<1>a. /\ PageFine(xd, Sealed) /\ SesFine(xd, ses) /\ TriesFine /\ xd \in Pages /\ EnTries \in Nat
      /\ BoxFine(inbox, Joiners, Sealed, SomeEnrolled) /\ BoxFine(xbox, Channels, Sealed, SomeEnrolled)
      /\ (xd.step = "done" => SomeEnrolled) /\ (crossed # {} => xd.made > 1)
  BY EnrollAssumption DEF EnInd, PageFine, SlotsKept, SomeEnrolled
<1>b. /\ xd.made \in Nat /\ xd.starts \in Nat /\ xd.sid \in Nat /\ xd.qr \in Nat /\ xd.ws \in Nat
      /\ nTries \in Nat /\ nTries <= EnTries /\ xd.made + xd.starts <= 2 * nTries + 1
  BY <1>a DEF Pages, TriesFine
<1>c. Channels = 1..(2 * EnTries + 1)
  BY DEF Channels
<1>d. \A c \in Channels : ses[c].sock # "none" => c <= xd.made
  <2> TAKE c \in Channels
  <2>1. c \in Nat /\ NoSession.sock = "none"
    BY <1>c DEF NoSession
  <2> QED BY <1>a, <1>b, <2>1 DEF SesFine
<1>e. ASSUME inbox' = inbox, xbox' = xbox
      PROVE  BoxFine(inbox', Joiners, Sealed, SomeEnrolled) /\ BoxFine(xbox', Channels, Sealed, SomeEnrolled)
  BY <1>a, <1>e
<1>1. CASE XOpens
  <2>1. PICK c : c = xd.made + 1
    OBVIOUS
  <2>2. PICK f : f = [sock |-> "cookie", sk |-> TRUE, key |-> None, due |-> None]
    OBVIOUS
  <2>3. PICK r : r = xd.starts - 1
    OBVIOUS
  <2>4. /\ xd.starts > 0 /\ xd' = [xd EXCEPT !.starts = r, !.made = c, !.sid = c, !.qr = c]
        /\ ses' = [ses EXCEPT ![c] = f]
        /\ UNCHANGED <<jn, inbox, xbox, nTries, hdr, atomic, saver, trampled, raced, compared, crossed>>
    BY <1>1, <2>1, <2>2, <2>3 DEF XOpens, enBounds, hdrVars
  <2>5. c \in Nat /\ r \in Nat /\ c \in Channels /\ c > 0 /\ c <= 2 * EnTries + 1 /\ c + r = xd.made + xd.starts
        /\ xd.made < c
    <3>1. EnTries \in Nat /\ xd.starts > 0
      BY <1>a, <2>4
    <3>2. c \in Nat /\ r \in Nat /\ c > 0 /\ c + r = xd.made + xd.starts /\ xd.made < c
      BY <1>b, <2>1, <2>3, <3>1
    <3>3. c <= 2 * EnTries + 1
      BY <1>b, <3>1, <3>2
    <3> QED BY <1>c, <3>1, <3>2, <3>3
  <2>6. /\ xd' \in Pages /\ xd'.made = c /\ xd'.starts = r /\ xd'.sid = c /\ xd'.qr = c
        /\ xd'.ws = xd.ws /\ xd'.step = xd.step /\ xd'.code = xd.code /\ xd'.sealing = xd.sealing
        /\ xd'.timer = xd.timer
    BY <1>a, <2>4, <2>5 DEF Pages
  <2>7. PageFine(xd', Sealed)
    BY <1>a, <1>b, <2>5, <2>6 DEF PageFine
  <2>8. f \in Sessions /\ f.sk /\ f.key = None /\ f.due = None
    BY <2>2 DEF Sessions, Socks
  <2>9. /\ ses' \in [Channels -> Sessions] /\ ses'[c] = f
        /\ \A d \in Channels : d # c => ses'[d] = ses[d]
    BY <1>a, <2>4, <2>5, <2>8 DEF SesFine
  <2>10. \A d \in Channels : d > c => ses'[d] = NoSession
    <3> TAKE d \in Channels
    <3>1. d \in Nat
      BY <1>c
    <3>2. d > c => d # c /\ d > xd.made
      BY <1>b, <2>5, <3>1
    <3> QED BY <1>a, <2>9, <3>2 DEF SesFine
  <2>11. c = 1 => OneCode(ses'[1], xd.code)
    <3>1. c = 1 => xd.made = 0
      BY <1>b, <2>1
    <3> QED BY <1>a, <2>8, <2>9, <3>1 DEF SesFine, OneCode
  <2>12. SesFine(xd', ses')
    BY <1>a, <2>5, <2>6, <2>8, <2>9, <2>10, <2>11 DEF SesFine
  <2> QED BY <1>a, <1>b, <1>e, <2>4, <2>5, <2>6, <2>7, <2>12, XSteps1
<1>2. ASSUME NEW c \in Channels, XConnect(c)
      PROVE  EnInd'
  <2>1. /\ ses[c].sock = "cookie" /\ xd' = [xd EXCEPT !.ws = c] /\ ses' = WithSock(ses, c, "connecting")
        /\ UNCHANGED <<jn, inbox, xbox, nTries, hdr, atomic, saver, trampled, raced, compared, crossed>>
    BY <1>2 DEF XConnect, enBounds, hdrVars
  <2>2. c <= xd.made /\ c \in Nat
    BY <1>c, <1>d, <2>1
  <2>3. /\ xd' \in Pages /\ xd'.ws = c /\ xd'.made = xd.made /\ xd'.starts = xd.starts
        /\ xd'.sid = xd.sid /\ xd'.qr = xd.qr /\ xd'.step = xd.step /\ xd'.code = xd.code
        /\ xd'.sealing = xd.sealing /\ xd'.timer = xd.timer
    BY <1>a, <2>1, <2>2 DEF Pages
  <2>4. PageFine(xd', Sealed)
    BY <1>a, <2>2, <2>3 DEF PageFine
  <2>5. SesFine(xd, ses')
    BY <1>a, <2>1, <2>2, SockFine DEF Socks
  <2>6. SesFine(xd', ses')
    BY <2>3, <2>5 DEF SesFine
  <2> QED BY <1>a, <1>b, <1>e, <2>1, <2>3, <2>4, <2>6, XSteps1
<1>3. ASSUME NEW c \in Channels, XConnected(c)
      PROVE  EnInd'
  <2>1. /\ ses[c].sock = "connecting" /\ xd' = xd /\ ses' = WithSock(ses, c, "open")
        /\ UNCHANGED <<jn, inbox, xbox, nTries, hdr, atomic, saver, trampled, raced, compared, crossed>>
    BY <1>3 DEF XConnected, enBounds, hdrVars
  <2>2. SesFine(xd, ses')
    BY <1>a, <1>d, <2>1, SockFine DEF Socks
  <2> QED BY <1>a, <1>b, <1>e, <2>1, <2>2, XSteps1
<1>4. CASE XStartFails
  <2>1. UNCHANGED <<jn, inbox, xbox, nTries, hdr, atomic, saver, trampled, raced, compared, crossed>>
    BY <1>4 DEF XStartFails, hdrVars
  <2>2. CASE xd.starts > 0 /\ xd' = [xd EXCEPT !.starts = @ - 1, !.step = "error"] /\ ses' = ses
    <3>1. PICK r : r = xd.starts - 1
      OBVIOUS
    <3>2. xd' = [xd EXCEPT !.starts = r, !.step = "error"] /\ r \in Nat /\ r <= xd.starts
      BY <1>b, <2>2, <3>1
    <3>3. /\ xd' \in Pages /\ xd'.starts = r /\ xd'.step = "error" /\ xd'.made = xd.made
          /\ xd'.sid = xd.sid /\ xd'.qr = xd.qr /\ xd'.ws = xd.ws /\ xd'.code = xd.code
          /\ xd'.sealing = xd.sealing /\ xd'.timer = xd.timer
      BY <1>a, <3>2 DEF Pages, XSteps
    <3>4. PageFine(xd', Sealed) /\ SesFine(xd', ses')
      BY <1>a, <2>2, <3>3 DEF PageFine, SesFine
    <3>5. xd'.made + xd'.starts <= xd.made + xd.starts /\ xd.made <= xd'.made
      BY <1>b, <3>2, <3>3
    <3> QED BY <1>e, <2>1, <3>3, <3>4, <3>5, XSteps1
  <2>3. ASSUME NEW c \in Channels, ses[c].sock = "cookie", ses' = WithSock(ses, c, "closed"),
               xd' = [xd EXCEPT !.step = "error"]
        PROVE  EnInd'
    <3>1. SesFine(xd, ses')
      BY <1>a, <1>d, <2>3, SockFine DEF Socks
    <3>2. /\ xd' \in Pages /\ xd'.starts = xd.starts /\ xd'.step = "error" /\ xd'.made = xd.made
          /\ xd'.sid = xd.sid /\ xd'.qr = xd.qr /\ xd'.ws = xd.ws /\ xd'.code = xd.code
          /\ xd'.sealing = xd.sealing /\ xd'.timer = xd.timer
      BY <1>a, <2>3 DEF Pages, XSteps
    <3>3. PageFine(xd', Sealed) /\ SesFine(xd', ses')
      BY <1>a, <3>1, <3>2 DEF PageFine, SesFine
    <3> QED BY <1>b, <1>e, <2>1, <3>2, <3>3, XSteps1
  <2> QED BY <1>4, <2>2, <2>3 DEF XStartFails
<1>5. CASE XAgain
  <2>1. PICK r : r = xd.starts + 2
    OBVIOUS
  <2>2. PICK k : k = nTries + 1
    OBVIOUS
  <2>3. /\ xd.step = "error" /\ nTries < EnTries /\ nTries' = k /\ ses' = ses
        /\ xd' = [xd EXCEPT !.step = "qr-display", !.qr = 0, !.starts = r]
        /\ UNCHANGED <<jn, inbox, xbox, hdr, atomic, saver, trampled, raced, compared, crossed>>
    BY <1>5, <2>1, <2>2 DEF XAgain, hdrVars
  <2>4. r \in Nat /\ k \in Nat /\ k <= EnTries /\ xd.made + r <= 2 * k + 1
    BY <1>a, <1>b, <2>1, <2>2, <2>3
  <2>5. /\ xd' \in Pages /\ xd'.starts = r /\ xd'.step = "qr-display" /\ xd'.made = xd.made
        /\ xd'.sid = xd.sid /\ xd'.qr = 0 /\ xd'.ws = xd.ws /\ xd'.code = xd.code
        /\ xd'.sealing = xd.sealing /\ xd'.timer = xd.timer
    BY <1>a, <2>3, <2>4 DEF Pages, XSteps
  <2>6. PageFine(xd', Sealed) /\ SesFine(xd', ses')
    BY <1>a, <1>b, <2>3, <2>5 DEF PageFine, SesFine
  <2>7. TriesFine'
    BY <2>3, <2>4, <2>5 DEF TriesFine
  <2>8. Sealed' = Sealed
    BY <2>3 DEF Sealed
  <2> QED BY <1>a, <1>e, <2>3, <2>5, <2>6, <2>7, <2>8, XMoves
<1> QED BY <1>1, <1>2, <1>3, <1>4, <1>5

\* The keys are derived, and the code is shown.
LEMMA XCodeInd ==
    ASSUME EnInd, NEW c \in Channels, XPeerPk(c) \/ XShows(c)
    PROVE  EnInd'
<1>a. /\ PageFine(xd, Sealed) /\ SesFine(xd, ses) /\ xd \in Pages
      /\ BoxFine(inbox, Joiners, Sealed, SomeEnrolled) /\ BoxFine(xbox, Channels, Sealed, SomeEnrolled)
      /\ (xd.step = "done" => SomeEnrolled) /\ SomeEnrolled \in BOOLEAN
      /\ ses \in [Channels -> Sessions] /\ ses[c] \in Sessions /\ xd.made \in Nat /\ xd.starts \in Nat
  BY DEF EnInd, PageFine, SesFine, SlotsKept, SomeEnrolled, Pages
<1>b. c \in Nat /\ 1 \in Channels
  BY EnrollAssumption DEF Channels
<1>1. CASE XPeerPk(c)
  <2>1. PICK k : k = Head(xbox[c]).key
    OBVIOUS
  <2>2. /\ ses[c].sock = "open" /\ xbox[c] # <<>> /\ Head(xbox[c]).t = "peer_pk"
        /\ xbox' = Taken(xbox, c) /\ ses' = [ses EXCEPT ![c] = DeriveKeys(ses[c], k)] /\ xd' = xd
        /\ UNCHANGED <<jn, inbox, nTries, hdr, atomic, saver, trampled, raced, compared, crossed>>
    BY <1>1, <2>1 DEF XPeerPk, Listens, Receives, enBounds, hdrVars
  <2>3. k \in Keys /\ k # None /\ BoxFine(xbox', Channels, Sealed, SomeEnrolled)
    <3>1. MsgFine(Head(xbox[c]), Sealed, SomeEnrolled) /\ BoxFine(xbox', Channels, Sealed, SomeEnrolled)
      BY <1>a, <2>2, TakeFine
    <3>2. k \in Keys
      BY <2>1, <2>2, <3>1 DEF MsgFine
    <3>3. None \notin Keys
      BY EnrollAssumption DEF Keys
    <3> QED BY <3>1, <3>2, <3>3
  <2>4. CASE ~ses[c].sk
    <3>1. ses' = ses
      BY <1>a, <2>2, <2>4 DEF DeriveKeys
    <3> QED BY <1>a, <2>2, <2>3, <3>1, XSteps1
  <2>5. CASE ses[c].sk
    <3>1. PICK t : t = [ses[c] EXCEPT !.sk = FALSE, !.key = k, !.due = k]
      OBVIOUS
    <3>2. ses' = [ses EXCEPT ![c] = t]
      BY <2>2, <2>5, <3>1 DEF DeriveKeys
    <3>3. t \in Sessions /\ t.sk = FALSE /\ t.key = k /\ t.due = k
      BY <1>a, <2>3, <3>1 DEF Sessions
    <3>4. /\ ses' \in [Channels -> Sessions] /\ ses'[c] = t
          /\ \A d \in Channels : d # c => ses'[d] = ses[d]
      BY <1>a, <3>2, <3>3
    <3>5. c <= xd.made
      <4>1. ses[c] # NoSession
        BY <2>5 DEF NoSession
      <4> QED BY <1>a, <1>b, <4>1 DEF SesFine
    <3>6. \A d \in Channels : d > xd.made => ses'[d] = NoSession
      <4> TAKE d \in Channels
      <4>1. d \in Nat
        BY DEF Channels
      <4>2. d > xd.made => d # c
        BY <1>a, <1>b, <3>5, <4>1
      <4> QED BY <1>a, <3>4, <4>2 DEF SesFine
    <3>7. xd.made = 1 => OneCode(ses'[1], xd.code)
      <4>1. xd.made = 1 => c = 1
        BY <1>b, <3>5 DEF Channels
      <4> QED BY <1>a, <2>5, <3>3, <3>4, <4>1 DEF SesFine, OneCode
    <3>8. SesFine(xd, ses')
      BY <1>a, <3>3, <3>4, <3>6, <3>7 DEF SesFine
    <3> QED BY <1>a, <2>2, <2>3, <3>8, XSteps1
  <2> QED BY <2>4, <2>5
<1>2. CASE XShows(c)
  <2>1. PICK k : k = ses[c].due
    OBVIOUS
  <2>2. /\ k # None /\ xd' = [xd EXCEPT !.code = k, !.step = "sas"]
        /\ ses' = [ses EXCEPT ![c].due = None]
        /\ UNCHANGED <<jn, inbox, xbox, nTries, hdr, atomic, saver, trampled, raced, compared, crossed>>
    BY <1>2, <2>1 DEF XShows, enBounds, hdrVars
  <2>3. k \in Keys
    BY <1>a, <2>1, <2>2 DEF Sessions
  <2>4. /\ xd' \in Pages /\ xd'.code = k /\ xd'.step = "sas" /\ xd'.made = xd.made
        /\ xd'.starts = xd.starts /\ xd'.sid = xd.sid /\ xd'.qr = xd.qr /\ xd'.ws = xd.ws
        /\ xd'.sealing = xd.sealing /\ xd'.timer = xd.timer
    BY <1>a, <2>2, <2>3 DEF Pages, XSteps
  <2>5. PageFine(xd', Sealed)
    BY <1>a, <2>2, <2>4 DEF PageFine
  <2>6. PICK t : t = [ses[c] EXCEPT !.due = None]
    OBVIOUS
  <2>7. t \in Sessions /\ t.sk = ses[c].sk /\ t.key = ses[c].key /\ t.due = None
    BY <1>a, <2>6 DEF Sessions
  <2>8. /\ ses' \in [Channels -> Sessions] /\ ses'[c] = t
        /\ \A d \in Channels : d # c => ses'[d] = ses[d]
    BY <1>a, <2>2, <2>6, <2>7
  <2>9. c <= xd.made
    <3>1. ses[c] # NoSession
      BY <2>1, <2>2 DEF NoSession
    <3> QED BY <1>a, <1>b, <3>1 DEF SesFine
  <2>10. \A d \in Channels : d > xd.made => ses'[d] = NoSession
    <3> TAKE d \in Channels
    <3>1. d \in Nat
      BY DEF Channels
    <3>2. d > xd.made => d # c
      BY <1>a, <1>b, <2>9, <3>1
    <3> QED BY <1>a, <2>8, <3>2 DEF SesFine
  <2>11. xd.made = 1 => OneCode(ses'[1], k)
    <3>1. xd.made = 1 => c = 1
      BY <1>b, <2>9 DEF Channels
    <3> QED BY <1>a, <2>1, <2>2, <2>7, <2>8, <3>1 DEF SesFine, OneCode
  <2>12. xd.made # 0
    BY <1>b, <2>9 DEF Channels
  <2>13. \A d \in Channels : ses'[d].sk => ses'[d].key = None
    BY <1>a, <2>7, <2>8 DEF SesFine
  <2>14. SesFine(xd', ses')
    BY <2>4, <2>8, <2>10, <2>11, <2>12, <2>13 DEF SesFine
  <2> QED BY <1>a, <2>2, <2>4, <2>5, <2>14, XSteps1
<1> QED BY <1>1, <1>2

\* The codes are compared, and the shard is sealed: for the code shown, or there are two sessions.
LEMMA XConfirmInd ==
    ASSUME EnInd, XConfirm \/ XMismatch
    PROVE  EnInd'
<1>a. /\ PageFine(xd, Sealed) /\ SesFine(xd, ses) /\ TriesFine /\ xd \in Pages
      /\ BoxFine(inbox, Joiners, Sealed, SomeEnrolled) /\ BoxFine(xbox, Channels, Sealed, SomeEnrolled)
      /\ SomeEnrolled \in BOOLEAN /\ (crossed # {} => xd.made > 1) /\ EnTries \in Nat
      /\ ses \in [Channels -> Sessions] /\ xd.made \in Nat /\ xd.starts \in Nat /\ xd.sid \in Nat
      /\ xd.sid <= xd.made /\ xd.made <= 2 * EnTries + 1
  BY EnrollAssumption DEF EnInd, PageFine, SesFine, SomeEnrolled, Pages
<1>b. xd.sid # 0 => xd.sid \in Channels
  BY <1>a DEF Channels
<1>1. UNCHANGED <<jn, inbox, xbox, nTries, hdr, atomic, saver, trampled, raced>>
  BY DEF XConfirm, XMismatch, enBounds, hdrVars
<1>2. CASE XConfirm
  <2>1. xd.step = "sas" /\ compared' = compared \cup {xd.code}
    BY <1>2 DEF XConfirm
  <2>2. xd.code # None
    BY <1>a, <2>1 DEF PageFine
  <2>3. CASE SidKey = None
    <3>1. xd' = XEnds(xd, "error") /\ ses' = Cleaned(ses) /\ crossed' = crossed
      BY <1>2, <2>3 DEF XConfirm
    <3>2. Sealed \subseteq Sealed'
      BY <2>1, <3>1 DEF Sealed
    <3>3. SesFine(xd, ses')
      BY <1>a, <3>1, CleanFine
    <3>4. /\ PageFine(xd', Sealed) /\ xd'.step = "error" /\ xd'.made = xd.made
          /\ xd'.starts = xd.starts /\ SesFine(xd', ses')
      BY <1>a, <3>1, <3>3, EndFine
    <3>5. PageFine(xd', Sealed')
      BY <3>2, <3>4 DEF PageFine
    <3>6. BoxFine(inbox', Joiners, Sealed', SomeEnrolled) /\ BoxFine(xbox', Channels, Sealed', SomeEnrolled)
      BY <1>a, <1>1, <3>2, StayFine
    <3>7. TriesFine'
      BY <1>a, <1>1, <3>4 DEF TriesFine
    <3> QED BY <1>a, <1>1, <3>1, <3>2, <3>4, <3>5, <3>6, <3>7, XMoves
  <2>4. CASE SidKey # None
    <3>1. PICK k : k = SidKey
      OBVIOUS
    <3>2. PICK q : q = Append(xd.sealing, k)
      OBVIOUS
    <3>3. /\ xd' = [xd EXCEPT !.step = "sas-confirmed", !.sealing = q] /\ ses' = ses
          /\ crossed' = crossed \cup ({k} \ {xd.code})
      BY <1>2, <2>4, <3>1, <3>2 DEF XConfirm
    <3>4. xd.sid # 0 /\ xd.sid \in Channels /\ k = ses[xd.sid].key
      BY <1>b, <2>4, <3>1 DEF SidKey
    <3>5. k \in Keys
      BY <1>a, <2>4, <3>1, <3>4 DEF Sessions
    <3>6. k \in Sealed' /\ Sealed \subseteq Sealed'
      BY <2>1, <3>3 DEF Sealed
    <3>7. xd.sealing \in Seq(Keys) /\ Len(xd.sealing) \in Nat
      BY <1>a DEF Pages
    <3>8. /\ q \in Seq(Keys) /\ q # <<>> /\ Len(q) = Len(xd.sealing) + 1
          /\ \A i \in 1..Len(xd.sealing) : q[i] = xd.sealing[i]
          /\ q[Len(xd.sealing) + 1] = k
      BY <3>2, <3>5, <3>7
    <3>9. \A i \in 1..Len(q) : q[i] \in Sealed'
      <4> TAKE i \in 1..Len(q)
      <4>1. i \in 1..Len(xd.sealing) \/ i = Len(xd.sealing) + 1
        BY <3>7, <3>8
      <4> QED BY <1>a, <3>6, <3>8, <4>1 DEF PageFine
    <3>10. /\ xd' \in Pages /\ xd'.step = "sas-confirmed" /\ xd'.sealing = q /\ xd'.made = xd.made
           /\ xd'.starts = xd.starts /\ xd'.sid = xd.sid /\ xd'.qr = xd.qr /\ xd'.ws = xd.ws
           /\ xd'.code = xd.code
      BY <1>a, <3>3, <3>8 DEF Pages, XSteps
    <3>11. PageFine(xd', Sealed') /\ SesFine(xd', ses')
      BY <1>a, <3>3, <3>8, <3>9, <3>10 DEF PageFine, SesFine
    <3>12. TriesFine'
      BY <1>a, <1>1, <3>10 DEF TriesFine
    <3>13. BoxFine(inbox', Joiners, Sealed', SomeEnrolled) /\ BoxFine(xbox', Channels, Sealed', SomeEnrolled)
      BY <1>a, <1>1, <3>6, StayFine
    <3>14. xd.made = 1 => xd.sid = 1
      BY <1>a, <3>4 DEF Channels
    <3>15. xd.made = 1 => k = xd.code
      BY <1>a, <2>2, <2>4, <3>1, <3>4, <3>14 DEF SesFine, OneCode
    <3>16. xd.made # 0
      BY <1>a, <3>4
    <3>17. crossed' # {} => xd'.made > 1
      BY <1>a, <3>3, <3>10, <3>15, <3>16
    <3> QED BY <1>1, <3>6, <3>10, <3>11, <3>12, <3>13, <3>17, XMoves
  <2> QED BY <2>3, <2>4
<1>3. CASE XMismatch
  <2>1. PICK x : x = [xd EXCEPT !.sid = 0]
    OBVIOUS
  <2>2. PICK s : s = IF xd.sid = 0 THEN ses
                     ELSE [ses EXCEPT ![xd.sid].sk = FALSE, ![xd.sid].key = None]
    OBVIOUS
  <2>3. xd' = XEnds(x, "error") /\ ses' = Cleaned(s) /\ UNCHANGED <<compared, crossed>>
    BY <1>3, <2>1, <2>2 DEF XMismatch
  <2>4. /\ x \in Pages /\ x.sid = 0 /\ x.made = xd.made /\ x.starts = xd.starts /\ x.step = xd.step
        /\ x.qr = xd.qr /\ x.ws = xd.ws /\ x.code = xd.code /\ x.sealing = xd.sealing
        /\ x.timer = xd.timer
    BY <1>a, <2>1 DEF Pages
  <2>5. PageFine(x, Sealed)
    BY <1>a, <2>4 DEF PageFine
  <2>6. SesFine(xd, s)
    <3>1. CASE xd.sid = 0
      BY <1>a, <2>2, <3>1
    <3>2. CASE xd.sid # 0
      <4>1. PICK i : i = xd.sid
        OBVIOUS
      <4>2. PICK t : t = [ses[i] EXCEPT !.sk = FALSE, !.key = None]
        OBVIOUS
      <4>3. i \in Channels /\ i \in Nat /\ i <= xd.made /\ ses[i] \in Sessions
        BY <1>a, <1>b, <3>2, <4>1
      <4>4. t \in Sessions /\ t.sk = FALSE /\ t.key = None
        BY <4>2, <4>3 DEF Sessions
      <4>5. s \in [Channels -> Sessions] /\ s[i] = t /\ \A d \in Channels : d # i => s[d] = ses[d]
        BY <1>a, <2>2, <3>2, <4>1, <4>2, <4>3, <4>4
      <4>6. \A d \in Channels : d > xd.made => s[d] = NoSession
        <5> TAKE d \in Channels
        <5>1. d \in Nat
          BY DEF Channels
        <5>2. d > xd.made => d # i
          BY <1>a, <4>3, <5>1
        <5> QED BY <1>a, <4>5, <5>2 DEF SesFine
      <4>7. xd.made = 1 => OneCode(s[1], xd.code)
        <5>1. xd.made = 1 => i = 1
          BY <4>3 DEF Channels
        <5> QED BY <4>4, <4>5, <5>1 DEF OneCode
      <4>8. \A d \in Channels : s[d].sk => s[d].key = None
        BY <1>a, <4>4, <4>5 DEF SesFine
      <4> QED BY <1>a, <4>5, <4>6, <4>7, <4>8 DEF SesFine
    <3> QED BY <3>1, <3>2
  <2>7. SesFine(xd, ses')
    BY <1>a, <2>3, <2>6, CleanFine
  <2>8. SesFine(x, ses')
    BY <2>4, <2>7 DEF SesFine
  <2>9. /\ PageFine(xd', Sealed) /\ xd'.step = "error" /\ xd'.made = xd.made
        /\ xd'.starts = xd.starts /\ SesFine(xd', ses')
    BY <2>3, <2>4, <2>5, <2>8, EndFine
  <2> QED BY <1>a, <1>1, <2>3, <2>9, XSteps1
<1> QED BY <1>2, <1>3

\* The shard is sent, or the configuration.
LEMMA XSendInd ==
    ASSUME EnInd, XSendShard \/ \E c \in Channels : \E has \in BOOLEAN : XSendConfig(c, has)
    PROVE  EnInd'
<1>a. /\ PageFine(xd, Sealed) /\ SesFine(xd, ses) /\ xd \in Pages
      /\ BoxFine(inbox, Joiners, Sealed, SomeEnrolled) /\ BoxFine(xbox, Channels, Sealed, SomeEnrolled)
      /\ SomeEnrolled \in BOOLEAN /\ (xd.step = "done" => SomeEnrolled)
      /\ ses \in [Channels -> Sessions] /\ xd.made \in Nat /\ xd.starts \in Nat /\ xd.sid \in Nat
      /\ xd.sid <= xd.made /\ xd.made <= 2 * EnTries + 1 /\ EnTries \in Nat
  BY EnrollAssumption DEF EnInd, PageFine, SesFine, SomeEnrolled, SlotsKept, Pages
<1>b. SidKey \in Keys \cup {None}
  <2>1. xd.sid # 0 => xd.sid \in Channels
    BY <1>a DEF Channels
  <2> QED BY <1>a, <2>1 DEF SidKey, Sessions
<1>1. CASE XSendShard
  <2>1. PICK q : q = Tail(xd.sealing)
    OBVIOUS
  <2>2. PICK x : x = [xd EXCEPT !.sealing = q]
    OBVIOUS
  <2>3. /\ xd.sealing # <<>>
        /\ IF Throws THEN xd' = XEnds(x, "error") /\ ses' = Cleaned(ses) /\ inbox' = inbox
           ELSE /\ xd' = [x EXCEPT !.timer = TRUE] /\ ses' = ses
                /\ inbox' = ToPeer(Msg("encrypted_shard", Head(xd.sealing)))
        /\ UNCHANGED <<jn, xbox, nTries, hdr, atomic, saver, trampled, raced, compared, crossed>>
    BY <1>1, <2>1, <2>2 DEF XSendShard, ArmsTimer, enBounds, hdrVars
  <2>4. xd.sealing \in Seq(Keys) /\ Len(xd.sealing) \in Nat \ {0}
    BY <1>a, <2>3 DEF Pages
  <2>5. /\ q \in Seq(Keys) /\ Len(q) = Len(xd.sealing) - 1
        /\ \A i \in 1..Len(q) : q[i] = xd.sealing[i + 1]
    BY <2>1, <2>4
  <2>6. \A i \in 1..Len(q) : q[i] \in Sealed
    <3> TAKE i \in 1..Len(q)
    <3>1. i + 1 \in 1..Len(xd.sealing)
      BY <2>4, <2>5
    <3> QED BY <1>a, <2>5, <3>1 DEF PageFine
  <2>7. /\ x \in Pages /\ x.sealing = q /\ x.sid = xd.sid /\ x.made = xd.made /\ x.starts = xd.starts
        /\ x.step = xd.step /\ x.qr = xd.qr /\ x.ws = xd.ws /\ x.code = xd.code /\ x.timer = xd.timer
    BY <1>a, <2>2, <2>5 DEF Pages
  <2>8. CASE Throws
    <3>1. PICK y : y = [x EXCEPT !.step = "error"]
      OBVIOUS
    <3>2. /\ y \in Pages /\ y.step = "error" /\ y.sealing = q /\ y.sid = xd.sid /\ y.made = xd.made
          /\ y.starts = xd.starts /\ y.qr = xd.qr /\ y.ws = xd.ws /\ y.code = xd.code
      BY <2>7, <3>1 DEF Pages, XSteps
    <3>3. PageFine(y, Sealed)
      BY <1>a, <2>6, <3>2 DEF PageFine
    <3>4. XEnds(y, "error") = XEnds(x, "error")
      BY <2>7, <3>1 DEF XEnds, Pages
    <3>5. SesFine(xd, ses')
      BY <1>a, <2>3, <2>8, CleanFine
    <3>6. SesFine(y, ses')
      BY <3>2, <3>5 DEF SesFine
    <3>7. /\ PageFine(xd', Sealed) /\ xd'.step = "error" /\ xd'.made = xd.made
          /\ xd'.starts = xd.starts /\ SesFine(xd', ses')
      BY <2>3, <2>8, <3>2, <3>3, <3>4, <3>6, EndFine
    <3>8. BoxFine(inbox', Joiners, Sealed, SomeEnrolled) /\ BoxFine(xbox', Channels, Sealed, SomeEnrolled)
      BY <1>a, <2>3, <2>8
    <3> QED BY <1>a, <2>3, <3>7, <3>8, XSteps1
  <2>9. CASE ~Throws
    <3>1. xd' = [x EXCEPT !.timer = TRUE] /\ ses' = ses
          /\ inbox' = ToPeer(Msg("encrypted_shard", Head(xd.sealing)))
      BY <2>3, <2>9
    <3>2. /\ xd' \in Pages /\ xd'.timer = TRUE /\ xd'.sealing = q /\ xd'.sid = xd.sid
          /\ xd'.made = xd.made /\ xd'.starts = xd.starts /\ xd'.step = xd.step /\ xd'.qr = xd.qr
          /\ xd'.ws = xd.ws /\ xd'.code = xd.code
      BY <2>7, <3>1 DEF Pages
    <3>3. PageFine(xd', Sealed) /\ SesFine(xd', ses')
      BY <1>a, <2>6, <3>1, <3>2 DEF PageFine, SesFine
    <3>4. Head(xd.sealing) \in Sealed /\ Head(xd.sealing) \in Keys
      BY <1>a, <2>4 DEF PageFine
    <3>5. MsgFine(Msg("encrypted_shard", Head(xd.sealing)), Sealed, SomeEnrolled)
      BY <1>a, <3>4 DEF MsgFine, Msg, Messages
    <3>6. BoxFine(inbox', Joiners, Sealed, SomeEnrolled) /\ BoxFine(xbox', Channels, Sealed, SomeEnrolled)
      BY <1>a, <2>3, <3>1, <3>5, DeliverFine DEF ToPeer
    <3> QED BY <1>a, <2>3, <3>2, <3>3, <3>6, XSteps1
  <2> QED BY <2>8, <2>9
<1>2. ASSUME NEW c \in Channels, NEW has \in BOOLEAN, XSendConfig(c, has)
      PROVE  EnInd'
  <2>1. PICK m : m = IF has THEN Msg("primary_config", SidKey) ELSE Msg("config_unavailable", None)
    OBVIOUS
  <2>2. /\ xbox[c] # <<>> /\ xbox' = Taken(xbox, c)
        /\ \/ xd' = XEnds(xd, "error") /\ ses' = Cleaned(ses) /\ inbox' = inbox
           \/ inbox' = ToPeer(m) /\ xd' = xd /\ ses' = ses
        /\ UNCHANGED <<jn, nTries, hdr, atomic, saver, trampled, raced, compared, crossed>>
    BY <1>2, <2>1 DEF XSendConfig, Receives, enBounds, hdrVars
  <2>3. BoxFine(xbox', Channels, Sealed, SomeEnrolled)
    BY <1>a, <2>2, TakeFine
  <2>4. MsgFine(m, Sealed, SomeEnrolled)
    BY <1>b, <2>1 DEF MsgFine, Msg, Messages
  <2>5. BoxFine(inbox', Joiners, Sealed, SomeEnrolled)
    BY <1>a, <2>2, <2>4, DeliverFine DEF ToPeer
  <2>6. CASE xd' = XEnds(xd, "error") /\ ses' = Cleaned(ses)
    BY <1>a, <2>2, <2>3, <2>5, <2>6, XEndsInd
  <2>7. CASE xd' = xd /\ ses' = ses
    BY <1>a, <2>2, <2>3, <2>5, <2>7, XSteps1
  <2> QED BY <2>2, <2>6, <2>7
<1> QED BY <1>1, <1>2

\* The ends: success, the stall timer, a broken socket.
LEMMA XEndInd ==
    ASSUME EnInd, XStalls \/ \E c \in Channels : XDone(c) \/ XBreaks(c)
    PROVE  EnInd'
<1>a. /\ PageFine(xd, Sealed) /\ SesFine(xd, ses) /\ xd \in Pages
      /\ BoxFine(inbox, Joiners, Sealed, SomeEnrolled) /\ BoxFine(xbox, Channels, Sealed, SomeEnrolled)
      /\ SomeEnrolled \in BOOLEAN /\ (xd.step = "done" => SomeEnrolled)
      /\ xd.made \in Nat /\ xd.starts \in Nat
  BY DEF EnInd, PageFine, SomeEnrolled, SlotsKept, Pages
<1>1. CASE XStalls
  <2>1. /\ IF xd.step = "sas-confirmed" THEN xd' = XEnds(xd, "error") /\ ses' = Cleaned(ses)
           ELSE xd' = [xd EXCEPT !.timer = FALSE] /\ ses' = ses
        /\ UNCHANGED <<jn, inbox, xbox, nTries, hdr, atomic, saver, trampled, raced, compared, crossed>>
    BY <1>1 DEF XStalls, enBounds, hdrVars
  <2>2. CASE xd.step = "sas-confirmed"
    BY <1>a, <2>1, <2>2, XEndsInd
  <2>3. CASE xd.step # "sas-confirmed"
    <3>1. /\ xd' \in Pages /\ xd'.sealing = xd.sealing /\ xd'.sid = xd.sid /\ xd'.made = xd.made
          /\ xd'.starts = xd.starts /\ xd'.step = xd.step /\ xd'.qr = xd.qr /\ xd'.ws = xd.ws
          /\ xd'.code = xd.code
      BY <1>a, <2>1, <2>3 DEF Pages
    <3>2. PageFine(xd', Sealed) /\ SesFine(xd', ses')
      BY <1>a, <2>1, <2>3, <3>1 DEF PageFine, SesFine
    <3> QED BY <1>a, <2>1, <3>1, <3>2, XSteps1
  <2> QED BY <2>2, <2>3
<1>2. ASSUME NEW c \in Channels, XDone(c)
      PROVE  EnInd'
  <2>1. /\ xbox[c] # <<>> /\ Head(xbox[c]).t = "done" /\ xbox' = Taken(xbox, c)
        /\ xd' = XEnds(xd, "done") /\ ses' = Cleaned(ses)
        /\ UNCHANGED <<jn, inbox, nTries, hdr, atomic, saver, trampled, raced, compared, crossed>>
    BY <1>2 DEF XDone, Receives, enBounds, hdrVars
  <2>2. SomeEnrolled /\ BoxFine(xbox', Channels, Sealed, SomeEnrolled)
    BY <1>a, <2>1, TakeFine DEF MsgFine
  <2> QED BY <1>a, <2>1, <2>2, XEndsInd
<1>3. ASSUME NEW c \in Channels, XBreaks(c)
      PROVE  EnInd'
  <2>1. PICK s : s = WithSock(ses, c, "closed")
    OBVIOUS
  <2>2. /\ ses[c].sock \in {"connecting", "open"}
        /\ \/ ses' = s /\ xd' = xd
           \/ xd' = XEnds(xd, "error") /\ ses' = Cleaned(s)
        /\ UNCHANGED <<jn, inbox, xbox, nTries, hdr, atomic, saver, trampled, raced, compared, crossed>>
    BY <1>3, <2>1 DEF XBreaks, hdrVars
  <2>3. c <= xd.made
    <3>1. c \in Nat /\ NoSession.sock = "none"
      BY DEF NoSession, Channels
    <3> QED BY <1>a, <2>2, <3>1 DEF SesFine
  <2>4. SesFine(xd, s)
    BY <1>a, <2>1, <2>3, SockFine DEF Socks
  <2>5. CASE ses' = s /\ xd' = xd
    BY <1>a, <2>2, <2>4, <2>5, XSteps1
  <2>6. CASE xd' = XEnds(xd, "error") /\ ses' = Cleaned(s)
    BY <1>a, <2>2, <2>4, <2>6, XEndsInd
  <2> QED BY <2>2, <2>5, <2>6
<1> QED BY <1>1, <1>2, <1>3

LEMMA XStepInd ==
    ASSUME EnInd, XNext
    PROVE  EnInd'
  BY XStartInd, XCodeInd, XConfirmInd, XSendInd, XEndInd DEF XNext
-----------------------------------------------------------------------------
(***************************************************************************)
(* A new device.                                                           *)
(***************************************************************************)
\* A step that neither finishes nor starts from a finished enrolment.
LEMMA JMoves ==
    ASSUME EnInd, NEW n \in Joiners, NEW j, Joins(n, j), JFine(j, Sealed, hdr),
           j.step # "enrolled", jn[n].step # "enrolled",
           BoxFine(inbox', Joiners, Sealed, SomeEnrolled), BoxFine(xbox', Channels, Sealed, SomeEnrolled),
           nTries' \in Nat /\ nTries <= nTries' /\ nTries' <= EnTries,
           UNCHANGED <<xd, ses, hdr, atomic, saver, trampled, raced, compared, crossed>>
    PROVE  EnInd'
<1>1. /\ DOMAIN jn' = Joiners /\ jn'[n] = j /\ \A i \in Joiners : i # n => jn'[i] = jn[i]
  BY DEF Joins, EnInd
<1>2. (SomeEnrolled' <=> SomeEnrolled) /\ Sealed' = Sealed
  BY <1>1 DEF SomeEnrolled, Sealed
<1>3. BoxFine(inbox', Joiners, Sealed', SomeEnrolled') /\ BoxFine(xbox', Channels, Sealed', SomeEnrolled')
  BY <1>2 DEF BoxFine, MsgFine
<1>4. \A i \in Joiners : JFine(jn'[i], Sealed', hdr')
  BY <1>1, <1>2 DEF EnInd
<1>5. SlotsKept'
  BY <1>1, <1>2 DEF EnInd, SlotsKept, SomeEnrolled
<1>6. PageFine(xd', Sealed') /\ SesFine(xd', ses')
  BY <1>2 DEF EnInd
<1>7. TriesFine'
  <2>1. xd.made \in Nat /\ xd.starts \in Nat /\ nTries \in Nat /\ xd.made + xd.starts <= 2 * nTries + 1
    BY DEF EnInd, TriesFine, PageFine, Pages
  <2> QED BY <2>1 DEF TriesFine
<1> QED BY <1>1, <1>3, <1>4, <1>5, <1>6, <1>7 DEF EnInd

\* The same when no device tries again.
LEMMA JSteps1 ==
    ASSUME EnInd, NEW n \in Joiners, NEW j, Joins(n, j), JFine(j, Sealed, hdr),
           j.step # "enrolled", jn[n].step # "enrolled",
           BoxFine(inbox', Joiners, Sealed, SomeEnrolled), BoxFine(xbox', Channels, Sealed, SomeEnrolled),
           UNCHANGED <<xd, ses, nTries, hdr, atomic, saver, trampled, raced, compared, crossed>>
    PROVE  EnInd'
<1>1. nTries' \in Nat /\ nTries <= nTries' /\ nTries' <= EnTries
  BY DEF EnInd, TriesFine
<1> QED BY <1>1, JMoves

LEMMA FailFine ==
    ASSUME NEW n \in Joiners, JFine(jn[n], Sealed, hdr)
    PROVE  /\ JFine(JFails(n), Sealed, hdr) /\ JFails(n).step = "error"
           /\ JFine(JErrs(n), Sealed, hdr) /\ JErrs(n).step = "error"
  BY DEF JFine, JFails, JErrs, JSessions, JSteps

LEMMA AdvanceFine ==
    ASSUME NEW j, JFine(j, Sealed, hdr), j.step # "enrolled"
    PROVE  JFine(Advances(j), Sealed, hdr) /\ Advances(j).step # "enrolled"
  BY DEF JFine, Advances, JSessions, JSteps

\* A message to the existing device that proves nothing.
LEMMA SendFine ==
    ASSUME NEW n \in Joiners, NEW e \in BOOLEAN, BoxFine(xbox, Channels, Sealed, e), NEW m,
           MsgFine(m, Sealed, e)
    PROVE  /\ BoxFine(ToX(n, m), Channels, Sealed, e)
           /\ BoxFine(SendsToX(n, m), Channels, Sealed, e)
<1>1. BoxFine(ToX(n, m), Channels, Sealed, e)
  BY DeliverFine DEF ToX
<1> QED BY <1>1 DEF SendsToX

\* Meeting: the scan, the socket and the comparison of the codes.
LEMMA JMeetInd ==
    ASSUME EnInd, NEW n \in Joiners, JScan(n) \/ JOpen(n) \/ JConfirm(n) \/ JMismatch(n)
    PROVE  EnInd'
<1>a. /\ JFine(jn[n], Sealed, hdr) /\ jn[n] \in JSessions /\ SomeEnrolled \in BOOLEAN
      /\ BoxFine(inbox, Joiners, Sealed, SomeEnrolled) /\ BoxFine(xbox, Channels, Sealed, SomeEnrolled)
      /\ xd.qr \in Nat
  BY DEF EnInd, JFine, SomeEnrolled, PageFine, Pages
<1>1. CASE JScan(n)
  <2>1. PICK key : key = <<xd.qr, n, jn[n].try>>
    OBVIOUS
  <2>2. PICK j : j = [jn[n] EXCEPT !.ch = xd.qr, !.key = key, !.conn = FALSE,
                                   !.step = "waiting-peer", !.shard = None]
    OBVIOUS
  <2>3. key \in Keys
    BY <1>a, <2>1 DEF Keys, JSessions
  <2>4. /\ jn[n].step = "qr-scan" /\ Joins(n, j) /\ inbox' = [inbox EXCEPT ![n] = <<>>]
        /\ UNCHANGED <<xd, ses, xbox, nTries, hdr, atomic, saver, trampled, raced, compared, crossed>>
    BY <1>1, <2>1, <2>2 DEF JScan, enBounds, hdrVars
  <2>5. /\ j \in JSessions /\ j.step = "waiting-peer" /\ j.shard = None
    BY <1>a, <2>2, <2>3 DEF JSessions, JSteps
  <2>6. JFine(j, Sealed, hdr)
    BY <2>5 DEF JFine
  <2>7. BoxFine(inbox', Joiners, Sealed, SomeEnrolled) /\ BoxFine(xbox', Channels, Sealed, SomeEnrolled)
    BY <1>a, <2>4, EmptyFine
  <2> QED BY <2>4, <2>5, <2>6, <2>7, JSteps1
<1>2. CASE JOpen(n)
  <2>1. PICK j : j = [jn[n] EXCEPT !.step = "sas", !.conn = TRUE]
    OBVIOUS
  <2>2. /\ jn[n].step = "waiting-peer" /\ Joins(n, j)
        /\ xbox' = ToX(n, Msg("peer_pk", KeysOf(n)))
        /\ UNCHANGED <<xd, ses, inbox, nTries, hdr, atomic, saver, trampled, raced, compared, crossed>>
    BY <1>2, <2>1 DEF JOpen, enBounds, hdrVars
  <2>3. MsgFine(Msg("peer_pk", KeysOf(n)), Sealed, SomeEnrolled)
    BY <1>a DEF MsgFine, Msg, Messages, KeysOf, Keys, JSessions
  <2>4. BoxFine(inbox', Joiners, Sealed, SomeEnrolled) /\ BoxFine(xbox', Channels, Sealed, SomeEnrolled)
    BY <1>a, <2>2, <2>3, SendFine
  <2>5. JFine(j, Sealed, hdr) /\ j.step = "sas"
    BY <1>a, <2>1 DEF JFine, JSessions, JSteps
  <2> QED BY <2>2, <2>4, <2>5, JSteps1
<1>3. CASE JMismatch(n)
  <2>1. /\ jn[n].step = "sas" /\ Joins(n, JFails(n))
        /\ UNCHANGED <<xd, ses, inbox, xbox, nTries, hdr, atomic, saver, trampled, raced, compared, crossed>>
    BY <1>3 DEF JMismatch, enBounds, hdrVars
  <2>2. JFine(JFails(n), Sealed, hdr) /\ JFails(n).step # "enrolled"
    BY <1>a, FailFine
  <2>3. BoxFine(inbox', Joiners, Sealed, SomeEnrolled) /\ BoxFine(xbox', Channels, Sealed, SomeEnrolled)
    BY <1>a, <2>1
  <2> QED BY <2>1, <2>2, <2>3, JSteps1
<1>4. CASE JConfirm(n)
  <2>1. PICK j : j = [jn[n] EXCEPT !.step = "sas-confirmed"]
    OBVIOUS
  <2>2. /\ jn[n].step = "sas" /\ Joins(n, j)
        /\ xbox' = IF jn[n].provider THEN xbox ELSE SendsToX(n, Msg("ready_for_config", None))
        /\ UNCHANGED <<xd, ses, inbox, nTries, hdr, atomic, saver, trampled, raced, compared, crossed>>
    BY <1>4, <2>1 DEF JConfirm, enBounds, hdrVars
  <2>3. MsgFine(Msg("ready_for_config", None), Sealed, SomeEnrolled)
    BY DEF MsgFine, Msg, Messages
  <2>4. BoxFine(inbox', Joiners, Sealed, SomeEnrolled) /\ BoxFine(xbox', Channels, Sealed, SomeEnrolled)
    BY <1>a, <2>2, <2>3, SendFine
  <2>5. JFine(j, Sealed, hdr) /\ j.step = "sas-confirmed"
    BY <1>a, <2>1 DEF JFine, JSessions, JSteps
  <2> QED BY <2>2, <2>4, <2>5, JSteps1
<1> QED BY <1>1, <1>2, <1>3, <1>4

\* The transfer: a shard that opens is sealed for this device's keys.
LEMMA JTransferInd ==
    ASSUME EnInd, NEW n \in Joiners, JShard(n) \/ JConfig(n) \/ JUnavailable(n)
    PROVE  EnInd'
<1>a. /\ JFine(jn[n], Sealed, hdr) /\ jn[n] \in JSessions /\ SomeEnrolled \in BOOLEAN
      /\ BoxFine(inbox, Joiners, Sealed, SomeEnrolled) /\ BoxFine(xbox, Channels, Sealed, SomeEnrolled)
  BY DEF EnInd, JFine, SomeEnrolled
<1>1. PICK m : m = Head(inbox[n])
  OBVIOUS
<1>2. /\ jn[n].conn /\ inbox[n] # <<>> /\ inbox' = Taken(inbox, n)
      /\ UNCHANGED <<xd, ses, xbox, nTries, hdr, atomic, saver, trampled, raced, compared, crossed>>
  BY DEF JShard, JConfig, JUnavailable, Receives, enBounds, hdrVars
<1>3. /\ MsgFine(m, Sealed, SomeEnrolled)
      /\ BoxFine(inbox', Joiners, Sealed, SomeEnrolled) /\ BoxFine(xbox', Channels, Sealed, SomeEnrolled)
  BY <1>a, <1>1, <1>2, TakeFine
<1>4. jn[n].step # "enrolled"
  BY <1>a, <1>2 DEF JFine
<1>5. JFine(JFails(n), Sealed, hdr) /\ JFails(n).step # "enrolled"
  BY <1>a, FailFine
<1>6. CASE Joins(n, JFails(n))
  BY <1>2, <1>3, <1>4, <1>5, <1>6, JSteps1
<1>7. CASE JShard(n) /\ ~Joins(n, JFails(n))
  <2>1. PICK j : j = [jn[n] EXCEPT !.shard = m.key, !.shardReceived = TRUE]
    OBVIOUS
  <2>2. m.t = "encrypted_shard" /\ m.key = jn[n].key /\ Joins(n, Advances(j))
    BY <1>1, <1>7, <2>1 DEF JShard, Receives, Opens1
  <2>3. m.key \in Sealed /\ m.key \in Keys \cup {None}
    BY <1>3, <2>2 DEF MsgFine, Messages
  <2>4. /\ j \in JSessions /\ j.shard = m.key /\ j.key = jn[n].key /\ j.step = jn[n].step
        /\ j.conn = jn[n].conn /\ j.read = jn[n].read
    BY <1>a, <2>1, <2>3 DEF JSessions
  <2>5. JFine(j, Sealed, hdr) /\ j.step # "enrolled"
    BY <1>a, <1>4, <2>2, <2>3, <2>4 DEF JFine
  <2>6. JFine(Advances(j), Sealed, hdr) /\ Advances(j).step # "enrolled"
    BY <2>5, AdvanceFine
  <2> QED BY <1>2, <1>3, <1>4, <2>2, <2>6, JSteps1
<1>8. CASE JConfig(n) /\ ~Joins(n, JFails(n))
  <2>1. PICK j : j = [jn[n] EXCEPT !.config = TRUE]
    OBVIOUS
  <2>2. Joins(n, Advances(j))
    BY <1>1, <1>8, <2>1 DEF JConfig
  <2>3. JFine(j, Sealed, hdr) /\ j.step # "enrolled"
    BY <1>a, <1>4, <2>1 DEF JFine, JSessions
  <2>4. JFine(Advances(j), Sealed, hdr) /\ Advances(j).step # "enrolled"
    BY <2>3, AdvanceFine
  <2> QED BY <1>2, <1>3, <1>4, <2>2, <2>4, JSteps1
<1>9. CASE JUnavailable(n)
  BY <1>6, <1>9 DEF JUnavailable
<1> QED BY <1>6, <1>7, <1>8, <1>9

\* Opening the vault, comparing the version, losing the socket, trying again.
LEMMA JOwnInd ==
    ASSUME EnInd, NEW n \in Joiners,
           \/ JTake(n) \/ JCompare(n) \/ JRefused(n) \/ JBreak(n) \/ JClosed(n) \/ JAgain(n)
           \/ \E ok \in BOOLEAN : JHydrate(n, ok) \/ JUnlock(n, ok)
    PROVE  EnInd'
<1>a. /\ JFine(jn[n], Sealed, hdr) /\ jn[n] \in JSessions /\ SomeEnrolled \in BOOLEAN
      /\ BoxFine(inbox, Joiners, Sealed, SomeEnrolled) /\ BoxFine(xbox, Channels, Sealed, SomeEnrolled)
      /\ hdr \in Headers /\ nTries \in Nat /\ nTries <= EnTries /\ EnTries \in Nat
  BY EnrollAssumption DEF EnInd, JFine, SomeEnrolled, TriesFine
<1>1. /\ BoxFine(inbox', Joiners, Sealed, SomeEnrolled) /\ BoxFine(xbox', Channels, Sealed, SomeEnrolled)
      /\ UNCHANGED <<xd, ses, hdr, atomic, saver, trampled, raced, compared, crossed>>
  BY <1>a DEF JTake, JCompare, JRefused, JBreak, JClosed, JAgain, JHydrate, JUnlock, hdrVars
<1>b. nTries' \in Nat /\ nTries <= nTries' /\ nTries' <= EnTries
  <2>1. nTries' = nTries \/ (nTries < EnTries /\ nTries' = nTries + 1)
    BY DEF JTake, JCompare, JRefused, JBreak, JClosed, JAgain, JHydrate, JUnlock, enBounds
  <2> QED BY <1>a, <2>1
<1>2. jn[n].step # "enrolled"
  BY <1>a DEF JTake, JCompare, JRefused, JBreak, JClosed, JAgain, JHydrate, JUnlock, JFine
<1>3. /\ JFine(JFails(n), Sealed, hdr) /\ JFails(n).step # "enrolled"
      /\ JFine(JErrs(n), Sealed, hdr) /\ JErrs(n).step # "enrolled"
  BY <1>a, FailFine
<1>4. CASE Joins(n, JFails(n)) \/ Joins(n, JErrs(n))
  BY <1>1, <1>b, <1>2, <1>3, <1>4, JMoves
<1>5. ASSUME ~Joins(n, JFails(n)), ~Joins(n, JErrs(n))
      PROVE  \E j : Joins(n, j) /\ JFine(j, Sealed, hdr) /\ j.step # "enrolled"
  <2>1. CASE JTake(n)
    <3>1. PICK j : j = [jn[n] EXCEPT !.step = "writing", !.shard = None]
      OBVIOUS
    <3>2. Joins(n, j) /\ jn[n].step = "unlocking"
      BY <1>5, <2>1, <3>1 DEF JTake
    <3>3. JFine(j, Sealed, hdr) /\ j.step # "enrolled"
      BY <1>a, <3>1, <3>2 DEF JFine, JSessions, JSteps
    <3> QED BY <3>2, <3>3
  <2>2. CASE JBreak(n)
    <3>1. PICK j : j = [jn[n] EXCEPT !.conn = FALSE]
      OBVIOUS
    <3>2. Joins(n, j)
      BY <2>2, <3>1 DEF JBreak
    <3>3. JFine(j, Sealed, hdr) /\ j.step # "enrolled"
      BY <1>a, <1>2, <3>1 DEF JFine, JSessions
    <3> QED BY <3>2, <3>3
  <2>3. CASE JAgain(n)
    <3>a. PICK k : k = jn[n].try + 1
      OBVIOUS
    <3>b. k \in Nat
      BY <1>a, <3>a DEF JSessions
    <3>1. PICK j : j = [jn[n] EXCEPT !.step = "qr-scan", !.try = k]
      OBVIOUS
    <3>2. Joins(n, j)
      BY <2>3, <3>a, <3>1 DEF JAgain
    <3>3. /\ j \in JSessions /\ j.step = "qr-scan" /\ j.shard = jn[n].shard /\ j.key = jn[n].key
      BY <1>a, <3>b, <3>1 DEF JSessions, JSteps
    <3>4. JFine(j, Sealed, hdr) /\ j.step # "enrolled"
      BY <1>a, <3>3 DEF JFine
    <3> QED BY <3>2, <3>4
  <2>4. ASSUME NEW ok \in BOOLEAN, JHydrate(n, ok)
        PROVE  \E j : Joins(n, j) /\ JFine(j, Sealed, hdr) /\ j.step # "enrolled"
    <3>1. PICK j : j = [jn[n] EXCEPT !.provider = TRUE, !.step = "passphrase"]
      OBVIOUS
    <3>2. Joins(n, j)
      BY <1>5, <2>4, <3>1 DEF JHydrate
    <3>3. JFine(j, Sealed, hdr) /\ j.step # "enrolled"
      BY <1>a, <3>1 DEF JFine, JSessions, JSteps
    <3> QED BY <3>2, <3>3
  <2>5. ASSUME NEW ok \in BOOLEAN, JUnlock(n, ok)
        PROVE  \E j : Joins(n, j) /\ JFine(j, Sealed, hdr) /\ j.step # "enrolled"
    <3>1. PICK j : j = [jn[n] EXCEPT !.step = "unlocking", !.read = hdr]
      OBVIOUS
    <3>2. Joins(n, j)
      BY <1>5, <2>5, <3>1 DEF JUnlock
    <3>3. j \in JSessions /\ j.step = "unlocking" /\ j.read = hdr /\ j.shard = jn[n].shard
          /\ j.key = jn[n].key
      BY <1>a, <3>1 DEF JSessions, JSteps
    <3>4. JFine(j, Sealed, hdr) /\ j.step # "enrolled"
      BY <1>a, <3>3 DEF JFine, Headers
    <3> QED BY <3>2, <3>4
  <2>6. CASE JCompare(n)
    <3>1. PICK j : j = [jn[n] EXCEPT !.step = "storing"]
      OBVIOUS
    <3>2. Joins(n, j) /\ jn[n].step = "writing"
      BY <1>5, <2>6, <3>1 DEF JCompare
    <3>3. JFine(j, Sealed, hdr) /\ j.step # "enrolled"
      BY <1>a, <3>1, <3>2 DEF JFine, JSessions, JSteps
    <3> QED BY <3>2, <3>3
  <2> QED BY <1>5, <2>1, <2>2, <2>3, <2>4, <2>5, <2>6 DEF JRefused, JClosed
<1> QED BY <1>1, <1>b, <1>2, <1>4, <1>5, JMoves

\* The slot is written on the header that was read; what an upload compared before takes away is
\* remembered.
LEMMA JWriteInd ==
    ASSUME EnInd, NEW n \in Joiners, JWrite(n)
    PROVE  EnInd'
<1>a. /\ JFine(jn[n], Sealed, hdr) /\ jn[n] \in JSessions /\ hdr \in Headers /\ SlotsKept
      /\ BoxFine(inbox, Joiners, Sealed, SomeEnrolled) /\ BoxFine(xbox, Channels, Sealed, SomeEnrolled)
      /\ SomeEnrolled \in BOOLEAN /\ DOMAIN jn = Joiners
  BY DEF EnInd, JFine, SomeEnrolled
<1>1. /\ jn[n].step \in {"writing", "storing"}
      /\ UNCHANGED <<xd, ses, inbox, atomic, saver, nTries, compared, crossed, trampled>>
  BY DEF JWrite, enBounds
<1>b. Sealed' = Sealed
  BY <1>1 DEF Sealed
<1>2. PICK j : j = [jn[n] EXCEPT !.step = "enrolled", !.conn = FALSE]
  OBVIOUS
<1>3. /\ hdr' = [version |-> hdr.version + 1, slots |-> jn[n].read.slots \cup {n}]
      /\ raced' = IF atomic THEN raced ELSE raced \cup (hdr.slots \ jn[n].read.slots)
      /\ xbox' = SendsToX(n, Msg("done", None)) /\ jn' = [jn EXCEPT ![n] = j]
  BY <1>2 DEF JWrite, Joins
<1>4. jn[n].read \in Headers /\ (atomic => jn[n].read.slots = hdr.slots)
  BY <1>a, <1>1 DEF JWrite, SlotUpload, JFine
<1>5. /\ hdr' \in Headers /\ hdr'.version = hdr.version + 1 /\ n \in hdr'.slots
      /\ hdr.slots \cup raced \subseteq hdr'.slots \cup raced' /\ (atomic => raced' = raced)
  BY <1>a, <1>3, <1>4 DEF Headers
<1>6. /\ j \in JSessions /\ j.step = "enrolled" /\ j.conn = FALSE /\ j.shard = jn[n].shard
      /\ j.key = jn[n].key
  BY <1>a, <1>2 DEF JSessions, JSteps
<1>7. JFine(j, Sealed, hdr')
  BY <1>a, <1>6 DEF JFine
<1>8. DOMAIN jn' = Joiners /\ jn'[n] = j /\ \A i \in Joiners : i # n => jn'[i] = jn[i]
  BY <1>a, <1>3
<1>9. ASSUME NEW i \in Joiners PROVE JFine(jn'[i], Sealed, hdr')
  <2>1. CASE i = n
    BY <1>7, <1>8, <2>1
  <2>2. CASE i # n
    <3>1. JFine(jn[i], Sealed, hdr) /\ jn'[i] = jn[i]
      BY <1>8, <2>2 DEF EnInd
    <3>2. hdr.version \in Nat
      BY <1>a DEF Headers
    <3>3. jn[i].read \in Headers => jn[i].read.version \in Nat
      BY DEF Headers
    <3> QED BY <1>5, <3>1, <3>2, <3>3 DEF JFine
  <2> QED BY <2>1, <2>2
<1>10. SomeEnrolled' = TRUE
  BY <1>6, <1>8 DEF SomeEnrolled
<1>d. Sealed \subseteq Sealed /\ (SomeEnrolled => TRUE) /\ TRUE \in BOOLEAN
  OBVIOUS
<1>11. BoxFine(inbox', Joiners, Sealed, TRUE) /\ BoxFine(xbox', Channels, Sealed, TRUE)
  <2>1. BoxFine(inbox, Joiners, Sealed, TRUE) /\ BoxFine(xbox, Channels, Sealed, TRUE)
    BY <1>a, <1>d, StayFine
  <2>2. MsgFine(Msg("done", None), Sealed, TRUE)
    BY DEF MsgFine, Msg, Messages
  <2> QED BY <1>1, <1>3, <2>1, <2>2, SendFine
<1>12. SlotsKept'
  <2>1. \A i \in Joiners : jn'[i].step = "enrolled" => i \in hdr'.slots \cup trampled' \cup raced'
    BY <1>a, <1>1, <1>5, <1>8 DEF SlotsKept
  <2>2. \E i \in Joiners : jn'[i].step = "enrolled"
    BY <1>6, <1>8
  <2>3. atomic' => raced' = {}
    BY <1>a, <1>1, <1>5 DEF SlotsKept
  <2> QED BY <2>1, <2>2, <2>3 DEF SlotsKept
<1>13. BoxFine(inbox', Joiners, Sealed', SomeEnrolled') /\ BoxFine(xbox', Channels, Sealed', SomeEnrolled')
  BY <1>b, <1>10, <1>11
<1>14. PageFine(xd', Sealed') /\ SesFine(xd', ses') /\ TriesFine' /\ (crossed' # {} => xd'.made > 1)
  BY <1>1, <1>b DEF EnInd, TriesFine
<1> QED BY <1>1, <1>b, <1>5, <1>8, <1>9, <1>12, <1>13, <1>14 DEF EnInd
-----------------------------------------------------------------------------
(***************************************************************************)
(* A save of another device, and the theorem.                              *)
(***************************************************************************)
LEMMA SaveInd ==
    ASSUME EnInd, SaveReads \/ SaveWrites
    PROVE  EnInd'
<1>a. hdr \in Headers /\ saver \in [slots : SUBSET Joiners] \cup {None} /\ SlotsKept
  BY DEF EnInd
<1>1. UNCHANGED <<xd, ses, jn, inbox, xbox, nTries, atomic, compared, crossed, raced>>
  BY DEF SaveReads, SaveWrites, enBounds
<1>b. Sealed' = Sealed
  BY <1>1 DEF Sealed
<1>2. /\ hdr' \in Headers /\ saver' \in [slots : SUBSET Joiners] \cup {None}
      /\ hdr' = hdr \/ hdr'.version = hdr.version + 1
      /\ hdr.slots \cup trampled \subseteq hdr'.slots \cup trampled'
  <2>1. CASE SaveReads
    BY <1>a, <2>1 DEF SaveReads, Headers
  <2>2. CASE SaveWrites
    <3>1. saver \in [slots : SUBSET Joiners]
      BY <1>a, <2>2 DEF SaveWrites
    <3> QED BY <1>a, <2>2, <3>1 DEF SaveWrites, Headers
  <2> QED BY <2>1, <2>2
<1>3. ASSUME NEW i \in Joiners PROVE JFine(jn'[i], Sealed', hdr')
  <2>1. JFine(jn[i], Sealed, hdr) /\ jn'[i] = jn[i]
    BY <1>1 DEF EnInd
  <2>2. hdr.version \in Nat /\ (jn[i].read \in Headers => jn[i].read.version \in Nat)
    BY <1>a DEF Headers
  <2> QED BY <1>b, <1>2, <2>1, <2>2 DEF JFine
<1>4. SomeEnrolled' <=> SomeEnrolled
  BY <1>1 DEF SomeEnrolled
<1>5. BoxFine(inbox', Joiners, Sealed', SomeEnrolled') /\ BoxFine(xbox', Channels, Sealed', SomeEnrolled')
  BY <1>1, <1>b, <1>4 DEF EnInd, BoxFine, MsgFine
<1>6. SlotsKept'
  BY <1>a, <1>1, <1>2 DEF SlotsKept
<1>7. /\ PageFine(xd', Sealed') /\ SesFine(xd', ses') /\ TriesFine' /\ DOMAIN jn' = Joiners
      /\ (crossed' # {} => xd'.made > 1)
  BY <1>1, <1>b DEF EnInd, TriesFine
<1> QED BY <1>2, <1>3, <1>5, <1>6, <1>7 DEF EnInd

LEMMA EnStart == EnInit => EnInd
<1> SUFFICES ASSUME EnInit PROVE EnInd
  OBVIOUS
<1>a. EnTries \in Nat /\ Sealed = {} /\ xd = FreshX /\ nTries = 0
  BY EnrollAssumption DEF EnInit, Sealed
<1>1. PageFine(xd, Sealed)
  BY <1>a DEF PageFine, Pages, XSteps, FreshX
<1>2. SesFine(xd, ses)
  <2>1. NoSession \in Sessions /\ NoSession.sk = FALSE
    BY DEF NoSession, Sessions, Socks
  <2>2. ses = [c \in Channels |-> NoSession]
    BY DEF EnInit
  <2> QED BY <1>a, <2>1, <2>2 DEF SesFine, FreshX
<1>3. TriesFine
  BY <1>a DEF TriesFine, FreshX
<1>4. ASSUME NEW n \in Joiners PROVE JFine(jn[n], Sealed, hdr) /\ jn[n].step = "qr-scan"
  <2>1. PICK p \in BOOLEAN : jn[n] = FreshJ(p)
    BY DEF EnInit
  <2>2. FreshJ(p) \in JSessions
    BY DEF FreshJ, JSessions, JSteps
  <2>3. FreshJ(p).step = "qr-scan" /\ FreshJ(p).shard = None
    BY DEF FreshJ
  <2> QED BY <2>1, <2>2, <2>3 DEF JFine
<1>5. DOMAIN jn = Joiners /\ crossed = {}
  BY DEF EnInit
<1>6. BoxFine(inbox, Joiners, Sealed, SomeEnrolled) /\ BoxFine(xbox, Channels, Sealed, SomeEnrolled)
  BY DEF EnInit, BoxFine
<1>7. hdr \in Headers /\ saver \in [slots : SUBSET Joiners] \cup {None}
  BY DEF EnInit, Headers
<1>8. SlotsKept
  BY <1>4 DEF EnInit, SlotsKept, FreshX
<1> QED BY <1>1, <1>2, <1>3, <1>4, <1>5, <1>6, <1>7, <1>8 DEF EnInd

LEMMA EnStep == EnInd /\ [EnNext]_enrVars => EnInd'
<1> SUFFICES ASSUME EnInd, [EnNext]_enrVars PROVE EnInd'
  OBVIOUS
<1>1. CASE XNext
  BY <1>1, XStepInd
<1>2. ASSUME NEW n \in Joiners, JNext(n) PROVE EnInd'
  BY <1>2, JMeetInd, JTransferInd, JOwnInd, JWriteInd DEF JNext
<1>3. CASE SaveReads \/ SaveWrites
  BY <1>3, SaveInd
<1>4. CASE UNCHANGED enrVars
  <2>1. UNCHANGED <<xd, ses, jn, inbox, xbox, nTries, hdr, atomic, saver, compared, crossed, trampled, raced>>
    BY <1>4 DEF enrVars, enBounds, hdrVars
  <2> QED BY <2>1 DEF EnInd, SlotsKept, SomeEnrolled, Sealed, TriesFine
<1> QED BY <1>1, <1>2, <1>3, <1>4 DEF EnNext

LEMMA EnHolds == EnInd => EnrolInv
<1> SUFFICES ASSUME EnInd PROVE EnrolInv
  OBVIOUS
<1>1. EnTypeOK
  <2>1. xd.sid \in 0..xd.made /\ xd.qr \in 0..xd.made /\ xd.ws \in 0..xd.made
    BY DEF EnInd, PageFine, Pages
  <2>2. \A c \in Channels : ses[c].sock \in Socks /\ (ses[c].sk => ses[c].key = None)
    BY DEF EnInd, SesFine, Sessions
  <2> QED BY <2>1, <2>2 DEF EnInd, EnTypeOK, PageFine, Pages, JFine, JSessions
<1>2. SealedForCompared
  BY DEF EnInd, SealedForCompared, BoxFine, MsgFine, JFine, Sealed
<1> QED BY <1>1, <1>2 DEF EnInd, EnrolInv

\* The shard of a vault is sealed, sent and kept under no keys but those whose code the user of
\* the existing device has compared, or, once "Try again" has started two sessions, those of the
\* session opened last; and two devices that enrol at the same time keep each other's slot on a
\* primary that compares the version and stores in one step, for any number of devices that scan
\* the code, attempts, broken sockets and saves (byo_enrollment_derive_keys, encrypt_shard, the
\* version check of the slot's upload).
THEOREM EnrolmentHolds == EnSpec => []EnrolInv
<1>1. EnInd /\ [EnNext]_enrVars => EnInd'
  BY EnStep
<1> QED BY <1>1, EnStart, EnHolds, PTL DEF EnSpec
=============================================================================
